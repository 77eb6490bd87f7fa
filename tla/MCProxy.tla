------------------------------ MODULE MCProxy ------------------------------
(***************************************************************************)
(* Model-checking harness of Proxy: the constants of the .cfg files, the  *)
(* type invariant, the safety properties and the refinement of Ledger.    *)
(***************************************************************************)
EXTENDS Proxy

MCKeys == {<<"k">>}
(* Two keys: a request that names the other key is then visible.          *)
MCTwoKeys == {<<"k">>, <<"j">>}
MCStoredValues == {<<>>, <<"9", "9">>, <<"x">>}
(* Requests: the contract's functions and an unknown one, on the AOT file *)
(* that loads, one that does not, and a missing one.                       *)
MCRequests ==
  [aot : {"good", "bad", "missing"},
   fn : {<<"create">>, <<"add">>, <<"query">>, <<"delete">>},
   args : {<<<<"k">>, <<"5", "5">>>>}]
MCTwoKeyRequests ==
  [aot : {"good", "bad", "missing"},
   fn : {<<"create">>, <<"add">>, <<"query">>, <<"delete">>},
   args : {<<<<"k">>, <<"5", "5">>>>, <<<<"j">>, <<"5">>>>}]

(* Two callers at once: a request with a GET/PUT round trip, and a       *)
(* failing load.                                                           *)
MCConcurrentRequests ==
  [aot : {"good", "bad"}, fn : {<<"add">>}, args : {<<<<"k">>, <<"5", "5">>>>}]
MCConcurrentStored == {<<"1">>}

(* A stored value that fills its VAL_SIZE buffer, read by create.         *)
MCFullStored == {<<"9", "9", "9">>}
MCCreateRequests ==
  [aot : {"good"}, fn : {<<"create">>}, args : {<<<<"k">>, <<"5">>>>}]

(* create with an empty person argument: the key "".                      *)
MCEmptyKeys == {<<>>}
MCEmptyStored == {<<>>}
MCEmptyKeyRequests ==
  [aot : {"good"}, fn : {<<"create">>}, args : {<<<<>>, <<"5">>>>}]

MessageOK(m) ==
  \/ m = NoMsg
  \/ m.type = "invocation_request" /\ m.a \in Requests
  \/ /\ m.type \in {"invocation_response", "get_state_request", "put_state_request",
                    "get_state_response", "put_state_response"}
     /\ m.a \in Seq(STRING) /\ m.b \in Seq(STRING)

(* Fits(s, cap): a C string that is NUL-terminated within capacity cap.   *)
Fits(s, cap) == s \in Seq(STRING) /\ Len(s) < cap

(* The types of the variables, with the invariant of spec.md section 3    *)
(* that every string field of the session, the guest's buffers and the    *)
(* shared buffer is NUL-terminated within its capacity.                   *)
TypeOK ==
  /\ sess = NULL \/
       /\ sess.pending_type \in {0, GET_STATE_REQUEST, PUT_STATE_REQUEST}
       /\ \A i \in 1..ARGS_NUMBER : Fits(sess.args[i], ARG_SIZE)
       /\ Fits(sess.key, KEY_SIZE) /\ Fits(sess.value, VAL_SIZE)
       /\ Fits(sess.response, RESPONSE_SIZE)
  /\ guest = NULL \/
       /\ guest.fsm_state \in FsmStates /\ guest.current_op \in Ops
       /\ Fits(guest.function, KEY_MAX) /\ Fits(guest.person, KEY_MAX)
       /\ Fits(guest.arg1, ARG_MAX) /\ Fits(guest.cur_val, VAL_MAX)
  /\ Fits(reply.buf.key, KEY_SIZE) /\ Fits(reply.buf.value, VAL_SIZE)
  /\ Fits(reply.buf.response, RESPONSE_SIZE)
  /\ runtime \in BOOLEAN /\ heap_set \in BOOLEAN
  /\ tee_session \in {"closed", "open", "dead"}
  /\ reply.res \in Results
  /\ pc \in [Callers -> {"listen", "run", "invoke", "loop", "await", "resume", "close",
                         "open", "heap", "status"}]
  /\ ok \in [Callers -> BOOLEAN]
  /\ cst \in [Callers -> {"idle", "waiting"}]
  /\ connected \in [Callers -> BOOLEAN]
  /\ \A c \in Callers : MessageOK(toProxy[c]) /\ MessageOK(toCaller[c])
  /\ result \in [Callers -> [kind : {"none", "response", "failed"}, resp : Seq(STRING)]]
  /\ status \in [Callers -> {"none", "ok", "error"}]
  /\ ninv \in [Callers -> 0..MaxInvocations]
  /\ blocks \in 0..TaHeapBlocks
  /\ bufok \in [Callers -> BOOLEAN] /\ outbuf \in BOOLEAN

-----------------------------------------------------------------------------
(* Refinement of Ledger.  While a caller's invocation is in progress the  *)
(* writes it already applied are undone: the abstract invocation takes    *)
(* effect when the caller gets its response or the call ends.             *)

UndoWrites(l, u) == FoldRight(LAMBDA e, acc : [acc EXCEPT ![e[1]] = e[2]], u, l)

AbsLedger ==
  FoldSet(LAMBDA c, acc : UndoWrites(acc, undo[c]), ledger, Callers)

Abs == INSTANCE Ledger WITH
         ledger <- AbsLedger,
         areq <- [c \in Callers |-> IF cst[c] = "waiting" THEN creq[c] ELSE NoReq],
         outcome <- result

(* Every invocation a caller makes behaves as the contract operation      *)
(* applied atomically to the caller's state: the response is the one     *)
(* create/add/query/ERROR gives on the state before it, and the state     *)
(* after it is that operation's write; a failed call applied its write or *)
(* not.  This is the whole trampoline at work: RUN_WASM, the relay's      *)
(* forwarding, every RESUME_WASM delivering the right answer into the     *)
(* right guest buffer, and the chaincode's state machine across steps.    *)
LedgerRefinement == Abs!Spec

(* Every GetStateRequest or PutStateRequest a caller receives names the   *)
(* key of that caller's own invocation: no request left pending in the TA *)
(* session by an earlier invocation (pending_type, key) is forwarded.     *)
RequestsBelongToInvocation ==
  \A c \in Callers :
    (toCaller[c] /= NoMsg
     /\ toCaller[c].type \in {"get_state_request", "put_state_request"})
      => toCaller[c].a = Abs!ReqKey(creq[c])

(* The session invariant of spec.md section 3: while a GET or PUT request *)
(* is pending, the session holds no final response (has_response = 0).    *)
PendingExcludesResponse ==
  sess /= NULL /\ sess.pending_type /= 0 => ~sess.has_response
(* The TA never frees what COMMAND_RUN_WASM allocates (heap_buf_owned,    *)
(* trusted_wasm_owned); memory stays bounded (spec.md section 4.4) only    *)
(* if the relay's restart_session after every call unloads the instance.  *)
(* The instance then holds at most its session context and the pool and   *)
(* bytecode copy of one invocation.                                        *)
MemoryBounded == blocks <= 3

(* Every TEE command a server thread issues passes, in op.params[3], an  *)
(* output buffer that is still allocated: no other thread's               *)
(* restart_session freed ctx.output_buffer after this call's op took it.  *)
(* libteec copies a temporary memref in before and out after the command, *)
(* so a freed one is read and written after free.                          *)
OutputBufferLive ==
  \A c \in Callers : pc[c] \in {"invoke", "resume"} => bufok[c]

(* free_buffers (restart_session, main.cpp) frees ctx.output_buffer only *)
(* while it is allocated: two threads restarting the session never both   *)
(* free it before one of them allocates the next.                          *)
NoDoubleFree ==
  [][\A c \in Callers : pc[c] = "close" /\ pc'[c] = "open" => outbuf]_vars

(* restart_session after every call leaves the relay ready for the next  *)
(* one, however the threads' cleanup_session and initialize_session       *)
(* interleave: once no thread is inside a call, the shared session is     *)
(* open on a TA instance whose heap is configured, and ctx.output_buffer  *)
(* is allocated.  Otherwise every later RUN_WASM fails until the next     *)
(* restart, or runs on freed memory.                                       *)
RelayReadyWhenIdle ==
  (\A c \in Callers : pc[c] = "listen")
    => tee_session = "open" /\ heap_set /\ outbuf

-----------------------------------------------------------------------------
(* Liveness.  A server thread runs whenever it can (the gRPC sync server  *)
(* gives each stream its own thread) and the caller answers every request *)
(* and reads every message; a caller may still cancel at any time.        *)
FairSpec ==
  /\ Spec
  /\ \A c \in Callers :
       /\ WF_vars(Thread(c))
       /\ WF_vars(ServeGet(c) \/ ServePut(c) \/ TakeResponse(c) \/ TakeStatus(c))

(* Every call a server thread takes up ends: it gets back to reading the  *)
(* next InvocationRequest whatever the other threads do to the shared TEE *)
(* session, and also when its caller cancels while the relay blocks in    *)
(* stream->Read for an answer.                                             *)
ThreadsReturn == \A c \in Callers : pc[c] /= "listen" ~> pc[c] = "listen"

(* Every invocation a caller starts ends with an outcome, a response or a *)
(* failure, without the caller having to cancel: the chaincode's state    *)
(* machine finishes in finitely many GET/PUT round trips, and the relay   *)
(* ends every call with its Status after the last message.                *)
InvocationsEnd ==
  \A c \in Callers : cst[c] = "waiting" ~> result[c] /= NoOutcome

=============================================================================
