------------------------------ MODULE Proxy ------------------------------
(***************************************************************************)
(* The untrusted relay (fixed-proxy/main.cpp) composed with the TA        *)
(* (WasmTA) and its callers.                                               *)
(*                                                                         *)
(* Every caller has its own gRPC stream, served by its own server thread  *)
(* running InvocationImpl::TransactionInvocation.  All threads share the  *)
(* one InvocationImpl and therefore the one TEE session `ctx.sess`; the   *)
(* code takes no lock around an invocation.  A thread's steps are its     *)
(* stream reads and writes and its TEEC_InvokeCommand calls, each atomic.  *)
(*                                                                         *)
(* The caller side (the chaincode wrapper of spec.md section 6) is the     *)
(* environment: it sends one InvocationRequest per stream, answers every  *)
(* GetStateRequest from its state `ledger` and applies every               *)
(* PutStateRequest to it, and may cancel its stream at any time.          *)
(***************************************************************************)
EXTENDS WasmTA, FiniteSets

CONSTANTS
  Callers,        \* callers, and the server thread serving each one
  Keys,           \* keys of the caller's state
  Requests,       \* InvocationRequest records [aot, fn, args]
  StoredValues,   \* initial values of the caller's state
  MaxInvocations, \* invocations per caller
  NoMsg,          \* a model value: an empty stream direction
  NoReq,          \* a model value: no invocation in progress
  GetAnswerKinds  \* message kinds a caller answers a GetStateRequest with

ASSUME MaxInvocations \in Nat \ {0}
ASSUME "get_state_response" \in GetAnswerKinds

VARIABLES
  pc,          \* where each server thread is in TransactionInvocation
  preq,        \* the InvocationRequest the thread read
  op,          \* params[1] / params[2] after the thread's last TEE command
  answer,      \* the value the thread wrote into the shared buffer
  ok,          \* the thread's `ok` / `success`
  bufok,       \* the thread's op.params[3] points at allocated memory
  outbuf,      \* ctx.output_buffer is allocated (not freed since)
  ledger,      \* the callers' key/value state
  cst,         \* caller: "idle", or "waiting" for its stream to end
  creq,        \* caller: its current InvocationRequest
  result,      \* caller: what it got back for it
  connected,   \* caller: its stream is open
  toProxy,     \* caller -> proxy message on the stream, or NoMsg
  toCaller,    \* proxy -> caller message on the stream, or NoMsg
  status,      \* Status returned on the caller's stream, "none" until then
  ninv,        \* caller: invocations started (bounded by MaxInvocations)
  undo         \* history: <<key, old value>> of writes applied by the
               \* caller's invocation in progress (for the refinement)

proxy_vars == <<pc, preq, op, answer, ok, bufok, outbuf>>
caller_vars == <<ledger, cst, creq, result, connected, toProxy, toCaller, status,
                 ninv, undo>>
vars == <<ta_vars, proxy_vars, caller_vars>>

NoOutcome == [kind |-> "none", resp |-> <<>>]
Failed == [kind |-> "failed", resp |-> <<>>]
Response(r) == [kind |-> "response", resp |-> r]

(* op before the first TEEC_InvokeCommand of a call.                      *)
NoOp == Reply("TEE_SUCCESS", 0, NoBuf)

Msg(type, a, b) == [type |-> type, a |-> a, b |-> b]

(* Fault model: each slot filled to ARG_SIZE characters, leaving no room  *)
(* for the NUL.                                                            *)
ArgsOf_unterminated(r) ==
  [i \in 1..ARGS_NUMBER |->
     IF i = 1 THEN CopyTrunc(r.fn, ARG_SIZE + 1)
     ELSE IF i - 1 <= MinOf(Len(r.args), ARGS_NUMBER - 1)
          THEN CopyTrunc(r.args[i - 1], ARG_SIZE + 1) ELSE <<>>]

(* struct arguments as the relay fills it: slot 0 the function name, then *)
(* at most ARGS_NUMBER - 1 arguments, each cut to ARG_SIZE - 1.            *)
ArgsOf(r) ==
  [i \in 1..ARGS_NUMBER |->
     IF i = 1 THEN CopyTrunc(r.fn, ARG_SIZE)
     ELSE IF i - 1 <= MinOf(Len(r.args), ARGS_NUMBER - 1)
          THEN CopyTrunc(r.args[i - 1], ARG_SIZE) ELSE <<>>]

Goto(c, where) == pc' = [pc EXCEPT ![c] = where]

(* The end of execute_wasm_with_grpc_proxy: out, then restart_session.    *)
Bail(c) == /\ Goto(c, "close") /\ ok' = [ok EXCEPT ![c] = FALSE]

-----------------------------------------------------------------------------
(* Server thread of caller c                                              *)

(* stream->Read of the InvocationRequest.                                  *)
ReadRequest(c) ==
  /\ pc[c] = "listen"
  /\ toProxy[c] /= NoMsg /\ toProxy[c].type = "invocation_request"
  /\ preq' = [preq EXCEPT ![c] = toProxy[c].a]
  /\ toProxy' = [toProxy EXCEPT ![c] = NoMsg]
  /\ Goto(c, "run")
  /\ UNCHANGED <<ta_vars, op, answer, ok, bufok, outbuf, ledger, cst, creq, result,
                 connected, toCaller, status, ninv, undo>>

(* Open and read the AOT file and calloc the shared buffer; either can   *)
(* fail.  Then the TEEC_Operation is set up: params[3] takes the current  *)
(* ctx.output_buffer, and every later command of the call reuses op.      *)
LoadAot(c) ==
  /\ pc[c] = "run"
  /\ \/ /\ preq[c].aot = "missing"                    \* fopen failed
        /\ Bail(c) /\ UNCHANGED bufok
     \/ /\ preq[c].aot /= "missing"                    \* calloc failed
        /\ Bail(c) /\ UNCHANGED bufok
     \/ /\ preq[c].aot /= "missing"
        /\ Goto(c, "invoke")
        /\ bufok' = [bufok EXCEPT ![c] = outbuf]
        /\ UNCHANGED ok
  /\ UNCHANGED <<ta_vars, preq, op, answer, outbuf, caller_vars>>

(* COMMAND_RUN_WASM with the bytecode and the arguments.                  *)
RunWasmCall(c) ==
  /\ pc[c] = "invoke"
  /\ RunWasm(ArgsOf(preq[c]), preq[c].aot = "good")
  /\ op' = [op EXCEPT ![c] = reply']
  /\ ok' = [ok EXCEPT ![c] = (reply'.res = "TEE_SUCCESS")]
  /\ Goto(c, IF reply'.res = "TEE_SUCCESS" THEN "loop" ELSE "close")
  /\ UNCHANGED <<preq, answer, bufok, outbuf, caller_vars>>

(* One turn of the proxy loop: forward what params[1] reports.  A Write   *)
(* on a cancelled stream fails.                                            *)
Forward(c) ==
  /\ pc[c] = "loop"
  /\ LET m == CASE op[c].tag = INVOCATION_RESPONSE ->
                     Msg("invocation_response", op[c].buf.response, <<>>)
                [] op[c].tag = GET_STATE_REQUEST ->
                     Msg("get_state_request", op[c].buf.key, <<>>)
                [] op[c].tag = PUT_STATE_REQUEST ->
                     Msg("put_state_request", op[c].buf.key, op[c].buf.value)
     IN  /\ toCaller' = [toCaller EXCEPT ![c] = IF connected[c] THEN m ELSE NoMsg]
         /\ IF op[c].tag = INVOCATION_RESPONSE \/ ~connected[c]
            THEN /\ Goto(c, "close")
                 /\ ok' = [ok EXCEPT ![c] = connected[c]]
            ELSE /\ Goto(c, "await") /\ UNCHANGED ok
  /\ UNCHANGED <<ta_vars, preq, op, answer, bufok, outbuf, ledger, cst, creq, result,
                 connected, toProxy, status, ninv, undo>>

(* Fault model: the relay ignores a failed stream->Read and waits on.     *)
ReadAnswer_blocking(c) ==
  /\ pc[c] = "await"
  /\ toProxy[c] /= NoMsg
  /\ LET m == toProxy[c]
         v == IF op[c].tag = GET_STATE_REQUEST /\ m.type = "get_state_response"
              THEN CopyIfFits(m.a, VAL_SIZE) ELSE <<>>
     IN  answer' = [answer EXCEPT ![c] = v]
  /\ toProxy' = [toProxy EXCEPT ![c] = NoMsg]
  /\ Goto(c, "resume")
  /\ UNCHANGED <<ta_vars, preq, op, ok, bufok, outbuf, ledger, cst, creq, result,
                 connected, toCaller, status, ninv, undo>>

(* stream->Read of the answer, then the shared buffer is zeroed and the   *)
(* value (or the acknowledgement) written.  The relay takes the value of  *)
(* get_state_response() whatever kind of message arrived, and keeps it    *)
(* only if shorter than VAL_SIZE.  An acknowledgement lands in the key    *)
(* field, so the value field stays empty.                                  *)
ReadAnswer(c) ==
  /\ pc[c] = "await"
  /\ \/ /\ toProxy[c] /= NoMsg
        /\ LET m == toProxy[c]
               v == IF op[c].tag = GET_STATE_REQUEST /\ m.type = "get_state_response"
                    THEN CopyIfFits(m.a, VAL_SIZE) ELSE <<>>
           IN  answer' = [answer EXCEPT ![c] = v]
        /\ toProxy' = [toProxy EXCEPT ![c] = NoMsg]
        /\ Goto(c, "resume")
        /\ UNCHANGED ok
     \/ /\ toProxy[c] = NoMsg /\ ~connected[c]
        /\ Bail(c)
        /\ UNCHANGED <<answer, toProxy>>
  /\ UNCHANGED <<ta_vars, preq, op, bufok, outbuf, ledger, cst, creq, result,
                 connected, toCaller, status, ninv, undo>>

(* COMMAND_RESUME_WASM.                                                    *)
ResumeCall(c) ==
  /\ pc[c] = "resume"
  /\ ResumeWasm(answer[c])
  /\ op' = [op EXCEPT ![c] = reply']
  /\ ok' = [ok EXCEPT ![c] = (reply'.res = "TEE_SUCCESS")]
  /\ Goto(c, IF reply'.res = "TEE_SUCCESS" THEN "loop" ELSE "close")
  /\ UNCHANGED <<preq, answer, bufok, outbuf, caller_vars>>

(* restart_session: terminate_tee_session, then initialize_session        *)
(* (prepare_tee_session, configure_heap_size).  Opening over a handle     *)
(* another thread already reopened leaks that session, which keeps the    *)
(* TA instance alive.                                                      *)
(* free_buffers: ctx.output_buffer is freed, but the pointer is kept, so   *)
(* every op that took it (this thread's and any other's) now dangles.     *)
free_buffers ==
  /\ outbuf' = FALSE
  /\ bufok' = [d \in Callers |-> FALSE]

(* Fault model: the thread skips terminate_tee_session and keeps using   *)
(* the open session for the next call.                                     *)
CloseCall_kept(c) ==
  /\ pc[c] = "close"
  /\ free_buffers
  /\ Goto(c, "open")
  /\ UNCHANGED <<ta_vars, preq, op, answer, ok, caller_vars>>

(* cleanup_session: terminate_tee_session, then free_buffers.             *)
CloseCall(c) ==
  /\ pc[c] = "close"
  /\ IF tee_session /= "closed" THEN CloseSession ELSE UNCHANGED ta_vars
  /\ free_buffers
  /\ Goto(c, "open")
  /\ UNCHANGED <<preq, op, answer, ok, caller_vars>>

(* allocate_buffers: a new ctx.output_buffer.                             *)
allocate_buffers == outbuf' = TRUE

(* initialize_session: allocate_buffers, then prepare_tee_session.        *)
OpenCall(c) ==
  /\ pc[c] = "open"
  /\ allocate_buffers
  /\ IF tee_session = "open" THEN UNCHANGED ta_vars ELSE OpenSession
  /\ Goto(c, "heap")
  /\ UNCHANGED <<preq, op, answer, ok, bufok, caller_vars>>

(* Fault model: initialize_session without configure_heap_size.          *)
HeapCall_skipped(c) ==
  /\ pc[c] = "heap"
  /\ Goto(c, "status")
  /\ UNCHANGED <<ta_vars, preq, op, answer, ok, bufok, outbuf, caller_vars>>

(* configure_heap_size: COMMAND_CONFIGURE_HEAP; a failure is only logged. *)
HeapCall(c) ==
  /\ pc[c] = "heap"
  /\ ConfigureHeap(10 * 1024 * 1024)
  /\ Goto(c, "status")
  /\ UNCHANGED <<preq, op, answer, ok, bufok, outbuf, caller_vars>>

(* TransactionInvocation returns its Status.  gRPC delivers it on the     *)
(* stream after every message written before it.                           *)
(* The thread's locals (the request, op, the answer, ok) end with it.     *)
ReturnStatus(c) ==
  /\ pc[c] = "status"
  /\ Goto(c, "listen")
  /\ status' = [status EXCEPT ![c] =
                  IF connected[c] THEN (IF ok[c] THEN "ok" ELSE "error") ELSE @]
  /\ preq' = [preq EXCEPT ![c] = NoReq]
  /\ op' = [op EXCEPT ![c] = NoOp]
  /\ answer' = [answer EXCEPT ![c] = <<>>]
  /\ ok' = [ok EXCEPT ![c] = TRUE]
  /\ UNCHANGED <<ta_vars, bufok, outbuf, ledger, cst, creq, result, connected, toProxy,
                 toCaller, ninv, undo>>

-----------------------------------------------------------------------------
(* Caller c                                                                *)

Invoke(c, r) ==
  /\ cst[c] = "idle" /\ pc[c] = "listen" /\ ninv[c] < MaxInvocations
  /\ cst' = [cst EXCEPT ![c] = "waiting"]
  /\ creq' = [creq EXCEPT ![c] = r]
  /\ result' = [result EXCEPT ![c] = NoOutcome]
  /\ connected' = [connected EXCEPT ![c] = TRUE]
  /\ toProxy' = [toProxy EXCEPT ![c] = Msg("invocation_request", r, <<>>)]
  /\ toCaller' = [toCaller EXCEPT ![c] = NoMsg]
  /\ ninv' = [ninv EXCEPT ![c] = @ + 1]
  /\ undo' = [undo EXCEPT ![c] = <<>>]
  /\ UNCHANGED <<ta_vars, proxy_vars, ledger, status>>

Stored(k) == IF k \in DOMAIN ledger THEN ledger[k] ELSE <<>>

(* The caller answers a GetStateRequest with the stored value; a caller  *)
(* that breaks the protocol sends another kind of message instead, e.g.  *)
(* the PutStateResponse it owes some other request.                       *)
AnswerTo(kind, key) ==
  IF kind = "get_state_response" THEN Msg(kind, Stored(key), <<>>)
  ELSE Msg(kind, Lit("OK"), <<>>)

ServeGet(c) ==
  /\ connected[c]
  /\ toCaller[c] /= NoMsg /\ toCaller[c].type = "get_state_request"
  /\ toCaller' = [toCaller EXCEPT ![c] = NoMsg]
  /\ \E kind \in GetAnswerKinds :
       toProxy' = [toProxy EXCEPT ![c] = AnswerTo(kind, toCaller[c].a)]
  /\ UNCHANGED <<ta_vars, proxy_vars, ledger, cst, creq, result, connected,
                 status, ninv, undo>>

ServePut(c) ==
  /\ connected[c]
  /\ toCaller[c] /= NoMsg /\ toCaller[c].type = "put_state_request"
  /\ LET k == toCaller[c].a
     IN  /\ ledger' = [x \in DOMAIN ledger \cup {k} |->
                         IF x = k THEN toCaller[c].b ELSE ledger[x]]
         /\ undo' = [undo EXCEPT ![c] = Append(@, <<k, Stored(k)>>)]
  /\ toCaller' = [toCaller EXCEPT ![c] = NoMsg]
  /\ toProxy' = [toProxy EXCEPT ![c] = Msg("put_state_response", Lit("OK"), <<>>)]
  /\ UNCHANGED <<ta_vars, proxy_vars, cst, creq, result, connected, status, ninv>>

TakeResponse(c) ==
  /\ connected[c]
  /\ toCaller[c] /= NoMsg /\ toCaller[c].type = "invocation_response"
  /\ result' = [result EXCEPT ![c] = Response(toCaller[c].a)]
  /\ toCaller' = [toCaller EXCEPT ![c] = NoMsg]
  /\ undo' = [undo EXCEPT ![c] = <<>>]
  /\ UNCHANGED <<ta_vars, proxy_vars, ledger, cst, creq, connected, toProxy,
                 status, ninv>>

(* The call ends with its Status, after the last message: a failure       *)
(* unless a response came.                                                 *)
TakeStatus(c) ==
  /\ connected[c] /\ status[c] /= "none" /\ toCaller[c] = NoMsg
  /\ cst' = [cst EXCEPT ![c] = "idle"]
  /\ connected' = [connected EXCEPT ![c] = FALSE]
  /\ status' = [status EXCEPT ![c] = "none"]
  /\ result' = [result EXCEPT ![c] = IF @ = NoOutcome THEN Failed ELSE @]
  /\ undo' = [undo EXCEPT ![c] = <<>>]
  /\ UNCHANGED <<ta_vars, proxy_vars, ledger, creq, toProxy, toCaller, ninv>>

(* The caller cancels its stream: whatever is in flight is dropped.       *)
Cancel(c) ==
  /\ cst[c] = "waiting" /\ connected[c]
  /\ connected' = [connected EXCEPT ![c] = FALSE]
  /\ cst' = [cst EXCEPT ![c] = "idle"]
  /\ result' = [result EXCEPT ![c] = IF @ = NoOutcome THEN Failed ELSE @]
  /\ toProxy' = [toProxy EXCEPT ![c] = NoMsg]
  /\ toCaller' = [toCaller EXCEPT ![c] = NoMsg]
  /\ status' = [status EXCEPT ![c] = "none"]
  /\ undo' = [undo EXCEPT ![c] = <<>>]
  /\ UNCHANGED <<ta_vars, proxy_vars, ledger, creq, ninv>>

-----------------------------------------------------------------------------

(* The InvocationImpl constructor ran initialize_session before serving.  *)
Init ==
  /\ sess = EmptySession /\ guest = NULL /\ runtime = FALSE
  /\ heap_set = TRUE /\ tee_session = "open"
  /\ reply = Reply("TEE_SUCCESS", 0, NoBuf) /\ blocks = 1
  /\ pc = [c \in Callers |-> "listen"]
  /\ preq = [c \in Callers |-> NoReq]
  /\ op = [c \in Callers |-> NoOp]
  /\ answer = [c \in Callers |-> <<>>]
  /\ ok = [c \in Callers |-> TRUE]
  /\ bufok = [c \in Callers |-> FALSE]
  /\ outbuf = TRUE
  /\ ledger \in [Keys -> StoredValues]
  /\ cst = [c \in Callers |-> "idle"]
  /\ creq = [c \in Callers |-> NoReq]
  /\ result = [c \in Callers |-> NoOutcome]
  /\ connected = [c \in Callers |-> FALSE]
  /\ toProxy = [c \in Callers |-> NoMsg]
  /\ toCaller = [c \in Callers |-> NoMsg]
  /\ status = [c \in Callers |-> "none"]
  /\ ninv = [c \in Callers |-> 0]
  /\ undo = [c \in Callers |-> <<>>]

(* Every caller has made its invocations and every thread is idle.        *)
Finished ==
  /\ \A c \in Callers : ninv[c] = MaxInvocations /\ cst[c] = "idle"
                        /\ pc[c] = "listen"
  /\ UNCHANGED vars

Thread(c) ==
  \/ ReadRequest(c) \/ LoadAot(c) \/ RunWasmCall(c) \/ Forward(c) \/ ReadAnswer(c)
  \/ ResumeCall(c) \/ CloseCall(c) \/ OpenCall(c) \/ HeapCall(c)
  \/ ReturnStatus(c)

Caller(c) ==
  \/ \E r \in Requests : Invoke(c, r)
  \/ ServeGet(c) \/ ServePut(c) \/ TakeResponse(c) \/ TakeStatus(c)
  \/ Cancel(c)

(* The TA instance dies under the relay, whatever the threads are doing. *)
TAFault == TAPanic /\ UNCHANGED <<proxy_vars, caller_vars>>

Next == (\E c \in Callers : Thread(c) \/ Caller(c)) \/ TAFault \/ Finished

Spec == Init /\ [][Next]_vars

=============================================================================
