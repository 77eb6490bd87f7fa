------------------------------ MODULE WasmTA ------------------------------
(***************************************************************************)
(* The trusted application (wrapper_ta/ta/main.c): its session entry      *)
(* points and the commands COMMAND_CONFIGURE_HEAP, COMMAND_RUN_WASM and    *)
(* COMMAND_RESUME_WASM, driving the chaincode one step_resume at a time.   *)
(*                                                                         *)
(* OP-TEE runs one command of a TA instance at a time, so every command is *)
(* one atomic action.  Its output parameters (params[1].value.a and the   *)
(* record in params[2]) are the variable `reply`.  The WAMR runtime and    *)
(* the guest module instance are abstracted to `runtime` (sc->runtime is  *)
(* set) and `guest` (the module instance's globals, NULL when there is no *)
(* module instance).                                                       *)
(***************************************************************************)
EXTENDS Chaincode

CONSTANTS
  NULL,         \* a model value: no session context, no module instance
  KeepAlive,    \* TRUE if the TA instance outlives its last session
  TaHeapBlocks, \* blocks the TA heap has room for (TEE_Malloc)
  TaMayPanic    \* TRUE if the TEE may kill the TA instance at any time

ASSUME KeepAlive \in BOOLEAN /\ TaHeapBlocks \in Nat /\ TaMayPanic \in BOOLEAN

VARIABLES
  sess,         \* g_chaincode_sess: NULL or the session context record
  guest,        \* globals of the chaincode module instance, or NULL
  runtime,      \* sc->runtime != NULL
  heap_set,     \* a heap size was configured (static heap_size > 0)
  tee_session,  \* the client's session with this TA: closed/open/dead
  reply,        \* result code, tag and record of the last command
  blocks        \* TEE_Malloc blocks the instance holds and never freed

ta_vars == <<sess, guest, runtime, heap_set, tee_session, reply, blocks>>

Results == {"TEE_SUCCESS", "TEE_ERROR_GENERIC", "TEE_ERROR_OUT_OF_MEMORY",
            "TEE_ERROR_TARGET_DEAD", "TEEC_ERROR_BAD_STATE"}

(* A struct key_value / invocation_response in the shared buffer.         *)
Buf(key, value, response) == [key |-> key, value |-> value, response |-> response]
NoBuf == Buf(<<>>, <<>>, <<>>)
Reply(res, tag, buf) == [res |-> res, tag |-> tag, buf |-> buf]

TAInit ==
  /\ sess = NULL
  /\ guest = NULL
  /\ runtime = FALSE
  /\ heap_set = FALSE
  /\ tee_session = "closed"
  /\ reply = Reply("TEE_SUCCESS", 0, NoBuf)
  /\ blocks = 0

(* The TA instance is gone: every global is back to its load-time value   *)
(* and its heap, with every block it held, is released.                   *)
Destroyed ==
  /\ sess' = NULL /\ guest' = NULL /\ runtime' = FALSE /\ heap_set' = FALSE
  /\ blocks' = 0

(* The outcomes of one TEE_Malloc when `used` blocks are held: NULL when   *)
(* the heap is full, a block or NULL otherwise (the request may not fit). *)
MallocResults(used) == IF used < TaHeapBlocks THEN BOOLEAN ELSE {FALSE}

B2N(b) == IF b THEN 1 ELSE 0

(* process_hostcall_flow: call_step("step_resume"), then report the       *)
(* pending request, or the final response.  call_step fails without        *)
(* running the guest when wasm_runtime_create_exec_env fails.             *)
FinalResponse(s) ==
  CASE s.has_response /\ safe_strlen(s.response, RESPONSE_SIZE - 1) > 0 ->
         s.response
    [] s.has_response -> Lit("EMPTY_RESPONSE")
    [] OTHER -> Lit("NO_RESPONSE")

HostcallReply(s) ==
  CASE s.pending_type = GET_STATE_REQUEST ->
         Reply("TEE_SUCCESS", GET_STATE_REQUEST,
               Buf(CopyTrunc(s.key, KEY_SIZE), <<>>, <<>>))
    [] s.pending_type = PUT_STATE_REQUEST ->
         Reply("TEE_SUCCESS", PUT_STATE_REQUEST,
               Buf(CopyTrunc(s.key, KEY_SIZE), CopyTrunc(s.value, VAL_SIZE), <<>>))
    [] OTHER ->
         Reply("TEE_SUCCESS", INVOCATION_RESPONSE, Buf(<<>>, <<>>, FinalResponse(s)))

process_hostcall_flow(g, s) ==
  \/ /\ guest' = g /\ sess' = s
     /\ reply' = Reply("TEE_SUCCESS", INVOCATION_RESPONSE,
                       Buf(<<>>, <<>>, Lit("RUNTIME_ERROR")))
  \/ LET r == StepResume(g, s)
     IN  /\ guest' = r.g /\ sess' = r.s
         /\ reply' = HostcallReply(r.s)

(* Fault model: the TA instance panics outside any command the model     *)
(* runs step by step (a TEE_Panic inside WAMR or the TEE OS killing the    *)
(* TA).  The instance is unloaded and the session is dead: every later     *)
(* command on it gets TEE_ERROR_TARGET_DEAD.                               *)
TAPanic ==
  /\ TaMayPanic
  /\ tee_session = "open"
  /\ Destroyed /\ tee_session' = "dead"
  /\ UNCHANGED reply

(* TEEC_InvokeCommand on a session that is closed or whose TA panicked.   *)
InvokeFails ==
  /\ tee_session /= "open"
  /\ reply' = Reply(IF tee_session = "dead" THEN "TEE_ERROR_TARGET_DEAD"
                    ELSE "TEEC_ERROR_BAD_STATE", 0, NoBuf)
  /\ UNCHANGED <<sess, guest, runtime, heap_set, tee_session, blocks>>

(* TA_OpenSessionEntryPoint: allocates the zeroed context only if none.   *)
(* The context is a few hundred bytes; its allocation is taken to succeed.*)
(* TEEC_OpenSession overwrites the handle, so a dead session (its TA      *)
(* instance already unloaded) is replaced as a closed one is.             *)
OpenSession ==
  /\ tee_session /= "open"
  /\ tee_session' = "open"
  /\ sess' = IF sess = NULL THEN EmptySession ELSE sess
  /\ blocks' = blocks + B2N(sess = NULL)
  /\ reply' = Reply("TEE_SUCCESS", 0, NoBuf)
  /\ UNCHANGED <<guest, runtime, heap_set>>

(* TEEC_CloseSession: TA_CloseSessionEntryPoint does nothing; without     *)
(* keep-alive the instance is unloaded with its last session.             *)
CloseSession ==
  /\ tee_session /= "closed"
  /\ tee_session' = "closed"
  /\ IF KeepAlive /\ tee_session = "open"
     THEN UNCHANGED <<sess, guest, runtime, heap_set, blocks>>
     ELSE Destroyed
  /\ UNCHANGED reply

(* COMMAND_CONFIGURE_HEAP -> TA_SetHeapSize.                               *)
ConfigureHeap(size) ==
  \/ InvokeFails
  \/ /\ tee_session = "open"
     /\ heap_set' = (size > 0)
     /\ reply' = Reply("TEE_SUCCESS", 0, NoBuf)
     /\ UNCHANGED <<sess, guest, runtime, tee_session, blocks>>

(* TA_InitializeWamrRuntime (wasm.c) succeeds when the pool has a size   *)
(* (wasm_runtime_full_init) and the bytecode loads and instantiates.      *)
InitializeWamrRuntime(loadable) == heap_set /\ loadable

(* COMMAND_RUN_WASM: install the arguments, allocate and initialise a new *)
(* WAMR runtime and module instance, call step_init, then one step.  The  *)
(* arguments stay installed on every early return.  heap_buf_owned and   *)
(* trusted_wasm_owned are both requested, then checked, and neither they  *)
(* nor the blocks of an earlier RUN_WASM are ever freed.  A failed runtime *)
(* initialisation zeroes the static runtime context, so the old module    *)
(* instance is lost while sc->runtime still points at it.                 *)
RunWasm(args, loadable) ==
  \/ InvokeFails
  \/ /\ tee_session = "open"
     /\ sess /= NULL
     /\ \E hb \in MallocResults(blocks) :
          \E tw \in MallocResults(blocks + B2N(hb)) :
            blocks' = blocks + B2N(hb) + B2N(tw)
     /\ LET s1 == [sess EXCEPT !.args = args]
        IN  \/ /\ blocks' < blocks + 2                \* TEE_Malloc failed
               /\ sess' = s1
               /\ reply' = Reply("TEE_ERROR_OUT_OF_MEMORY", 0, NoBuf)
               /\ UNCHANGED <<guest, runtime>>
            \/ /\ blocks' = blocks + 2
               /\ ~InitializeWamrRuntime(loadable)
               /\ sess' = s1 /\ guest' = NULL
               /\ reply' = Reply("TEE_ERROR_GENERIC", 0, NoBuf)
               /\ UNCHANGED runtime
            \/ /\ blocks' = blocks + 2
               /\ InitializeWamrRuntime(loadable)
               /\ runtime' = TRUE
               /\ \/ /\ sess' = s1 /\ guest' = GuestInit  \* step_init failed
                     /\ reply' = Reply("TEE_ERROR_GENERIC", INVOCATION_RESPONSE,
                                       Buf(<<>>, <<>>, Lit("STEP_INIT_FAILED")))
                  \/ process_hostcall_flow(GuestInit, s1)
     /\ UNCHANGED <<heap_set, tee_session>>

(* Copy of a GET_STATE answer into the guest's out buffer: zero-filled,   *)
(* then at most wasm_out_len - 1 characters, and only when there is at    *)
(* least one; afterwards no request is pending and the out buffer is      *)
(* forgotten.  A PUT_STATE answer only clears pending_type.                *)
DeliverAnswer(g, s, value) ==
  LET len == safe_strlen(value, s.out_len - 1)
  IN  CASE s.pending_type = GET_STATE_REQUEST ->
             [g |-> IF s.out = "g_cur_val" /\ s.out_len > 0 /\ len > 0
                    THEN [g EXCEPT !.cur_val = SubSeq(value, 1, len)] ELSE g,
              s |-> [s EXCEPT !.pending_type = 0, !.out = "none", !.out_len = 0]]
        [] s.pending_type = PUT_STATE_REQUEST ->
             [g |-> g, s |-> [s EXCEPT !.pending_type = 0]]
        [] OTHER -> [g |-> g, s |-> s]

(* COMMAND_RESUME_WASM with `value` in the key_value record of params[2]. *)
(* With sc->runtime set but no module instance the TA dereferences a NULL *)
(* module instance and panics: the instance is unloaded.                  *)
ResumeWasm(value) ==
  \/ InvokeFails
  \/ /\ tee_session = "open"
     /\ \/ /\ (sess = NULL \/ ~runtime)
           /\ reply' = Reply("TEE_ERROR_GENERIC", 0, NoBuf)
           /\ UNCHANGED <<sess, guest, runtime, heap_set, tee_session, blocks>>
        \/ /\ sess /= NULL /\ runtime /\ guest = NULL
           /\ Destroyed /\ tee_session' = "dead"
           /\ reply' = Reply("TEE_ERROR_TARGET_DEAD", 0, NoBuf)
        \/ /\ sess /= NULL /\ runtime /\ guest /= NULL
           /\ LET d == DeliverAnswer(guest, sess, value)
              IN  process_hostcall_flow(d.g, d.s)
           /\ UNCHANGED <<runtime, heap_set, tee_session, blocks>>

=============================================================================
