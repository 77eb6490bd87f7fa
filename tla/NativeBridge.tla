---------------------------- MODULE NativeBridge ----------------------------
(***************************************************************************)
(* The TA session context (ta/include/session.h) and the native functions  *)
(* the chaincode imports from module "env" (ta/chaincode_native_functions.c)*)
(* as operators on it.                                                     *)
(*                                                                         *)
(* Each native function runs synchronously inside one guest call, so it is *)
(* an operator from the session (and its arguments) to the new session     *)
(* and its return value, and the guest step that calls it composes them.   *)
(* The guest buffers the chaincode passes are static arrays of its linear *)
(* memory, so wasm_runtime_validate_app_addr succeeds on every one of      *)
(* them; the failing-validation early returns are therefore not reached    *)
(* and are left out (see README).                                          *)
(***************************************************************************)
EXTENDS CString

CONSTANTS
  ARGS_NUMBER,    \* slots of struct arguments; slot 0 is the function
  KEY_SIZE,       \* capacities of chaincode_tee_ree_communication.h,
  VAL_SIZE,       \* each including the terminating NUL
  ARG_SIZE,
  RESPONSE_SIZE

ASSUME ARGS_NUMBER >= 3 /\ KEY_SIZE >= 2 /\ ARG_SIZE >= 2
ASSUME VAL_SIZE >= 2 /\ RESPONSE_SIZE >= 2

(* pending_type values, and the struct chaincode_session_ctx fields the   *)
(* trampoline uses.  `out` names the guest buffer whose app offset is      *)
(* kept in wasm_out_offset ("none" for offset 0).                          *)
INVOCATION_RESPONSE == 0
GET_STATE_REQUEST == 1
PUT_STATE_REQUEST == 2

(* TEE_MemFill(g_chaincode_sess, 0, ...) of TA_OpenSessionEntryPoint.     *)
EmptySession ==
  [args         |-> [i \in 1..ARGS_NUMBER |-> <<>>],
   pending_type |-> 0,
   key          |-> <<>>,
   value        |-> <<>>,
   out          |-> "none",
   out_len      |-> 0,
   response     |-> <<>>,
   has_response |-> FALSE]

(* arguments[ARGS_NUMBER] is one past the array.  In struct              *)
(* chaincode_session_ctx the int pending_type follows it, so on the       *)
(* little-endian target the read yields its bytes as a C string: empty   *)
(* when no request is pending, else the one control character 0x01/0x02. *)
PastArgs(s) ==
  IF s.pending_type = 0 THEN <<>>
  ELSE <<IF s.pending_type = GET_STATE_REQUEST THEN "SOH" ELSE "STX">>

(* arguments[i] of the session is args[i + 1].                            *)
Arg(s, i) == IF i < ARGS_NUMBER THEN s.args[i + 1] ELSE PastArgs(s)

(* cc_get_function: arguments[0], truncated to out_len - 1 characters.    *)
cc_get_function(s, out_len) == CopyTrunc(Arg(s, 0), out_len)

(* cc_get_arg: arguments[idx + 1] for 0 <= idx < ARGS_NUMBER, else "";   *)
(* the last index reads past the array.                                    *)
cc_get_arg(s, idx, out_len) ==
  IF idx >= 0 /\ idx < ARGS_NUMBER THEN CopyTrunc(Arg(s, idx + 1), out_len)
  ELSE <<>>

(* Fault model: the key is not copied into the session.                   *)
cc_get_state_keyless(s, key, out, out_len) ==
  [sess |-> [s EXCEPT !.pending_type = GET_STATE_REQUEST,
                      !.out = out,
                      !.out_len = out_len],
   ret  |-> safe_strlen(key, KEY_SIZE - 1)]

(* cc_get_state: records the key and the guest out buffer and marks a     *)
(* GET_STATE_REQUEST pending; the value arrives on COMMAND_RESUME_WASM.   *)
(* Returns the copied key length klen (0 for an empty key).                *)
cc_get_state(s, key, out, out_len) ==
  [sess |-> [s EXCEPT !.key = CopyTrunc(key, KEY_SIZE),
                      !.pending_type = GET_STATE_REQUEST,
                      !.out = out,
                      !.out_len = out_len],
   ret  |-> safe_strlen(key, KEY_SIZE - 1)]

(* cc_put_state: records key and value, marks a PUT_STATE_REQUEST pending *)
(* and clears the out buffer; always returns -1.                           *)
cc_put_state(s, key, val) ==
  [s EXCEPT !.key = CopyTrunc(key, KEY_SIZE),
            !.value = CopyTrunc(val, VAL_SIZE),
            !.pending_type = PUT_STATE_REQUEST,
            !.out = "none",
            !.out_len = 0]

(* cc_return_response: the final response, at most RESPONSE_SIZE - 1      *)
(* characters, and has_response = 1.  Nothing else is touched: a pending  *)
(* request set earlier in the same session stays set.                      *)
cc_return_response(s, msg) ==
  [s EXCEPT !.response = CopyTrunc(msg, RESPONSE_SIZE),
            !.has_response = TRUE]

=============================================================================
