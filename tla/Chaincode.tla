----------------------------- MODULE Chaincode -----------------------------
(***************************************************************************)
(* The WASM chaincode (wrapper_ta/chaincode/coffee_chaincode_wasm.c): the  *)
(* explicit resumable state machine behind its step_resume entry point.    *)
(*                                                                         *)
(* The guest's globals form a record g; a call of step_resume is the       *)
(* operator StepResume(g, s) giving the new globals and the new TA session *)
(* after every native call the step made.  Literal messages ("OK",         *)
(* "EXIST", "create", ...) are one-symbol strings <<"OK">>: only their     *)
(* identity matters, never their characters.                               *)
(***************************************************************************)
EXTENDS NativeBridge

(* #define KEY_MAX / ARG_MAX / VAL_MAX: the guest's own buffer sizes,      *)
(* equal to the TA's KEY_SIZE / ARG_SIZE / VAL_SIZE.                        *)
KEY_MAX == KEY_SIZE
ARG_MAX == ARG_SIZE
VAL_MAX == VAL_SIZE

Lit(w) == <<w>>

(* enum Op and the fsm_state legend: 0 idle, 11/12 create after get/put,  *)
(* 21/22 add after get/put, 31 query after get.                            *)
Ops == {"OP_NONE", "OP_CREATE", "OP_ADD", "OP_QUERY"}
FsmStates == {0, 11, 12, 21, 22, 31}

(* The static globals of a freshly instantiated module.                   *)
GuestInit ==
  [fsm_state |-> 0, current_op |-> "OP_NONE", function |-> <<>>,
   person |-> <<>>, arg1 |-> <<>>, cur_val |-> <<>>]

Result(g, s) == [g |-> g, s |-> s]

(* Finishing an operation: cc_return_response, fsm_state = 0, OP_NONE.    *)
Finish(g, s, msg) ==
  Result([g EXCEPT !.fsm_state = 0, !.current_op = "OP_NONE"],
         cc_return_response(s, msg))

cc_do_create_init(g, s) ==
  LET person == cc_get_arg(s, 0, KEY_MAX)
      arg1   == cc_get_arg(s, 1, ARG_MAX)
      r      == cc_get_state(s, person, "g_cur_val", VAL_MAX)
  IN  Result([g EXCEPT !.person = person, !.arg1 = arg1, !.cur_val = <<>>,
                       !.fsm_state = IF r.ret > 0 THEN 11 ELSE @],
             r.sess)

(* Fault models of cc_do_create_resume: the EXIST test left out, and the  *)
(* EXIST branch without its `return`, falling through to the write.       *)
cc_do_create_resume_unchecked(g, s) ==
  CASE g.fsm_state = 11 ->
         Result([g EXCEPT !.fsm_state = 12], cc_put_state(s, g.person, g.arg1))
    [] g.fsm_state = 12 -> Finish(g, s, Lit("OK"))
    [] OTHER -> Result(g, s)

cc_do_create_resume_fallthrough(g, s) ==
  CASE g.fsm_state = 11 /\ g.cur_val /= <<>> ->
         LET f == Finish(g, s, Lit("EXIST"))
         IN  Result([f.g EXCEPT !.fsm_state = 12], cc_put_state(f.s, g.person, g.arg1))
    [] g.fsm_state = 11 ->
         Result([g EXCEPT !.fsm_state = 12], cc_put_state(s, g.person, g.arg1))
    [] g.fsm_state = 12 -> Finish(g, s, Lit("OK"))
    [] OTHER -> Result(g, s)

cc_do_create_resume(g, s) ==
  CASE g.fsm_state = 11 /\ g.cur_val /= <<>> -> Finish(g, s, Lit("EXIST"))
    [] g.fsm_state = 11 ->
         Result([g EXCEPT !.fsm_state = 12], cc_put_state(s, g.person, g.arg1))
    [] g.fsm_state = 12 -> Finish(g, s, Lit("OK"))
    [] OTHER -> Result(g, s)

cc_do_add_init(g, s) ==
  LET person == cc_get_arg(s, 0, KEY_MAX)
      arg1   == cc_get_arg(s, 1, ARG_MAX)
  IN  Result([g EXCEPT !.person = person, !.arg1 = arg1, !.cur_val = <<>>,
                       !.fsm_state = 21],
             cc_get_state(s, person, "g_cur_val", VAL_MAX).sess)

(* The new value is s_ultoa of the unsigned long sum, which wraps.         *)
AddedValue(cur_val, arg1) ==
  s_ultoa((s_atoul(cur_val) + s_atoul(arg1)) % ULongMod, VAL_MAX)

cc_do_add_resume(g, s) ==
  CASE g.fsm_state = 21 /\ g.cur_val = <<>> -> Finish(g, s, Lit("EMPTY"))
    [] g.fsm_state = 21 ->
         Result([g EXCEPT !.fsm_state = 22],
                cc_put_state(s, g.person, AddedValue(g.cur_val, g.arg1)))
    [] g.fsm_state = 22 -> Finish(g, s, Lit("OK"))
    [] OTHER -> Result(g, s)

cc_do_query_init(g, s) ==
  LET person == cc_get_arg(s, 0, KEY_MAX)
  IN  Result([g EXCEPT !.person = person, !.cur_val = <<>>, !.fsm_state = 31],
             cc_get_state(s, person, "g_cur_val", VAL_MAX).sess)

(* Fault model: the query retries its read while the value is empty.     *)
cc_do_query_resume_retry(g, s) ==
  CASE g.fsm_state = 31 /\ g.cur_val = <<>> ->
         Result(g, cc_get_state(s, g.person, "g_cur_val", VAL_MAX).sess)
    [] g.fsm_state = 31 -> Finish(g, s, g.cur_val)
    [] OTHER -> Result(g, s)

cc_do_query_resume(g, s) ==
  CASE g.fsm_state = 31 /\ g.cur_val = <<>> -> Finish(g, s, Lit("NOTFOUND"))
    [] g.fsm_state = 31 -> Finish(g, s, g.cur_val)
    [] OTHER -> Result(g, s)

(* Dispatch on the function name when no operation is active.  The name  *)
(* is fetched again only while g_function is still empty, so once set it   *)
(* is kept after the operation finishes.                                   *)
Dispatch(g, s) ==
  LET fn == IF g.function = <<>> THEN cc_get_function(s, KEY_MAX)
            ELSE g.function
      g1 == [g EXCEPT !.function = fn]
  IN  CASE fn = Lit("create") ->
             cc_do_create_init([g1 EXCEPT !.current_op = "OP_CREATE"], s)
        [] fn = Lit("add") ->
             cc_do_add_init([g1 EXCEPT !.current_op = "OP_ADD"], s)
        [] fn = Lit("query") ->
             cc_do_query_init([g1 EXCEPT !.current_op = "OP_QUERY"], s)
        [] OTHER -> Result(g1, cc_return_response(s, Lit("ERROR")))

(* step_resume: dispatch, or resume the active operation.                 *)
StepResume(g, s) ==
  CASE g.current_op = "OP_NONE"   -> Dispatch(g, s)
    [] g.current_op = "OP_CREATE" -> cc_do_create_resume(g, s)
    [] g.current_op = "OP_ADD"    -> cc_do_add_resume(g, s)
    [] g.current_op = "OP_QUERY"  -> cc_do_query_resume(g, s)

=============================================================================
