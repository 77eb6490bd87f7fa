--------------------------- MODULE MCNativeBridge ---------------------------
(***************************************************************************)
(* Checks the argument accessor of the native bridge against its contract *)
(* (spec.md section 4.3) for every index around the valid range, every    *)
(* pending_type a guest call can see, and empty and non-empty arguments.  *)
(***************************************************************************)
EXTENDS NativeBridge

CONSTANTS TestArgs

(* Slot contents the relay can install: empty, or cut to ARG_SIZE - 1.    *)
MCTestArgs == {<<>>, <<"a">>}

VARIABLES s, idx

vars == <<s, idx>>

(* A session whose slots hold the function and arguments from TestArgs,   *)
(* at any point of a guest call: no request, or one already recorded by    *)
(* cc_get_state or cc_put_state earlier in the same step.                  *)
Sessions ==
  {[EmptySession EXCEPT !.args = a, !.pending_type = p] :
     a \in [1..ARGS_NUMBER -> TestArgs],
     p \in {0, GET_STATE_REQUEST, PUT_STATE_REQUEST}}

Init == s \in Sessions /\ idx = -1

(* The guest asks for the next index.                                      *)
Next == idx < ARGS_NUMBER /\ idx' = idx + 1 /\ UNCHANGED s

Spec == Init /\ [][Next]_vars

(* get-argument(index) copies positional argument `index` (0-based; slot  *)
(* 0 of struct arguments is the function, so there are ARGS_NUMBER - 1)   *)
(* truncated to the guest buffer, and gives "" for an index out of range: *)
(* cc_get_arg must never read outside the arguments array.                *)
GetArgMatchesSpec ==
  cc_get_arg(s, idx, ARG_SIZE) =
    IF idx \in 0..(ARGS_NUMBER - 2) THEN CopyTrunc(s.args[idx + 2], ARG_SIZE)
    ELSE <<>>
=============================================================================
