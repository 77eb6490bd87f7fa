----------------------------- MODULE MCWasmTA -----------------------------
(***************************************************************************)
(* The TA on its own, driven by a host that may issue any command in any  *)
(* order: the TEE client API lets every holder of the session do so, and  *)
(* the relay's unlocked threads (Proxy) do.  The host over-approximates   *)
(* the relay: it opens and closes the session, configures the heap, runs  *)
(* a request with a loadable or a broken bytecode, and resumes with an    *)
(* answer, whenever it likes.                                              *)
(***************************************************************************)
EXTENDS WasmTA

CONSTANTS
  HostArgs,    \* struct arguments the host installs with COMMAND_RUN_WASM
  HostValues   \* values the host answers a RESUME_WASM with

(* The contract's query and add on key "k".                               *)
MCHostArgs ==
  {<<Lit("query"), <<"k">>, <<>>>>, <<Lit("add"), <<"k">>, <<"5">>>>}
MCHostValues == {<<>>, <<"1">>}

VARIABLE hop   \* history: the kind of the host's last command

Host ==
  \/ /\ \/ OpenSession \/ CloseSession \/ \E size \in {0, 1} : ConfigureHeap(size)
     /\ hop' = "session"
  \/ /\ \E a \in HostArgs, loadable \in BOOLEAN : RunWasm(a, loadable)
     /\ hop' = "start"
  \/ /\ \E v \in HostValues : ResumeWasm(v)
     /\ hop' = "resume"

Spec == TAInit /\ hop = "none" /\ [][Host]_<<ta_vars, hop>>

(* The phase of spec.md section 4.4 the TA's state stands for: no session *)
(* or no module instance is Idle; otherwise the pending request kind of    *)
(* the session context, or Done when none is pending.                     *)
TAPhase ==
  IF tee_session /= "open" \/ sess = NULL \/ guest = NULL THEN "Idle"
  ELSE CASE sess.pending_type = GET_STATE_REQUEST -> "SuspendedGet"
         [] sess.pending_type = PUT_STATE_REQUEST -> "SuspendedPut"
         [] OTHER -> "Done"

Disp == INSTANCE Dispatcher WITH phase <- TAPhase, op <- hop

(* COMMAND_RESUME_WASM moves the TA only out of a suspension (spec.md 4.4: *)
(* resume is "only valid from a Suspended state"); opening, closing and  *)
(* configuring the session never run the contract: the TA behaves as the *)
(* Dispatcher whatever order the host issues its commands in.             *)
DispatcherRefinement == Disp!Spec

=============================================================================
