------------------------------ MODULE Ledger ------------------------------
(***************************************************************************)
(* What an invocation promises its caller (spec.md sections 4.2, 4.5, 7):  *)
(* it reads and writes the caller's key/value state as one atomic         *)
(* operation and answers with the contract's response, or it fails.       *)
(*                                                                         *)
(* The contract operations are create, add and query over the value of    *)
(* the key in argument 0; every other function answers "ERROR".  Every    *)
(* copy truncates to its field capacity.  An invocation that fails (error *)
(* status, lost connection, or the synthetic "RUNTIME_ERROR" response)    *)
(* may or may not have applied its write: the write is forwarded before   *)
(* the response is produced.                                               *)
(***************************************************************************)
EXTENDS CString

CONSTANTS
  Callers,        \* the callers, one duplex stream each
  Keys,           \* keys of the caller's state
  Requests,       \* InvocationRequest records [aot, fn, args] a caller may send
  StoredValues,   \* the values the caller's state may hold initially
  NoReq,          \* a model value: no invocation in progress
  KEY_SIZE, VAL_SIZE, ARG_SIZE, RESPONSE_SIZE

VARIABLES
  ledger,    \* the caller's state: Keys -> value
  areq,      \* the invocation in progress per caller, or NoReq
  outcome    \* its outcome: [kind |-> "none" | "response" | "failed", resp]

Lit(w) == <<w>>

NoOutcome == [kind |-> "none", resp |-> <<>>]
Failed == [kind |-> "failed", resp |-> <<>>]
Response(r) == [kind |-> "response", resp |-> r]

ErrorResponses == {Lit("RUNTIME_ERROR")}

(* Argument i of a request as the contract sees it (i = 0 is the key).     *)
ReqArg(r, i) ==
  IF i < Len(r.args) THEN CopyTrunc(r.args[i + 1], ARG_SIZE) ELSE <<>>
ReqKey(r) == CopyTrunc(ReqArg(r, 0), KEY_SIZE)
Fn(r) == CopyTrunc(r.fn, ARG_SIZE)

(* The stored value as the contract reads it: truncated to its buffer.    *)
Seen(l, r) == CopyTrunc(l[ReqKey(r)], VAL_SIZE)

Expected(l, r) ==
  LET v == Seen(l, r) IN
  CASE Fn(r) = Lit("create") -> IF v /= <<>> THEN Lit("EXIST") ELSE Lit("OK")
    [] Fn(r) = Lit("add")    -> IF v = <<>> THEN Lit("EMPTY") ELSE Lit("OK")
    [] Fn(r) = Lit("query")  -> IF v = <<>> THEN Lit("NOTFOUND")
                                ELSE CopyTrunc(v, RESPONSE_SIZE)
    [] OTHER                 -> Lit("ERROR")

Effect(l, r) ==
  LET v == Seen(l, r)
      k == ReqKey(r)
  IN  CASE Fn(r) = Lit("create") /\ v = <<>> ->
             [l EXCEPT ![k] = CopyTrunc(ReqArg(r, 1), VAL_SIZE)]
        [] Fn(r) = Lit("add") /\ v /= <<>> ->
             [l EXCEPT ![k] = s_ultoa((s_atoul(v) + s_atoul(ReqArg(r, 1)))
                                        % ULongMod, VAL_SIZE)]
        [] OTHER -> l

Active(c) == areq[c] /= NoReq /\ outcome[c] = NoOutcome

Request(c, r) ==
  /\ areq[c] = NoReq
  /\ areq' = [areq EXCEPT ![c] = r]
  /\ outcome' = [outcome EXCEPT ![c] = NoOutcome]
  /\ UNCHANGED ledger

(* The invocation takes effect and answers, as one step.                  *)
Respond(c) ==
  /\ Active(c) /\ areq[c].aot = "good"
  /\ outcome' = [outcome EXCEPT ![c] = Response(Expected(ledger, areq[c]))]
  /\ ledger' = Effect(ledger, areq[c])
  /\ UNCHANGED areq

ErrorRespond(c) ==
  /\ Active(c) /\ areq[c].aot = "good"
  /\ \E e \in ErrorResponses : outcome' = [outcome EXCEPT ![c] = Response(e)]
  /\ ledger' \in {ledger, Effect(ledger, areq[c])}
  /\ UNCHANGED areq

Fail(c) ==
  /\ Active(c)
  /\ outcome' = [outcome EXCEPT ![c] = Failed]
  /\ areq' = [areq EXCEPT ![c] = NoReq]
  /\ ledger' \in {ledger, Effect(ledger, areq[c])}

Finish(c) ==
  /\ areq[c] /= NoReq /\ outcome[c].kind = "response"
  /\ areq' = [areq EXCEPT ![c] = NoReq]
  /\ UNCHANGED <<ledger, outcome>>

Init ==
  /\ ledger \in [Keys -> StoredValues]
  /\ areq = [c \in Callers |-> NoReq]
  /\ outcome = [c \in Callers |-> NoOutcome]

Next ==
  \E c \in Callers :
    \/ \E r \in Requests : Request(c, r)
    \/ Respond(c) \/ ErrorRespond(c) \/ Fail(c) \/ Finish(c)

Spec == Init /\ [][Next]_<<ledger, areq, outcome>>

=============================================================================
