----------------------------- MODULE MCCString -----------------------------
(***************************************************************************)
(* Checks the decimal helpers of the chaincode against reference           *)
(* definitions over every string of at most MaxStrLen characters drawn    *)
(* from TestChars and every unsigned long of width ULongBits.             *)
(***************************************************************************)
EXTENDS CString, FiniteSets

CONSTANTS TestChars, MaxStrLen, OutCap

VARIABLES input, num

vars == <<input, num>>

Inputs == BoundedSeq(TestChars, MaxStrLen)

Init == input \in Inputs /\ num \in 0..(ULongMod - 1)

(* Init already holds every pair; a step moves to the next number.        *)
Next == num' = (num + 1) % ULongMod /\ UNCHANGED input

Spec == Init /\ [][Next]_vars

(* Reference value of a decimal string: sum of digit * 10^position over    *)
(* the digit prefix, reduced once modulo 2^ULongBits.                      *)
RefValue(s) ==
  LET p == DigitPrefix(s)
  IN  FoldFunction(+, 0, [i \in DOMAIN p |-> DigitVal[p[i]] * 10^(Len(p) - i)])
        % ULongMod

(* s_atoul (coffee_chaincode_wasm.c) reads the leading digits of a value   *)
(* as a decimal number, wrapping at the width of unsigned long, and stops  *)
(* at the first non-digit: it equals the positional value modulo 2^w.      *)
AtoulMatchesReference == s_atoul(input) = RefValue(input)

(* s_ultoa writes the canonical decimal form of every unsigned long: only  *)
(* digits, no leading zero, and s_atoul reads back the same number, so    *)
(* the sum cc_do_add_resume stores is the one it computed.                *)
UltoaRoundTrip ==
  LET out == s_ultoa(num, OutCap)
  IN  /\ \A i \in DOMAIN out : out[i] \in Digits
      /\ (Len(out) > 1 => out[1] /= "0")
      /\ s_atoul(out) = num
=============================================================================
