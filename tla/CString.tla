------------------------------ MODULE CString ------------------------------
(***************************************************************************)
(* The fixed-capacity C strings of the trampoline and the chaincode's      *)
(* decimal helpers, as pure operators.                                     *)
(*                                                                         *)
(* A C string is modelled as the sequence of its characters before the     *)
(* terminating NUL, so a buffer of capacity `cap` holds at most cap - 1    *)
(* characters.  Characters are one-character TLA+ strings; the digits are  *)
(* "0".."9" and any other character stops a decimal parse.                 *)
(*                                                                         *)
(* `unsigned long` of the chaincode is ULongBits wide (32 on wasm32):      *)
(* s_atoul and the sum in cc_do_add_resume wrap modulo 2^ULongBits.       *)
(***************************************************************************)
EXTENDS Integers, Sequences, SequencesExt, Functions

CONSTANT ULongBits

ASSUME ULongBits \in Nat \ {0}

ULongMod == 2^ULongBits

DigitVal == [c \in {"0","1","2","3","4","5","6","7","8","9"} |->
               CASE c = "0" -> 0 [] c = "1" -> 1 [] c = "2" -> 2
                 [] c = "3" -> 3 [] c = "4" -> 4 [] c = "5" -> 5
                 [] c = "6" -> 6 [] c = "7" -> 7 [] c = "8" -> 8
                 [] c = "9" -> 9]

Digits == DOMAIN DigitVal

DigitChar(d) == CHOOSE c \in Digits : DigitVal[c] = d

MinOf(a, b) == IF a < b THEN a ELSE b

(* safe_strlen(s, max_len): the length of s, but at most max_len.          *)
safe_strlen(s, max_len) == MinOf(Len(s), max_len)

(* The copy every bridge function and the relay make into a buffer of     *)
(* capacity cap: at most cap - 1 characters, then a NUL.                   *)
CopyTrunc(s, cap) == SubSeq(s, 1, safe_strlen(s, cap - 1))

(* The characters s_atoul reads: the digits before the first non-digit.    *)
DigitPrefix(s) ==
  LET stop == SelectInSeq(s, LAMBDA c : c \notin Digits)
  IN  IF stop = 0 THEN s ELSE SubSeq(s, 1, stop - 1)

(* Fault model: a parse that skips non-digits instead of stopping.       *)
s_atoul_skipping(s) ==
  FoldLeft(LAMBDA v, c : (v * 10 + DigitVal[c]) % ULongMod, 0,
           SelectSeq(s, LAMBDA c : c \in Digits))

(* s_atoul: v = v*10 + digit over the digit prefix, in unsigned long.      *)
s_atoul(s) ==
  FoldLeft(LAMBDA v, c : (v * 10 + DigitVal[c]) % ULongMod, 0, DigitPrefix(s))

(* The decimal digits of v > 0, most significant first: the buf[] loop of  *)
(* s_ultoa followed by its reversing copy.                                 *)
RECURSIVE DecimalDigits(_)
DecimalDigits(v) ==
  IF v < 10 THEN <<DigitChar(v)>>
  ELSE DecimalDigits(v \div 10) \o <<DigitChar(v % 10)>>

(* Fault model: the digits copied out of buf[] without reversing them.    *)
s_ultoa_unreversed(v, out_len) ==
  IF v = 0 THEN CopyTrunc(<<"0">>, out_len)
  ELSE CopyTrunc(Reverse(DecimalDigits(v)), out_len)

(* s_ultoa(v, out, out_len): "0" for zero, else the decimal digits of v,   *)
(* of which at most out_len - 1 of the most significant are kept.          *)
s_ultoa(v, out_len) ==
  IF v = 0 THEN CopyTrunc(<<"0">>, out_len)
  ELSE CopyTrunc(DecimalDigits(v), out_len)

(* strncpy of the relay (fixed-proxy/main.cpp): a string from the caller   *)
(* is written into a field of capacity cap only when it is shorter than    *)
(* cap; a longer one leaves the zero-filled field empty.                   *)
CopyIfFits(s, cap) == IF Len(s) < cap THEN s ELSE <<>>

=============================================================================
