------------------------------- MODULE Numbers ------------------------------
(***************************************************************************)
(* Sums, powers of two, and numbers in their digits: what lengths, shifts   *)
(* and masks come to.                                                       *)
(***************************************************************************)
EXTENDS Integers, Sequences

\* the first n of lens added up
SumTo(lens, n) ==
  LET total[i \in 0..n] == IF i = 0 THEN 0 ELSE total[i - 1] + lens[i]
  IN  total[n]

Pow2[n \in Nat] == IF n = 0 THEN 1 ELSE 2 * Pow2[n - 1]

\* the number with these digits of w bits, the lowest first
Number(digits, w) == SumTo([i \in DOMAIN digits |-> digits[i] * Pow2[w * (i - 1)]], Len(digits))
=============================================================================
