---------------------------- MODULE Equivalence -----------------------------
(***************************************************************************)
(* Judging a reconstruction by running it and by proving it                 *)
(* (reverify/behavior.py).  An expression is evaluated twice over: in       *)
(* Python's unbounded integers when behavior_equiv tests it against code,   *)
(* and in bit-vectors of Bits bits when prove_equiv proves it.              *)
(*                                                                          *)
(* An expression is [op |-> "x"], [op |-> "n", n |-> value], or an operator *)
(* with its operands a and b (a alone for ~ and neg): the parsed text.      *)
(***************************************************************************)
EXTENDS Integers, FiniteSets, Sequences, Numbers

CONSTANTS Bits,
          ShiftMax,      \* eval_expr's limit on a shift: 4096
          MaxInputs,     \* inputs behavior_equiv tries: 40
          Expr,          \* expressions, with all they are made of
          Depth(_)       \* how deep one is nested
ASSUME BitsAssumption == Bits \in Nat \ {0} /\ ShiftMax \in Nat /\ ShiftMax >= Bits
ASSUME InputsAssumption == MaxInputs \in Nat \ {0}

Leaf(e) == e.op \in {"x", "n"}
Unary(e) == e.op \in {"~", "neg"}
Binary(e) == e.op \in {"+", "-", "*", "//", "<<", ">>"}
ASSUME ExprAssumption ==
  \A e \in Expr : /\ Depth(e) \in Nat
                  /\ Leaf(e) \/ Unary(e) \/ Binary(e)
                  /\ e.op = "n" => e.n \in Nat
                  /\ ~ Leaf(e) => e.a \in Expr /\ Depth(e.a) < Depth(e)
                  /\ Binary(e) => e.b \in Expr /\ Depth(e.b) < Depth(e)

Modulus == Pow2[Bits]
NoValue == -1            \* the code did not return, or the expression raised

-----------------------------------------------------------------------------
\* _BINOPS and _UNARYOPS; // and >> round down
PyOp(op, a, b) ==
  CASE op = "+" -> a + b
    [] op = "-" -> a - b
    [] op = "*" -> a * b
    [] op = "//" -> IF b > 0 THEN a \div b ELSE (-a) \div (-b)
    [] op = "<<" -> a * Pow2[b]
    [] op = ">>" -> a \div Pow2[b]
    [] op = "~" -> -a - 1
    [] op = "neg" -> -a

\* eval_expr: the value, or nothing when it divides by zero.  A shift out of
\* bounds gives 0 before its left operand is looked at.
EvalNode(e, x, value) ==
  LET a == value[e.a]
      b == value[e.b]
  IN  IF e.op = "x" THEN <<x>>
      ELSE IF e.op = "n" THEN <<e.n>>
      ELSE IF Unary(e) THEN IF a = <<>> THEN <<>> ELSE <<PyOp(e.op, a[1], 0)>>
      ELSE IF b = <<>> \/ (e.op = "//" /\ b[1] = 0) THEN <<>>
      ELSE IF e.op \in {"<<", ">>"} /\ b[1] \notin 0..(ShiftMax - 1) THEN <<0>>
      ELSE IF a = <<>> THEN <<>> ELSE <<PyOp(e.op, a[1], b[1])>>

EvalExpr(e, x) == LET value[f \in Expr] == EvalNode(f, x, value) IN value[e]

\* eval_candidate: the value & mask
Candidate(e, x) == LET v == EvalExpr(e, x) IN IF v = <<>> THEN NoValue ELSE v[1] % Modulus

\* _expr_to_z3: wrapped at every step, shifts unsigned; no // in proofs
BitNode(e, x, bits) ==
  LET a == bits[e.a]
      b == bits[e.b]
  IN  IF e.op = "x" THEN x
      ELSE IF e.op = "n" THEN e.n % Modulus
      ELSE IF e.op = "<<" THEN IF b < Bits THEN (a * Pow2[b]) % Modulus ELSE 0
      ELSE IF e.op = ">>" THEN IF b < Bits THEN a \div Pow2[b] ELSE 0
      ELSE IF Unary(e) THEN PyOp(e.op, a, 0) % Modulus
      ELSE IF e.op = "//" THEN 0
      ELSE PyOp(e.op, a, b) % Modulus

BitVec(e, x) == LET bits[f \in Expr] == BitNode(f, x, bits) IN bits[e]

DividesNode(e, divides) == ~ Leaf(e) /\ \/ e.op = "//" \/ divides[e.a]
                                        \/ Binary(e) /\ divides[e.b]

Divides(e) == LET divides[f \in Expr] == DividesNode(f, divides) IN divides[e]

\* prove_expr_equiv, the solver being right
ProveVerdict(e, f) ==
  IF Divides(e) \/ Divides(f) THEN "inconclusive"
  ELSE IF \A x \in 0..(Modulus - 1) : BitVec(e, x) = BitVec(f, x) THEN "verified"
  ELSE "refuted"

\* Mutant: two that do not return agree.
BehaviorVerdictUnrun(outputs, candidates) ==
  LET tried == {i \in DOMAIN outputs : i <= MaxInputs}
  IN  IF tried = {} THEN "inconclusive"
      ELSE IF \E i \in tried : outputs[i] # candidates[i] THEN "refuted" ELSE "verified"

\* behavioral_equiv: outputs[i] and candidates[i] on the i-th input.  Where
\* the original does not return the input is skipped; where only the
\* candidate does not, it is refuted.
BehaviorVerdict(outputs, candidates) ==
  LET tried == {i \in DOMAIN outputs : i <= MaxInputs /\ outputs[i] # NoValue}
  IN  IF tried = {} THEN "inconclusive"
      ELSE IF \E i \in tried : outputs[i] # candidates[i] THEN "refuted" ELSE "verified"

\* functions_equiv_verify: both implementations are compiled and run, if the
\* user allows it; the inputs are skipped or refuted as above.
Runnable(setup) == setup.allowed /\ setup.builds
FunctionsVerdict(setup, outputs, candidates) ==
  IF Runnable(setup) THEN BehaviorVerdict(outputs, candidates) ELSE "inconclusive"

\* exebench_verify: the outputs are recorded ones, and all of them count.
ExebenchVerdict(setup, recorded, candidates) ==
  IF recorded = <<>> \/ ~Runnable(setup) THEN "inconclusive"
  ELSE IF \E i \in DOMAIN recorded : recorded[i] # candidates[i] THEN "refuted" ELSE "verified"

-----------------------------------------------------------------------------
\* No shift of e, at x, has an operand that the bit-vectors wrapped.
TameNode(e, x, tame) ==
  LET in(f) == LET v == EvalExpr(f, x) IN v # <<>> /\ v[1] \in 0..(Modulus - 1)
  IN  \/ Leaf(e)
      \/ Unary(e) /\ tame[e.a]
      \/ /\ Binary(e) /\ tame[e.a] /\ tame[e.b]
         /\ e.op = ">>" => in(e.a) /\ in(e.b)
         /\ e.op = "<<" => in(e.b)

Tame(e, x) == LET tame[f \in Expr] == TameNode(f, x, tame) IN tame[e]

(***************************************************************************)
(* Testing and proving do not contradict each other: of two expressions     *)
(* proved equal, one is not refuted as a reconstruction of code that        *)
(* computes the other, and of two that a test tells apart the proof finds   *)
(* it out - as long as no right shift and no shift count is applied to a    *)
(* value that left the word.  There, Python's wider and signed arithmetic   *)
(* and the proof's logical shift give different values, and a true          *)
(* reconstruction such as (x + 1) >> 1 can be refuted by a test.  A         *)
(* division is never proved.                                                *)
(***************************************************************************)
ProofsSurviveTesting(e, f) ==
  LET code == [i \in 1..Modulus |-> BitVec(e, i - 1)]
      verdict == BehaviorVerdict(code, [i \in 1..Modulus |-> Candidate(f, i - 1)])
      tame == \A i \in 1..Modulus : Tame(f, i - 1)
  IN  /\ Divides(f) => ProveVerdict(e, f) = "inconclusive"
      /\ ~ Divides(e) /\ ~ Divides(f) /\ tame =>
           /\ ProveVerdict(e, f) = "verified" => verdict = "verified"
           /\ MaxInputs >= Modulus => (verdict = "verified" => ProveVerdict(e, f) = "verified")

(***************************************************************************)
(* A verified test ran the code at least once and saw no difference; a      *)
(* refutation has a witness: an input on which the code returns and the     *)
(* candidate returns something else or, against "functions that fault       *)
(* return INCONCLUSIVE", nothing.  Nothing is judged that was not allowed   *)
(* to run, and recording the outputs of a reference that always returns     *)
(* makes no difference, within the inputs tried.                            *)
(***************************************************************************)
TestsHaveWitnesses(setup, outputs, candidates) ==
  LET verdict == BehaviorVerdict(outputs, candidates)
      ran == {i \in DOMAIN outputs : outputs[i] # NoValue}
  IN  /\ verdict = "verified" => \E i \in ran : outputs[i] = candidates[i]
      /\ verdict = "refuted" => \E i \in ran : outputs[i] # candidates[i]
      /\ verdict = "inconclusive" => \A i \in ran : i > MaxInputs
      /\ verdict = "verified" /\ (\E i \in ran : outputs[i] # candidates[i]) =>
           Len(outputs) > MaxInputs
      /\ ~Runnable(setup) => /\ FunctionsVerdict(setup, outputs, candidates) = "inconclusive"
                             /\ ExebenchVerdict(setup, outputs, candidates) = "inconclusive"
      /\ ran = DOMAIN outputs /\ Len(outputs) <= MaxInputs =>
           ExebenchVerdict(setup, outputs, candidates) = FunctionsVerdict(setup, outputs, candidates)
=============================================================================
