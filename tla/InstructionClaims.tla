------------------------- MODULE InstructionClaims -------------------------
(***************************************************************************)
(* Claims about instructions, judged by capstone or by the built-in decoder *)
(* (reverify/disasm.py, Verifier._check_instructions).                      *)
(*                                                                          *)
(* Code is a sequence of bytes, six of which show what tells the decoders   *)
(* apart: "nop" is an instruction by itself; "imm" begins a push of the     *)
(* byte that follows; "jcc" begins a jump both decoders know, each by a     *)
(* name of its own; "far" begins a two-byte instruction the built-in        *)
(* decoder does not know; "rex" is a prefix of the instruction behind it;   *)
(* "low" is no instruction, but a number below ten as an operand.           *)
(***************************************************************************)
EXTENDS Integers, Sequences

CONSTANTS DefaultLength,      \* bytes judged when a claim gives no length
          NoLength            \* a claim without a length

ASSUME LengthAssumption == DefaultLength \in Nat

CodeByte == {"nop", "imm", "jcc", "far", "rex", "low"}

\* What is noted where a decoder finds no instruction.
Pseudo == {"db", "rex"}
Mnemonic == {"nop", "push", "je", "jz", "far", "other"} \union Pseudo
AnyOperands == "any"        \* an operand string the claim leaves open

\* Where capstone writes je, movabs or 5, the built-in decoder writes jz, mov
\* or 0x5.
Own(text) == CASE text = "je" -> "jz" [] text = "low" -> "0xlow" [] OTHER -> text

\* The names a claim expects, and the operands it gives with them.
IsInstructions(claim) ==
  /\ claim.mode \in {"contains", "exact"} /\ claim.off \in Int
  /\ claim.length \in Nat \union {NoLength}
  /\ claim.expected \in Seq(Mnemonic)
  /\ claim.operands \in Seq(CodeByte \union {"", "0xlow", AnyOperands})

Unknown == [name |-> "db", ops |-> "", size |-> 1]

\* The instruction at p, in capstone's words; Unknown if there is none.  A
\* decoder that knows all forms, or only the built-in one's.
DecodeOne(code, p, all) ==
  LET more == p < Len(code)
  IN  CASE code[p] = "nop" -> [name |-> "nop", ops |-> "", size |-> 1]
        [] code[p] = "imm" /\ more -> [name |-> "push", ops |-> code[p + 1], size |-> 2]
        [] code[p] = "jcc" /\ more -> [name |-> "je", ops |-> code[p + 1], size |-> 2]
        [] code[p] = "far" /\ more /\ all -> [name |-> "far", ops |-> code[p + 1], size |-> 2]
        [] OTHER -> Unknown

\* A prefix counts as part of its instruction.
WithPrefix(code, p, all) ==
  IF code[p] # "rex" \/ p = Len(code) THEN DecodeOne(code, p, all)
  ELSE LET i == DecodeOne(code, p + 1, all)
       IN  IF i = Unknown THEN [i EXCEPT !.name = "rex"] ELSE [i EXCEPT !.size = @ + 1]

\* Both decoders start at the first byte and go on behind each instruction.
\* Capstone stops where there is none; the built-in decoder notes one byte.
DecodeNext(code, all, s) ==
  LET i == WithPrefix(code, s.at, all)
  IN  IF s.at > Len(code) \/ (all /\ i.name \in Pseudo) THEN s
      ELSE [at |-> s.at + i.size, out |-> Append(s.out, i)]

Decoding(code, all) ==
  LET after[k \in 0..Len(code)] ==
        IF k = 0 THEN [at |-> 1, out |-> <<>>] ELSE DecodeNext(code, all, after[k - 1])
  IN  after[Len(code)]

Capstone(code) == Decoding(code, TRUE).out
PurePython(code) ==
  LET out == Decoding(code, FALSE).out
  IN  [i \in DOMAIN out |-> [out[i] EXCEPT !.name = Own(@), !.ops = Own(@)]]

Names(instructions) == [i \in DOMAIN instructions |-> instructions[i].name]

IsSubsequence(needle, haystack) ==
  \E f \in [DOMAIN needle -> DOMAIN haystack] :
    /\ \A i, j \in DOMAIN needle : i < j => f[i] < f[j]
    /\ \A i \in DOMAIN needle : needle[i] = haystack[f[i]]

FirstOf(s, n) == SubSeq(s, 1, IF n < Len(s) THEN n ELSE Len(s))

CodeAt(data, claim) ==
  LET n == IF claim.length \in {NoLength, 0} THEN DefaultLength ELSE claim.length
  IN  FirstOf(SubSeq(data, claim.off + 1, Len(data)), n)

\* The operands a claim gives are compared from the first instruction on,
\* in either mode.
OperandsFit(actual, wants) ==
  \A i \in DOMAIN wants : wants[i] = AnyOperands \/ (i \in DOMAIN actual /\ actual[i].ops = wants[i])

\* The built-in decoder's answer counts only if it decoded what it was asked.
Undecoded(actual, claim) ==
  LET window == IF claim.mode = "contains" THEN actual
                ELSE FirstOf(actual, IF claim.expected = <<>> THEN 1 ELSE Len(claim.expected))
  IN  \E i \in DOMAIN window : window[i].name \in Pseudo

InstructionsVerdict(data, claim, capstone) ==
  LET actual == IF capstone THEN Capstone(CodeAt(data, claim)) ELSE PurePython(CodeAt(data, claim))
      names == Names(actual)
      found == IF claim.mode = "contains" THEN IsSubsequence(claim.expected, names)
               ELSE IF claim.length = NoLength
               THEN FirstOf(names, Len(claim.expected)) = claim.expected
               ELSE names = claim.expected
  IN  IF \/ claim.off \notin 0..Len(data) - 1
         \/ ~capstone /\ Undecoded(actual, claim)
      THEN "inconclusive"
      ELSE IF found /\ OperandsFit(actual, claim.operands) THEN "verified" ELSE "refuted"

-----------------------------------------------------------------------------
\* A length that ends inside an instruction, which capstone leaves out.
CutShort(data, claim) ==
  LET code == CodeAt(data, claim)
  IN  claim.length # NoLength /\ Decoding(code, TRUE).at <= Len(code)

\* What the docstring says: the operands are those of the matched instructions.
HoldsAsWritten(data, claim) ==
  LET actual == Capstone(CodeAt(data, claim))
  IN  \E f \in [DOMAIN claim.expected -> DOMAIN actual] :
        /\ \A i, j \in DOMAIN f : i < j => f[i] < f[j]
        /\ claim.mode = "exact" => \A i \in DOMAIN f : f[i] = i
        /\ claim.mode = "exact" /\ claim.length # NoLength => Len(actual) = Len(claim.expected)
        /\ \A i \in DOMAIN f : /\ actual[f[i]].name = claim.expected[i]
                               /\ i \in DOMAIN claim.operands =>
                                    claim.operands[i] \in {AnyOperands, actual[f[i]].ops}

\* The claim in the built-in decoder's words.
InOwnWords(claim) ==
  [off |-> claim.off, length |-> claim.length, mode |-> claim.mode,
   expected |-> [i \in DOMAIN claim.expected |-> Own(claim.expected[i])],
   operands |-> [i \in DOMAIN claim.operands |-> Own(claim.operands[i])]]

\* The claim uses a name of an instruction, or an operand.
Uses(claim, name, ops) ==
  (\E i \in DOMAIN claim.expected : claim.expected[i] = name)
    \/ \E i \in DOMAIN claim.operands : claim.operands[i] = ops

(***************************************************************************)
(* A claim in capstone's words, put in its own, is judged by the built-in   *)
(* decoder as by capstone, or not at all, save where an exact length ends   *)
(* inside an instruction: capstone then verifies what the built-in decoder  *)
(* refutes.  As it stands, a claim that uses a word only capstone has is    *)
(* never verified without capstone, true as it may be: it is refuted if the *)
(* code is decoded.  With capstone an exact claim is judged as          *)
(* documented; a claim in mode contains is too, unless it gives operands:   *)
(* they are those of the first instructions, whichever ones matched.        *)
(***************************************************************************)
InstructionsTruthful(data, claim) ==
  LET own == InstructionsVerdict(data, InOwnWords(claim), FALSE)
      pure == InstructionsVerdict(data, claim, FALSE)
      full == InstructionsVerdict(data, claim, TRUE)
  IN  Len(claim.operands) <= Len(claim.expected) =>
        /\ ~ Uses(claim, "jz", "0xlow") =>
             own = "inconclusive" \/ own = full \/ (CutShort(data, claim) /\ own = "refuted")
        /\ Uses(claim, "je", "low") => pure # "verified"
        /\ full # "inconclusive" =>
             \/ full = "verified" <=> HoldsAsWritten(data, claim)
             \/ claim.mode = "contains" /\ claim.operands # <<>>
=============================================================================
