------------------------------ MODULE Emulator ------------------------------
(***************************************************************************)
(* The built-in x86 emulator (MicroEmulator in reverify/emulator.py) that   *)
(* judges emulate_result claims when Unicorn is not installed.              *)
(*                                                                          *)
(* A program is a list of instructions; the form of one is "memory" when    *)
(* its reg holds the address of the operand.  The memory is a               *)
(* range of cells as wide as a register; the stack grows downwards in it.   *)
(* A register holds Word values, its lower half Half: 2^64 and 2^32 in the  *)
(* code's 64-bit mode.                                                      *)
(***************************************************************************)
EXTENDS Integers, Sequences, SequencesExt

CONSTANTS Word, Half,
          Cells,        \* addresses of the memory's cells
          Top,          \* where the stack pointer starts
          RegXor(_, _)
\* In 32-bit mode a register is its own lower half.
ASSUME HalfAssumption == Word \in Nat /\ Half \in Nat \ {0} /\ (Half = Word \/ 2 * Half <= Word)
ASSUME CellsAssumption == Cells \subseteq 0..(Word - 1) /\ Top \in 0..(Word - 1)
ASSUME XorAssumption == \A m, n \in 0..(Word - 1) : RegXor(m, n) \in 0..(Word - 1)

Reg == {"a", "b", "sp"}

Instruction == [op : {"push", "pop", "mov", "xor", "add", "ret", "nop", "unknown"},
                reg : Reg, src : Reg, imm : 0..(Word - 1), form : {"register", "memory"}]

Start == [regs |-> [r \in Reg |-> IF r = "sp" THEN Top ELSE 0],
          mem |-> [c \in Cells |-> 0],
          ip |-> 1, steps |-> 0, halted |-> FALSE]

\* mem_read gives zeros outside the memory
Read(s, cell) == IF cell \in Cells THEN s.mem[cell] ELSE 0

SetReg(s, r, value) == [s EXCEPT !.regs[r] = value % Word]
Advance(s) == [s EXCEPT !.ip = @ + 1]

\* Mutant: the value is written where the stack pointer was.
PushAbove(s, r) ==
  IF s.regs["sp"] \in Cells
  THEN Advance(SetReg([s EXCEPT !.mem[s.regs["sp"]] = s.regs[r]], "sp", s.regs["sp"] - 1))
  ELSE [s EXCEPT !.halted = TRUE, !.steps = @ - 1]

\* push: the stack pointer has moved when the write faults; a fault halts
\* the run without counting the step.  The address written is not masked.
Push(s, r) ==
  LET cell == s.regs["sp"] - 1
      moved == SetReg(s, "sp", cell)
  IN  IF cell \in Cells
      THEN Advance([moved EXCEPT !.mem[cell] = s.regs[r]])
      ELSE [moved EXCEPT !.halted = TRUE, !.steps = @ - 1]

\* pop: the register is written last, the stack pointer before it
Pop(s, r) ==
  Advance(SetReg(SetReg(s, "sp", s.regs["sp"] + 1), r, Read(s, s.regs["sp"])))

\* The operand of xor and add is taken for a register whatever the form of
\* the instruction; an unknown opcode is passed over.
Execute(s, i) ==
  CASE i.op = "push" -> Push(s, i.reg)
    [] i.op = "pop"  -> Pop(s, i.reg)
    [] i.op = "mov"  -> Advance(SetReg(s, i.reg, i.imm))
    [] i.op = "xor"  -> Advance(SetReg(s, i.reg, RegXor(s.regs[i.reg], s.regs[i.src])))
    [] i.op = "add"  -> Advance(SetReg(s, i.reg, s.regs[i.reg] + s.regs[i.src]))
    [] i.op = "ret"  -> [Advance(s) EXCEPT !.halted = TRUE]
    [] OTHER         -> Advance(s)

\* step: behind the program the memory is zero, which halts
Step(s, program, max) ==
  IF s.ip \notin DOMAIN program THEN [s EXCEPT !.halted = TRUE]
  ELSE LET t == Execute(s, program[s.ip])
       IN  [t EXCEPT !.steps = @ + 1, !.halted = @ \/ t.steps + 1 >= max]

\* run: until it halts; without a jump that is at most one round each
Round(s, program, max) == IF s.halted \/ s.steps >= max THEN s ELSE Step(s, program, max)

Rounds(program, max) ==
  LET after[n \in 0..(Len(program) + 1)] ==
        IF n = 0 THEN Start ELSE Round(after[n-1], program, max)
  IN  after

Run(program, max) == Rounds(program, max)[Len(program) + 1]

\* The verdict on a claim about the registers a run leaves; placed is FALSE
\* when the code's address does not lie in the file.  How far the run came is
\* evidence, and not looked at.
EmulateResult(program, max, claim) ==
  LET fits == \A r \in DOMAIN claim.expect : Run(program, max).regs[r] = claim.expect[r]
  IN  IF ~claim.placed THEN "inconclusive"
      ELSE IF claim.observe THEN "observed"
      ELSE IF fits THEN "verified" ELSE "refuted"

-----------------------------------------------------------------------------
(***************************************************************************)
(* The reference: the processor, with the stack as a list and operations on *)
(* the lower halves of the registers, for the forms the emulator decodes.   *)
(***************************************************************************)
Decoded(i) == /\ i.op \in {"push", "pop", "mov", "xor", "add", "ret", "nop"}
              /\ i.form = "register"
              /\ i.reg # "sp" /\ i.src # "sp"

\* above the stack's start the memory is zero
PowerOn(program) ==
  [a |-> 0, b |-> 0, stack |-> [n \in 1..Len(program) |-> 0], done |-> FALSE]

Get(m, r) == IF r = "a" THEN m.a ELSE m.b
Put(m, r, value) == IF r = "a" THEN [m EXCEPT !.a = value] ELSE [m EXCEPT !.b = value]

Act(m, i) ==
  CASE i.op = "push" -> [m EXCEPT !.stack = Append(@, Get(m, i.reg))]
    [] i.op = "pop" -> [Put(m, i.reg, Last(m.stack)) EXCEPT !.stack = Front(@)]
    [] i.op = "mov" -> Put(m, i.reg, i.imm)
    [] i.op = "xor" -> Put(m, i.reg, RegXor(Get(m, i.reg), Get(m, i.src)))
    [] i.op = "add" -> Put(m, i.reg, (Get(m, i.reg) + Get(m, i.src)) % Half)
    [] i.op = "ret" -> [m EXCEPT !.done = TRUE]
    [] OTHER -> m

Cpus(program) ==
  LET after[n \in 0..Len(program)] ==
        IF n = 0 THEN PowerOn(program)
        ELSE IF after[n-1].done THEN after[n-1] ELSE Act(after[n-1], program[n])
  IN  after

Cpu(program, max) == Cpus(program)[IF Len(program) < max THEN Len(program) ELSE max]

\* The claim that register a holds n in the end.
ClaimedA(n) == [placed |-> TRUE, observe |-> FALSE, expect |-> [r \in {"a"} |-> n]]

(***************************************************************************)
(* A run ends within its limit, wherever the code sends the stack pointer,  *)
(* and counts no faulting step.  For a program of decoded register forms    *)
(* whose sums stay within half a register, the registers are those of the   *)
(* processor, pops beyond the stack's start included, as long as the memory *)
(* has room for what the program can push and pop.  Of any other program a  *)
(* register state is reported all the same and judged: the memory forms     *)
(* and unknown opcodes that the decoder refuses to judge (CHANGELOG, "pure  *)
(* decoder never refutes on bytes it cannot decode") are executed here as   *)
(* something else, and a claim is verified or refuted by what results.      *)
(***************************************************************************)
MachineFaithful(program, max) ==
  LET s == Run(program, max)
      cpu == Cpu(program, max)
      room == (Top - Len(program))..(Top + Len(program) - 1) \subseteq Cells
      exact == /\ room /\ Top + Len(program) < Word
               /\ \A n \in DOMAIN program : Decoded(program[n])
               /\ \A n \in 0..Len(program) :
                    LET t == Rounds(program, max)[n]
                    IN  t.regs["a"] < Half /\ t.regs["b"] < Half
  IN  /\ s.halted \/ s.steps = max
      /\ s.steps <= max /\ s.steps <= Len(program)
      /\ s.ip <= s.steps + 1
      /\ exact => /\ s.regs["a"] = cpu.a /\ s.regs["b"] = cpu.b
                  /\ s.regs["sp"] = Top - (Len(cpu.stack) - Len(program))
                  /\ \A a \in 0..1 : EmulateResult(program, max, ClaimedA(a)) =
                                      IF a = cpu.a THEN "verified" ELSE "refuted"
=============================================================================
