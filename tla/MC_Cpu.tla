------------------------------- MODULE MC_Cpu -------------------------------
(***************************************************************************)
(* A machine with bytes of four bits, words of sixteen and an int of eight *)
(* for TLC: single instructions with every kind of operand from states at  *)
(* the edges of the memory, and short programs of interrupts.              *)
(***************************************************************************)
EXTENDS Cpu, TLC

McRom == [a \in 0 .. 31 |-> (5 * a + 3) % 16]
McWindows == 61440 + 256 :> 16 @@ 61440 + 512 :> 24

-----------------------------------------------------------------------------
Operand(m, r, d, v) == [mode |-> m, reg |-> r, disp |-> d, val |-> v]
Sources == {Operand(REG, 1, 0, 0), Operand(REG, 5, 0, 0), Operand(REGPTR, 1, 3, 0),
            Operand(IMM, 0, 0, 32003), Operand(IMMPTR, 0, 0, 61452),
            Operand(IMMPTR, 0, 0, 61696 + 20)}
Targets == {Operand(REG, 0, 0, 0), Operand(REG, 2, 0, 0), Operand(REGPTR, 0, 3, 0),
            Operand(IMM, 2, 0, 7), Operand(IMMPTR, 0, 0, 700)}

Of(ops, sizes, conds, targets, sources) ==
  [op : ops, size : sizes, cond : conds, offset : {0, 1}, target : targets, source : sources]

Sizes == {SIZE8, SIZE16, SIZE32}
R0 == Operand(REG, 0, 0, 0)
R1 == Operand(REG, 1, 0, 0)
Constant(v) == Operand(IMM, 0, 0, v)
Instruct(op, size, target, source) ==
  [op |-> op, size |-> size, cond |-> 0, offset |-> 0, target |-> target, source |-> source]

Displaced(i) == i.offset = 0 \/ REGPTR \in {i.target.mode, i.source.mode}
Single ==
  {i \in Of(TwoOperands \cup BitOperands, Sizes, {0}, Targets, Sources)
         \cup Of(TwoOperands \cup BitOperands, {SIZE16}, {1}, Targets, Sources)
         \cup Of(OneOperand, Sizes, {0, 2}, {Constant(0)}, Sources \cup Targets) : Displaced(i)}
  \cup Of(NoOperand \cup {"TLB"}, Sizes, 0 .. 7, {R0}, {R1})

\* Two interrupts, one in the handler of the other, and the way back.
Interrupts == {Instruct("ISE", SIZE32, R0, R0), Instruct("INT", SIZE32, R0, Constant(1)),
               Instruct("INT", SIZE32, R0, Constant(EX)), Instruct("DIV", SIZE32, R0, Constant(0))}
Handles    == {Instruct("POP", SIZE32, R0, R0), Instruct("PUSH", SIZE8, R0, R1)}
Returns    == {Instruct("RETI", SIZE32, R0, R0), Instruct("HALT", SIZE32, R0, R0)}
Nested == <<Interrupts, Interrupts, Handles, Returns, Handles, Returns>>

-----------------------------------------------------------------------------
With(r0, r1) == [Reset EXCEPT !.regs = [r \in 0 .. RegisterCount - 1 |->
                                          IF r = 0 THEN r0 ELSE IF r = 1 THEN r1 ELSE 0]]
At(m, instr, stack, exstack, swap) ==
  [m EXCEPT !.instr = instr, !.mut = instr, !.stack = stack, !.exstack = exstack, !.swap = swap]

Edges ==
  {At(With(8, 600), 512, 0, 0, FALSE),
   At(With(65535, 1), RamSize - 2, RamSize - 2, 0, FALSE),
   [At(With(30000, 61436), 24000, 900, 800, TRUE) EXCEPT !.carry = TRUE],
   At(With(600, 9), RamSize - 6, RamSize - 1, 0, FALSE)}

Values == {0, 1, 2, 9, 15, 16, 127, 128, 200, 255, 256, 32767, 32768, 40001, 65535}
Samples == (0 .. 15) \X (0 .. 15)
           \cup {p \in Values \X Values : p[1] < 32768 \/ p[2] < 32768}

McStarts ==
  [vm : Edges, program : {<<Single>>}, calls : {0}]
  \cup [vm : {At(With(0, 3), 512, 600, 0, FALSE), At(With(0, 3), 512, 600, 700, TRUE)},
        program : {Nested}, calls : {2}]
  \cup [vm : {With(p[1], p[2]) : p \in Samples}, program : {<<>>}, calls : {0}]
=============================================================================
