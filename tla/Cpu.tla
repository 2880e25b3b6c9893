--------------------------------- MODULE Cpu ---------------------------------
(***************************************************************************)
(* The interpreter of cpu.c over flat memory (what Pager implements): one  *)
(* action for each pass through vm_execute and for each call that cpu.h    *)
(* offers its host.  main.c calls only fox32_init and fox32_resume.        *)
(*                                                                         *)
(* An instruction is given decoded, with the contents of its operands;     *)
(* only that its bytes can be read is asked of the memory.  A helper of    *)
(* the code is an operator from machine to machine.  longjmp to panic_jmp  *)
(* is the field err: once it is set, Do leaves everything as it is.        *)
(***************************************************************************)
EXTENDS Alu, Sequences

CONSTANTS RegisterCount,  \* FOX32_REGISTER_COUNT (32)
          RamSize,        \* FOX32_MEMORY_RAM (2^20)
          RomStart, RomSize,
          Windows, WindowSize,  \* the jump tables: address |-> place in the ROM
          Rom,            \* the bytes of the ROM
          Count,          \* instructions in one fox32_resume (65535)
          Starts,         \* [vm, program, calls]: see Init
          PortValues,     \* what an in may read
          HostCalls       \* does the host call more than init and resume

SIZE8  == 1
SIZE16 == 2
SIZE32 == 4
WordMod == Modulus(SIZE32)
Word == 0 .. WordMod - 1
Byte == 0 .. Modulus(SIZE8) - 1

(* enum TY, and the condition that vm_shouldskip does not know.            *)
REG    == 0
REGPTR == 1
IMM    == 2
IMMPTR == 3

Operands == [mode : 0 .. 3, reg : Byte, disp : Byte, val : Word]
Instruction == [op : STRING, size : {SIZE8, SIZE16, SIZE32}, cond : 0 .. 7,
                offset : {0, 1}, target : Operands, source : Operands]

(* fox32_vm_t with its memory, the frame that panic_jmp leads to, and the  *)
(* value last read.                                                        *)
Frames == {"none", "resume", "step", "raise", "push", "pop"}
Errors == {"OK", "FAULT_RD", "BADREGISTER", "BADIMMEDIATE", "BADOPCODE",
           "BADCONDITION", "DIVZERO", "DEBUGGER", "NOINTERRUPTS"}

IsMachine(m) ==
  /\ m \in [instr : Word, mut : Word, stack : Word, exstack : Word, frame : Word,
            regs : [0 .. RegisterCount - 1 -> Word],
            zero : BOOLEAN, carry : BOOLEAN, intr : BOOLEAN, swap : BOOLEAN,
            halted : BOOLEAN, soft : BOOLEAN, mmu : BOOLEAN, operand : Word,
            jmp : Frames, err : Errors, val : Word, mem : {m.mem}]
  /\ \A a \in DOMAIN m.mem : a \in 0 .. RamSize - 1 /\ m.mem[a] \in Byte

(* Nothing of an instruction is left between two calls.                    *)
AtRest(m) == m.err = "OK" /\ m.val = 0 /\ m.mut = m.instr

ASSUME CpuAssumption ==
  /\ ByteBits >= 4  \* the four flags fit
  /\ RegisterCount \in Nat \ {0, 1} /\ Count \in Nat
  /\ RamSize \in Nat \ {0} /\ WordMod % RamSize = 0
  \* every vector that fits uint16_t has its entry in the RAM
  /\ SIZE32 * Modulus(SIZE16) <= RamSize
  /\ RomStart \in RamSize .. WordMod - 1
  /\ RomSize \in Nat /\ Rom \in [0 .. RomSize - 1 -> Byte]
  /\ WindowSize \in Nat
  /\ \A w \in DOMAIN Windows :
       w \in Nat /\ Windows[w] \in Nat /\ Windows[w] + WindowSize <= WordMod
  /\ \A s \in Starts : /\ IsMachine(s.vm) /\ AtRest(s.vm)
                       /\ s.program \in Seq(SUBSET Instruction) /\ s.calls \in Nat
  /\ PortValues \subseteq Word
  /\ HostCalls \in BOOLEAN

VARIABLES
  vm,         \* fox32_vm_t, with the memory and the value last read
  mode,       \* "host", or the call that is in progress; "wild" after a
              \*   longjmp to a frame that has returned
  status,     \* the error the last call returned
  remaining,  \* the local of vm_resume
  program,    \* the sets of which the next instructions are
  calls,      \* calls the host may still make
  last,       \* history: the instruction executed last
  open        \* history: the interrupts and exceptions not yet returned from

vars == <<vm, mode, status, remaining, program, calls, last, open>>

-----------------------------------------------------------------------------
(* vm_init.                                                                *)
Reset ==
  [instr |-> RomStart, mut |-> RomStart, stack |-> 0, exstack |-> 0,
   frame |-> 0, regs |-> [r \in 0 .. RegisterCount - 1 |-> 0],
   zero |-> FALSE, carry |-> FALSE, intr |-> FALSE, swap |-> FALSE,
   halted |-> TRUE, soft |-> FALSE, mmu |-> FALSE, operand |-> 0,
   jmp |-> "none", err |-> "OK", val |-> 0, mem |-> <<>>]

Panic(m, e) == [m EXCEPT !.err = e]
Do(m, F(_)) == IF m.err = "OK" THEN F(m) ELSE m

Bit(b, n) == IF b THEN 2 ^ n ELSE 0
Flags(m) == Bit(m.swap, 3) + Bit(m.intr, 2) + Bit(m.carry, 1) + Bit(m.zero, 0)
SetFlags(m, f) ==
  LET set == BitsOf(f, SIZE8)
  IN  [m EXCEPT !.zero = 0 \in set, !.carry = 1 \in set,
                !.intr = 2 \in set, !.swap = 3 \in set]

Local(m, l) ==
  IF l < RegisterCount THEN m.regs[l]
  ELSE CASE l = RegisterCount     -> m.stack
         [] l = RegisterCount + 1 -> m.exstack
         [] l = RegisterCount + 2 -> m.frame

SetLocal(m, l, v) ==
  IF l < RegisterCount THEN [m EXCEPT !.regs[l] = v]
  ELSE CASE l = RegisterCount     -> [m EXCEPT !.stack = v]
         [] l = RegisterCount + 1 -> [m EXCEPT !.exstack = v]
         [] l = RegisterCount + 2 -> [m EXCEPT !.frame = v]

WithLocal(m, l, F(_)) ==
  IF l < RegisterCount + 3 THEN F(m) ELSE Panic(m, "BADREGISTER")

-----------------------------------------------------------------------------
(* vm_read8: the RAM, and the ROM with its jump tables.  An address behind *)
(* the ROM is reported less the start of the ROM.                          *)
Window(a) == {w \in DOMAIN Windows : a \in w .. w + WindowSize - 1}
RomAddress(a) ==
  IF Window(a) = {} THEN a - RomStart
  ELSE LET w == CHOOSE w \in Window(a) : TRUE IN Windows[w] + (a - w)

InRom(a) == a \in RomStart .. WordMod - 2 /\ RomAddress(a) < RomSize
Readable(a) == a < RamSize \/ InRom(a)
Reported(a) == IF a \in RomStart .. WordMod - 2 THEN RomAddress(a) ELSE a

ByteAt(m, a) ==
  IF a >= RamSize THEN Rom[RomAddress(a)]
  ELSE IF a \in DOMAIN m.mem THEN m.mem[a] ELSE 0

Fault(m, a) == [m EXCEPT !.err = "FAULT_RD", !.operand = a]

(* vm_read8, vm_read16, vm_read32.                                         *)
Read(m, a, s) ==
  LET bad == {i \in 0 .. s - 1 : ~Readable(a + i)}
  IN  IF bad = {}
      THEN [m EXCEPT !.val =
              SumFunction([i \in 0 .. s - 1 |-> ByteAt(m, a + i) * Modulus(i)])]
      ELSE Fault(m, IF a + s >= WordMod THEN a ELSE Reported(a + Min(bad)))

(* vm_write8, vm_write16, vm_write32: no test, and the page number of      *)
(* eight bits folds the address into the RAM.                              *)
Write(m, a, s, v) ==
  LET cell(i) == (a + i) % RamSize
      at(c) == CHOOSE i \in 0 .. s - 1 : cell(i) = c
      written == {cell(i) : i \in 0 .. s - 1}
  IN  [m EXCEPT !.mem = [c \in DOMAIN m.mem \cup written |->
        IF c \in written THEN (v \div Modulus(at(c))) % Modulus(SIZE8)
        ELSE m.mem[c]]]

PushUncut(m, v, s) ==
  [Write(m, (m.stack - s) % WordMod, s, v) EXCEPT !.stack = m.stack - s]

Push(m, v, s) ==
  LET top == (m.stack - s) % WordMod
  IN  [Write(m, top, s, v) EXCEPT !.stack = top]

Pop(m, s) ==
  Do(Read(m, m.stack, s), LAMBDA n : [n EXCEPT !.stack = (n.stack + s) % WordMod])

-----------------------------------------------------------------------------
(* The bytes of an operand, at pointer_instr_mut.                          *)
Fetch(m, s) ==
  Do(Read(m, m.mut, s), LAMBDA n : [n EXCEPT !.mut = (n.mut + s) % WordMod])

(* The address of a TY_REGPTR operand.                                     *)
Pointed(m, o, offset) == (Local(m, o.reg) + offset * o.disp) % WordMod

(* vm_source8, 16 and 32.                                                  *)
Source(m, o, s, offset) ==
  CASE o.mode = REG ->
         Do(Fetch(m, SIZE8), LAMBDA n : WithLocal(n, o.reg, LAMBDA k :
           [k EXCEPT !.val = Low(Local(k, o.reg), s)]))
    [] o.mode = REGPTR ->
         Do(Fetch(m, SIZE8 + offset), LAMBDA n : WithLocal(n, o.reg, LAMBDA k :
           Read(k, Pointed(k, o, offset), s)))
    [] o.mode = IMM ->
         Do(Fetch(m, s), LAMBDA n : [n EXCEPT !.val = Low(o.val, s)])
    [] o.mode = IMMPTR ->
         Do(Fetch(m, SIZE32), LAMBDA n : Read(n, o.val, s))

(* vm_source8_stay, 16 and 32.                                             *)
SourceStay(m, o, s, offset) == [Source(m, o, s, offset) EXCEPT !.mut = m.mut]

(* vm_target8, 16 and 32, and with clear the variants that end in _zero,   *)
(* which write a whole word.                                               *)
Target(m, o, v, s, offset, clear) ==
  LET wide == IF clear THEN SIZE32 ELSE s IN
  CASE o.mode = REG ->
         Do(Fetch(m, SIZE8), LAMBDA n : WithLocal(n, o.reg, LAMBDA k :
           SetLocal(k, o.reg, IF clear THEN v
                              ELSE Local(k, o.reg) - Low(Local(k, o.reg), s) + v)))
    [] o.mode = REGPTR ->
         Do(Fetch(m, SIZE8 + offset), LAMBDA n : WithLocal(n, o.reg, LAMBDA k :
           Write(k, Pointed(k, o, offset), wide, v)))
    [] o.mode = IMM -> Panic(m, "BADIMMEDIATE")
    [] o.mode = IMMPTR ->
         Do(Fetch(m, SIZE32), LAMBDA n : Write(n, o.val, wide, v))

(* vm_shouldskip; condition 7 has no case.                                 *)
SkipsGtOnCarry(m, cond) ==
  CASE cond = 0 -> FALSE
    [] cond = 1 -> ~m.zero
    [] cond = 2 -> m.zero
    [] cond = 3 -> ~m.carry
    [] cond = 4 -> m.carry
    [] cond = 5 -> m.carry
    [] cond = 6 -> ~m.zero /\ ~m.carry

Skips(m, cond) ==
  CASE cond = 0 -> FALSE
    [] cond = 1 -> ~m.zero
    [] cond = 2 -> m.zero
    [] cond = 3 -> ~m.carry
    [] cond = 4 -> m.carry
    [] cond = 5 -> m.zero \/ m.carry
    [] cond = 6 -> ~m.zero /\ ~m.carry

IFGT == 5
IFLTEQ == 6

(* vm_skipparam.                                                           *)
ParamSize(o, s, offset) ==
  CASE o.mode = REG    -> SIZE8
    [] o.mode = REGPTR -> SIZE8 + offset
    [] o.mode = IMMPTR -> SIZE32
    [] o.mode = IMM    -> s

-----------------------------------------------------------------------------
(* The opcodes, by the prelude that skips them and by size.                *)
NoOperand   == {"NOP", "HALT", "BRK", "RET", "RETI", "ISE", "ICL", "MSE", "MCL"}
Jumps       == {"JMP", "RJMP"}
Loops       == {"LOOP", "RLOOP"}
Calls       == {"CALL", "RCALL"}
Relative    == {"RJMP", "RLOOP", "RCALL"}
Steps       == {"INC", "DEC"}
OneOperand  == Jumps \cup Loops \cup Calls \cup Steps \cup {"POP", "PUSH", "NOT", "INT"}
Moves       == {"MOV", "MOVZ"}
Sums        == {"ADD", "SUB", "MUL", "IMUL"}
Quotients   == {"DIV", "REM", "IDIV", "IREM"}
Logicals    == {"AND", "OR", "XOR"}
Compares    == {"CMP", "ICMP"}
Shifts      == {"SLA", "SRL", "SRA", "ROL", "ROR", "BSE", "BCL"}
BitOperands == Shifts \cup {"BTS"}
TwoOperands == Moves \cup Sums \cup Quotients \cup Logicals \cup Compares
               \cup {"IN", "OUT", "RTA"}
WordOnly == {"IN", "OUT", "RET", "RETI", "ISE", "ICL", "MSE", "MCL", "INT",
             "JMP", "LOOP", "CALL"}

(* TLB, FLP and all others have no case in vm_execute.                     *)
Known(i) ==
  /\ i.op \in NoOperand \cup OneOperand \cup TwoOperands \cup BitOperands
  /\ i.op \in WordOnly => i.size = SIZE32

(* VM_PRELUDE_0, _1, _2 and _BIT: where the next instruction begins.       *)
AfterParams(i, source) ==
  ParamSize(i.target, i.size, i.offset) + ParamSize(i.source, source, i.offset)
ParamsSizeBitAsOthers(i) ==
  CASE i.op \in NoOperand   -> 0
    [] i.op \in OneOperand  -> ParamSize(i.source, i.size, i.offset)
    [] OTHER                -> AfterParams(i, i.size)

ParamsSize(i) ==
  CASE i.op \in NoOperand   -> 0
    [] i.op \in OneOperand  -> ParamSize(i.source, i.size, i.offset)
    [] i.op \in TwoOperands -> AfterParams(i, i.size)
    [] i.op \in BitOperands -> AfterParams(i, SIZE8)

SkipParams(m, i) == [m EXCEPT !.mut = (m.mut + ParamsSize(i)) % WordMod]

(* The next source, and the value and flags an instruction ends with.      *)
Src(m, i)     == Source(m, i.source, i.size, i.offset)
SrcByte(m, i) == Source(m, i.source, SIZE8, i.offset)
Store(m, o, i, v) == Target(m, o, v, i.size, i.offset, FALSE)
SetZero(m, v) == [m EXCEPT !.zero = (v = 0)]

(* VM_IMPL_JMP, VM_IMPL_LOOP, VM_IMPL_CALL.                                *)
Destination(m, i, v) ==
  IF i.op \in Relative THEN (m.instr + Signed(v, i.size)) % WordMod ELSE v

Jump(m, i) ==
  Do(Src(m, i), LAMBDA n : [n EXCEPT !.mut = Destination(n, i, n.val)])

Loop(m, i) ==
  LET r == RegisterCount - 1
      n == [m EXCEPT !.regs[r] = (@ - 1) % WordMod]
  IN  IF n.regs[r] # 0 THEN Jump(n, i) ELSE SkipParams(n, i)

Call(m, i) ==
  Do(Src(m, i), LAMBDA n :
    [Push(n, n.mut, SIZE32) EXCEPT !.mut = Destination(n, i, n.val)])

(* VM_IMPL_POP: the target is written with the stack pointer as it was.    *)
PopIntoAtOnce(m, i) ==
  Do(Pop(m, i.size), LAMBDA n : Store(n, i.source, i, n.val))

PopInto(m, i) ==
  Do(Pop(m, i.size), LAMBDA n :
    Do(Store([n EXCEPT !.stack = m.stack], i.source, i, n.val), LAMBDA k :
      [k EXCEPT !.stack = n.stack]))

(* VM_IMPL_PUSH, VM_IMPL_MOV, VM_IMPL_NOT, VM_IMPL_INC.                    *)
PushFrom(m, i) == Do(Src(m, i), LAMBDA n : Push(n, n.val, i.size))

Move(m, i) ==
  Do(Src(m, i), LAMBDA n :
    Target(n, i.target, n.val, i.size, i.offset,
           i.op = "MOVZ" /\ i.size # SIZE32))

Not(m, i) ==
  Do(SourceStay(m, i.source, i.size, i.offset), LAMBDA n :
    LET x == Complement(n.val, i.size)
    IN  Do(Store(n, i.source, i, x), LAMBDA k : SetZero(k, x)))

StepBy(m, i) ==
  Do(SourceStay(m, i.source, i.size, i.offset), LAMBDA n :
    LET r == Checked(i.op, n.val, 2 ^ i.target.mode, i.size)
    IN  Do(Store(n, i.source, i, r.x), LAMBDA k :
          SetZero([k EXCEPT !.carry = r.carry], r.x)))

(* What VM_IMPL_ADD, _AND, _SHIFT and _DIV share: a source, the target     *)
(* read in place, and F of the machine, b and a.                           *)
WithBoth(m, i, a, F(_, _, _)) ==
  Do(a, LAMBDA n :
    Do(SourceStay(n, i.target, i.size, i.offset), LAMBDA k :
      F(k, k.val, n.val)))

Result(m, i, x) == Do(Store(m, i.target, i, x), LAMBDA k : SetZero(k, x))

Sum2(m, i) ==
  WithBoth(m, i, Src(m, i), LAMBDA k, b, a :
    LET r == Checked(i.op, b, a, i.size)
    IN  Do(Result(k, i, r.x), LAMBDA n : [n EXCEPT !.carry = r.carry]))

Logic(m, i) ==
  WithBoth(m, i, Src(m, i), LAMBDA k, b, a : Result(k, i, Logical(i.op, b, a, i.size)))

Shift(m, i, unshifted) ==
  WithBoth(m, i, SrcByte(m, i), LAMBDA k, b, a :
    Result(k, i, Shifted(i.op, b, a, i.size, unshifted)))

Quotient(m, i) ==
  WithBoth(m, i, Src(m, i), LAMBDA k, b, a :
    IF a = 0 THEN Panic(k, "DIVZERO")
    ELSE Result(k, i, Divided(i.op, b, a, i.size)))

(* VM_IMPL_CMP and VM_IMPL_BTS, which read the target and go on.           *)
Compare(m, i) ==
  Do(Src(m, i), LAMBDA n :
    Do(Source(n, i.target, i.size, i.offset), LAMBDA k :
      LET r == Checked(i.op, k.val, n.val, i.size)
      IN  SetZero([k EXCEPT !.carry = r.carry], r.x)))

TestBit(m, i, unshifted) ==
  Do(SrcByte(m, i), LAMBDA n :
    Do(Source(n, i.target, i.size, i.offset), LAMBDA k :
      LET count == IF unshifted /\ n.val >= IntBits THEN 0 ELSE n.val
      IN  [k EXCEPT !.zero =
             (BitsOf(k.val, i.size) \cap OneShifted(count, i.size) = {})]))

(* OP_IN, OP_OUT, OP_RTA; bus_io_read and bus_io_write return no error.    *)
(* The source of an in is read as if it had no displacement, so that the   *)
(* byte of one is taken for the first of the target.                       *)
InTarget(i) ==
  IF i.source.mode = REGPTR /\ i.offset = 1
  THEN [mode |-> i.target.mode, reg |-> i.source.disp, disp |-> i.target.reg,
        val |-> (i.source.disp + i.target.val * Modulus(SIZE8)) % WordMod]
  ELSE i.target

In(m, i, port) ==
  Do(Source(m, i.source, SIZE32, 0), LAMBDA n : Store(n, InTarget(i), i, port))

Out(m, i) ==
  Do(Src(m, i), LAMBDA n : Source(n, i.target, SIZE32, i.offset))

Rta(m, i) ==
  Do(Src(m, i), LAMBDA n :
    Target(n, i.target, (n.instr + Signed(n.val, i.size)) % WordMod, SIZE32,
           i.offset, FALSE))

(* OP_RET, OP_RETI.                                                        *)
Return(m) == Do(Pop(m, SIZE32), LAMBDA n : [n EXCEPT !.mut = n.val])

ReturnInterrupt(m) ==
  Do(Pop(m, SIZE8), LAMBDA f :
    Do(Return(SetFlags(f, f.val)), LAMBDA n :
      IF n.swap THEN Do(Pop(n, SIZE32), LAMBDA k : [k EXCEPT !.stack = k.val])
      ELSE n))

-----------------------------------------------------------------------------
(* vm_raise.  It catches its own panics.                                   *)
EX == Modulus(SIZE8)

Saved(m) == Push(Push(m, m.instr, SIZE32), Flags(m), SIZE8)

OnExceptionStackEarly(m) ==
  IF m.swap
  THEN Saved([Push([m EXCEPT !.stack = m.exstack], m.stack, SIZE32)
                EXCEPT !.swap = FALSE])
  ELSE Saved(m)

OnExceptionStack(m) ==
  IF m.swap
  THEN [Saved(Push([m EXCEPT !.stack = m.exstack], m.stack, SIZE32))
          EXCEPT !.swap = FALSE]
  ELSE Saved(m)

Told(m, vector) ==
  IF vector >= EX THEN [Push(m, m.operand, SIZE32) EXCEPT !.operand = 0]
  ELSE Push(m, vector, SIZE32)

EnterRunning(m, handler) ==
  [m EXCEPT !.instr = handler, !.soft = FALSE, !.intr = FALSE]

Enter(m, handler) ==
  [m EXCEPT !.instr = handler, !.halted = TRUE, !.soft = FALSE, !.intr = FALSE]

Raise(m, vector) ==
  IF ~m.intr /\ vector < EX THEN Panic(m, "NOINTERRUPTS")
  ELSE Do(Read([m EXCEPT !.jmp = "raise"], SIZE32 * vector, SIZE32), LAMBDA n :
         Enter(Told(OnExceptionStack(n), vector), n.val))

(* OP_INT: what fox32_raise returns is not looked at.                      *)
Interrupt(m, i) ==
  Do(Src(m, i), LAMBDA n :
    LET r == Raise([n EXCEPT !.instr = n.mut], Low(n.val, SIZE16))
    IN  [r EXCEPT !.err = "OK", !.mut = r.instr])

(* vm_recover: the vector for an error.                                    *)
Vector(err) ==
  CASE err = "DIVZERO" -> EX
    [] err \in {"BADOPCODE", "BADCONDITION", "BADREGISTER", "BADIMMEDIATE"} -> EX + 1
    [] err = "FAULT_RD" -> EX + 2
    [] err = "DEBUGGER" -> EX + 4

-----------------------------------------------------------------------------
(* One case of the switch in vm_execute; c settles what is open: the value *)
(* an in reads, and what an undefined shift does.                          *)
Perform(m, i, c) ==
  CASE i.op = "HALT"        -> [m EXCEPT !.soft = TRUE]
    [] i.op = "BRK"         -> Panic([m EXCEPT !.instr = m.mut], "DEBUGGER")
    [] i.op = "IN"          -> In(m, i, c.port)
    [] i.op = "OUT"         -> Out(m, i)
    [] i.op = "RTA"         -> Rta(m, i)
    [] i.op = "RET"         -> Return(m)
    [] i.op = "RETI"        -> ReturnInterrupt(m)
    [] i.op \in {"ISE", "ICL"} -> [m EXCEPT !.intr = (i.op = "ISE")]
    [] i.op \in {"MSE", "MCL"} -> [m EXCEPT !.mmu = (i.op = "MSE")]
    [] i.op \in Jumps       -> Jump(m, i)
    [] i.op \in Loops       -> Loop(m, i)
    [] i.op \in Calls       -> Call(m, i)
    [] i.op = "POP"         -> PopInto(m, i)
    [] i.op = "PUSH"        -> PushFrom(m, i)
    [] i.op \in Moves       -> Move(m, i)
    [] i.op = "NOT"         -> Not(m, i)
    [] i.op \in Steps       -> StepBy(m, i)
    [] i.op \in Sums        -> Sum2(m, i)
    [] i.op \in Logicals    -> Logic(m, i)
    [] i.op \in Shifts      -> Shift(m, i, c.unshifted)
    [] i.op \in Quotients   -> Quotient(m, i)
    [] i.op \in Compares    -> Compare(m, i)
    [] i.op = "BTS"         -> TestBit(m, i, c.unshifted)
    [] i.op = "INT"         -> Interrupt(m, i)

(* vm_execute.                                                             *)
Begin(m) ==
  Do(Read(m, m.instr, SIZE16), LAMBDA n :
    [n EXCEPT !.mut = (n.instr + SIZE16) % WordMod])

Execute(m, i, c) ==
  Do(Do(Begin(m), LAMBDA n :
       IF ~Known(i) THEN Panic([n EXCEPT !.operand = n.val], "BADOPCODE")
       ELSE IF i.op = "NOP" THEN n
       ELSE IF i.cond = 7 THEN Panic(n, "BADCONDITION")
       ELSE IF Skips(n, i.cond) THEN SkipParams(n, i)
       ELSE Perform(n, i, c)),
     LAMBDA n : [n EXCEPT !.instr = n.mut])

Outcomes(i) ==
  [unshifted : IF i.op \in BitOperands THEN BOOLEAN ELSE {FALSE},
   port : IF i.op = "IN" THEN PortValues ELSE {0}]

(* What is not kept from one call to the next.                             *)
Settled(m) == [m EXCEPT !.mut = m.instr, !.val = 0, !.err = "OK"]

-----------------------------------------------------------------------------
(* The history of what was interrupted: where it goes on, its flags and    *)
(* stack pointer, and where that was saved.                                *)
Interrupted(m, raised, instr) ==
  [instr |-> instr, flags |-> Flags(m), stack |-> m.stack,
   top |-> (raised.stack + SIZE32) % WordMod]

SavedSize(c) ==
  SIZE32 + SIZE8 + IF 3 \in BitsOf(c.flags, SIZE8) THEN SIZE32 ELSE 0

(* Those of which the saved bytes are still in place in m.                 *)
StillSaved(m) ==
  {c \in open : \A n \in 0 .. SavedSize(c) - 1 :
     LET a == (c.top + n) % RamSize IN ByteAt(m, a) = ByteAt(vm, a)}

After(i) == SkipParams(Begin(vm), i).mut

OpenAfter(i, n) ==
  LET kept == StillSaved(n)
  IN  IF n.err # "OK" THEN kept
      ELSE IF i.op = "RETI" THEN {c \in kept : c.top # vm.stack}
      ELSE IF i.op = "INT" /\ n.jmp = "raise"
      THEN kept \cup {Interrupted(vm, n, After(i))}
      ELSE kept

-----------------------------------------------------------------------------
none == [op |-> "none"]

(* What fox32_init leaves, and what a program may have made of it.         *)
Init ==
  /\ \E s \in Starts : vm = s.vm /\ program = s.program /\ calls = s.calls
  /\ mode = "host" /\ status = "OK" /\ remaining = 0
  /\ last = none /\ open = {}

(* vm_resume.  main.c calls it until it returns an error.                  *)
Resume ==
  /\ mode = "host" /\ program # <<>>
  /\ status = "OK" \/ (HostCalls /\ calls > 0)
  /\ vm' = [vm EXCEPT !.halted = FALSE, !.jmp = "resume"]
  /\ mode' = "resume" /\ status' = "OK" /\ remaining' = Count
  /\ calls' = IF status = "OK" THEN calls ELSE calls - 1
  /\ UNCHANGED <<program, last, open>>

(* One pass through vm_execute in the frame that set panic_jmp.            *)
ExecuteIn(m, frame, after) ==
  /\ program # <<>>
  /\ \E i \in Head(program) : \E c \in Outcomes(i) :
       LET n == Execute(m, i, c)
           ok == n.err = "OK"
       IN  /\ vm' = Settled(IF ok THEN n ELSE [n EXCEPT !.halted = TRUE])
           /\ status' = n.err
           /\ mode' = IF ok THEN after ELSE IF n.jmp = frame THEN "host" ELSE "wild"
           /\ open' = OpenAfter(i, n)
           /\ last' = i
  /\ program' = Tail(program)

ExecuteNext ==
  /\ mode = "resume" /\ ~vm.halted /\ ~vm.soft /\ remaining > 0
  /\ ExecuteIn(vm, "resume", "resume")
  /\ remaining' = remaining - 1
  /\ UNCHANGED calls

ResumeReturns ==
  /\ mode = "resume" /\ (vm.halted \/ vm.soft \/ remaining = 0)
  /\ mode' = "host"
  /\ UNCHANGED <<vm, status, remaining, program, calls, last, open>>

-----------------------------------------------------------------------------
(* What else cpu.h offers a host: fox32_step, _raise, _recover, _push_word *)
(* and _pop_word.                                                          *)
HostCall ==
  /\ HostCalls /\ mode = "host" /\ calls > 0
  /\ calls' = calls - 1
  /\ UNCHANGED <<remaining>>

Step ==
  /\ HostCall
  /\ ExecuteIn([vm EXCEPT !.jmp = "step"], "step", "host")

(* An error keeps what vm_raise has done before it.                        *)
Raised(vector) ==
  LET n == Raise(vm, vector)
  IN  /\ vm' = Settled(n)
      /\ status' = n.err
      /\ open' = StillSaved(n) \cup IF n.err # "OK" THEN {}
                                    ELSE {Interrupted(vm, n, vm.instr)}

HostRaise ==
  /\ HostCall
  /\ \E vector \in {0, EX - 1} : Raised(vector)
  /\ UNCHANGED <<mode, program, last>>

Recoverable == {"DIVZERO", "BADOPCODE", "BADCONDITION", "BADREGISTER",
                "BADIMMEDIATE", "FAULT_RD", "DEBUGGER"}

Recover ==
  /\ HostCall /\ status # "OK"
  /\ IF status \in Recoverable THEN Raised(Vector(status))
     ELSE status' = "CANTRECOVER" /\ UNCHANGED <<vm, open>>
  /\ UNCHANGED <<mode, program, last>>

SafeCall(n) ==
  /\ HostCall
  /\ vm' = Settled(n) /\ status' = n.err /\ open' = StillSaved(n)
  /\ UNCHANGED <<mode, program, last>>

HostPush == SafeCall(Push([vm EXCEPT !.jmp = "push"], vm.instr, SIZE32))
HostPop == SafeCall(Pop([vm EXCEPT !.jmp = "pop"], SIZE32))

Next ==
  \/ Resume \/ ExecuteNext \/ ResumeReturns
  \/ Step \/ HostRaise \/ Recover \/ HostPush \/ HostPop

Spec == Init /\ [][Next]_vars

-----------------------------------------------------------------------------
Executed == program' # program
(* Pointers and registers wrap at 32 bits, and nothing of an instruction   *)
(* that was broken off is left for the next call.                          *)
CpuTypeOK ==
  /\ IsMachine(vm) /\ AtRest(vm)
  /\ mode \in {"host", "resume", "wild"}
  /\ remaining \in 0 .. Count

(* vm_panic jumps into a call that has not returned.  int calls vm_raise,  *)
(* which points panic_jmp to its own frame and leaves it so: nothing may   *)
(* be executed after it before vm_step or vm_resume sets panic_jmp again.  *)
PanicsCaught == mode # "wild"

(* An error leaves the machine as it was before the instruction, so that   *)
(* a handler can go on with it (the comment above VM_IMPL_POP).  A loop    *)
(* may have counted, a reti may have taken the flags off the stack, and a  *)
(* break goes on behind itself.                                            *)
Counted(regs) == [regs EXCEPT ![RegisterCount - 1] = (@ - 1) % WordMod]

FaultsArePrecise ==
  [][Executed /\ status' # "OK" =>
       /\ \/ vm'.regs = vm.regs
          \/ last'.op \in Loops /\ vm'.regs = Counted(vm.regs)
       /\ <<vm'.mem, vm'.frame, vm'.exstack>> = <<vm.mem, vm.frame, vm.exstack>>
       /\ last'.op # "RETI" => vm'.stack = vm.stack /\ Flags(vm') = Flags(vm)
       /\ vm'.instr = IF status' = "DEBUGGER" THEN After(last') ELSE vm.instr]_vars

(* What is skipped when its condition fails is what is read when it holds: *)
(* an instruction that does not jump leaves pointer_instr behind all its   *)
(* operands, whichever way each was read, and a call pushes that address.  *)
(* An in with a displaced source reads a byte less.                        *)
InMisread(i) == i.op = "IN" /\ i.source.mode = REGPTR /\ i.offset = 1
Moving == Jumps \cup Loops \cup Calls \cup {"RET", "RETI", "INT"}

SkipsWhole ==
  [][Executed /\ status' = "OK" =>
       /\ last'.op \notin Moving /\ ~InMisread(last') =>
            vm'.instr = After(last')
       /\ last'.op \in Calls /\ vm'.stack # vm.stack /\ vm'.stack + SIZE32 <= RamSize =>
            Read(vm', vm'.stack, SIZE32).val = After(last')]_vars

(* After cmp, the conditions order the target and the source as unsigned   *)
(* numbers: exactly the instructions are executed that should be.          *)
Plain(o) == o.mode = IMM \/ (o.mode = REG /\ o.reg < RegisterCount)
Plainly(o, s) == Low(IF o.mode = IMM THEN o.val ELSE vm.regs[o.reg], s)

ComparesOrder ==
  [][Executed /\ status' = "OK" /\ last'.op = "CMP" /\ ~Skips(vm, last'.cond)
     /\ Plain(last'.target) /\ Plain(last'.source) =>
       LET b == Plainly(last'.target, last'.size)
           a == Plainly(last'.source, last'.size)
           when(cond) == ~Skips(vm', cond)
       IN  /\ when(1) <=> b = a
           /\ when(2) <=> b # a
           /\ when(3) <=> b < a
           /\ when(4) <=> b >= a
           /\ when(IFGT) <=> b > a
           /\ when(IFLTEQ) <=> b <= a]_vars

(* A handler that leaves with the stack pointer where vm_raise had put it, *)
(* above the vector, resumes what was interrupted: the instruction, the    *)
(* flags and the stack, across nested interrupts and the exception stack.  *)
ReturnsWhereInterrupted ==
  [][Executed /\ status' = "OK" /\ last'.op = "RETI" /\ ~Skips(vm, last'.cond) =>
       \A c \in open :
         c.top = vm.stack /\ c.top + SavedSize(c) <= RamSize =>
           vm'.instr = c.instr /\ Flags(vm') = c.flags /\ vm'.stack = c.stack]_vars

(* The laws of Alu for what two registers hold.                            *)
ArithmeticLaws ==
  mode = "host" /\ last = none =>
    \A s \in {SIZE8, SIZE16, SIZE32} : Laws(Low(vm.regs[0], s), Low(vm.regs[1], s), s)
=============================================================================
