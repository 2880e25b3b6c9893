--------------------------------- MODULE Alu ---------------------------------
(***************************************************************************)
(* The arithmetic of cpu.c: the OPER, CHECKED and ROTATE macros on values  *)
(* of one, two or four bytes.  A value is kept as a natural number below   *)
(* Modulus(size); Typed reads it as the C type of the operation.  The      *)
(* constant 1 and the promoted operands are of type int, which has IntBits *)
(* bits and, on the AVR, half the width of a word.                         *)
(***************************************************************************)
EXTENDS Integers, FiniteSetsExt

CONSTANTS ByteBits,  \* bits of a byte (8)
          IntBits    \* bits of an int of the compiler (16 on the AVR)

ASSUME AluAssumption ==
  /\ ByteBits \in Nat \ {0}
  /\ IntBits \in Nat \ {0}

(* Arithmetic, of which the provers know nothing: up to the width of a     *)
(* word the powers of two are what they are.                               *)
ASSUME PowersOfTwo ==
  \A n \in 0 .. 4 * ByteBits :
    /\ 2 ^ n \in Nat \ {0}
    /\ \A k \in 0 .. n : 2 ^ n = 2 ^ k * 2 ^ (n - k)

Width(s) == ByteBits * s
Modulus(s) == 2 ^ Width(s)
Low(v, s) == v % Modulus(s)

SignedOps == {"IMUL", "IDIV", "IREM", "ICMP", "SRA"}
Signed(v, s) == IF v < Modulus(s) \div 2 THEN v ELSE v - Modulus(s)
Typed(op, v, s) == IF op \in SignedOps THEN Signed(v, s) ELSE v

BitsOf(v, s) == {n \in 0 .. Width(s) - 1 : (v \div 2 ^ n) % 2 = 1}
PowersOf2 == [n \in 0 .. 4 * ByteBits |-> 2 ^ n]
ValueOf(bits) == SumFunctionOnSet(PowersOf2, bits)

-----------------------------------------------------------------------------
(* CHECKED_ADD, CHECKED_SUB, CHECKED_MUL: the result and whether it had to *)
(* be cut.                                                                 *)
Exact(op, b, a) ==
  CASE op \in {"ADD", "INC"}                  -> b + a
    [] op \in {"SUB", "DEC", "CMP", "ICMP"}   -> b - a
    [] op \in {"MUL", "IMUL"}                 -> b * a

Checked(op, b, a, s) ==
  LET e == Exact(op, Typed(op, b, s), Typed(op, a, s))
  IN  [x |-> Low(e, s), carry |-> Typed(op, Low(e, s), s) # e]

(* OPER_DIV and OPER_REM: C rounds towards zero.                           *)
Magnitude(n) == IF n < 0 THEN -n ELSE n
Toward0(b, a) ==
  LET q == Magnitude(b) \div Magnitude(a) IN IF (b < 0) = (a < 0) THEN q ELSE -q

Divided(op, b, a, s) ==
  LET tb == Typed(op, b, s)
      ta == Typed(op, a, s)
      q  == Toward0(tb, ta)
  IN  Low(IF op \in {"DIV", "IDIV"} THEN q ELSE tb - q * ta, s)

(* OPER_AND, OPER_XOR, OPER_OR, and the complement of NOT.                 *)
Logical(op, b, a, s) ==
  LET p == BitsOf(b, s)
      q == BitsOf(a, s)
  IN  ValueOf(CASE op = "AND" -> p \cap q
                [] op = "OR"  -> p \cup q
                [] op = "XOR" -> (p \cup q) \ (p \cap q))

Complement(v, s) == Modulus(s) - 1 - v

(* The bits that 1 << n has when it is widened to a value of s bytes.  The *)
(* bit of an int's sign is copied to all bits above it, and a count of the *)
(* width of an int or more shifts the one out.                             *)

OneShifted(n, s) ==
  IF n < IntBits - 1 THEN {n} \cap 0 .. Width(s) - 1
  ELSE IF n = IntBits - 1 THEN n .. Width(s) - 1 ELSE {}

(* Bits that a shift by n moves off the end are lost, however far they go; *)
(* a shift to the right behind all bits of a word leaves copies of the     *)
(* sign.                                                                   *)
ShiftedLeft(v, n, s) ==
  IF n >= Width(s) THEN 0 ELSE (v % 2 ^ (Width(s) - n)) * 2 ^ n
ShiftedRight(v, n) ==
  IF n <= 4 * ByteBits THEN v \div 2 ^ n ELSE IF v < 0 THEN -1 ELSE 0

RotatedLeft(v, n, s) ==
  IF n > Width(s) THEN 0
  ELSE ValueOf(BitsOf(ShiftedLeft(v, n, s), s)
               \cup BitsOf(ShiftedRight(v, Width(s) - n), s))
RotatedRightShort(v, n, s) ==
  IF n >= Width(s) THEN 0
  ELSE ValueOf(BitsOf(ShiftedRight(v, n), s)
               \cup BitsOf(ShiftedLeft(v, Width(s) - n - 1, s), s))

RotatedRight(v, n, s) ==
  IF n > Width(s) THEN 0
  ELSE ValueOf(BitsOf(ShiftedRight(v, n), s)
               \cup BitsOf(ShiftedLeft(v, Width(s) - n, s), s))

(* The macros that VM_IMPL_SHIFT is used with.  A count of the width of    *)
(* the promoted operand or more, and a negative one, is undefined in C;    *)
(* the loop that avr-gcc makes of a shift runs through, or not at all      *)
(* (unshifted).                                                            *)
Defined(op, n, s) ==
  CASE op \in {"BSE", "BCL"} -> n < IntBits
    [] op \in {"ROL", "ROR"} -> n <= Width(s)
    [] OTHER                 -> n < Width(s) \/ n < IntBits

Shifted(op, b, n, s, unshifted) ==
  LET m == IF unshifted /\ ~Defined(op, n, s) THEN 0 ELSE n IN
  CASE op = "SLA" -> ShiftedLeft(b, m, s)
    [] op = "SRL" -> ShiftedRight(b, m)
    [] op = "SRA" -> Low(ShiftedRight(Signed(b, s), m), s)
    [] op = "ROL" -> RotatedLeft(b, m, s)
    [] op = "ROR" -> RotatedRight(b, m, s)
    [] op = "BSE" -> ValueOf(BitsOf(b, s) \cup OneShifted(m, s))
    [] op = "BCL" -> ValueOf(BitsOf(b, s) \ OneShifted(m, s))

-----------------------------------------------------------------------------
(* Laws between operations that a program relies on, for operands b and a  *)
(* of s bytes.  An addition is undone by a subtraction, which borrows      *)
(* exactly when the addition carried; quotient and remainder make up the   *)
(* dividend; the two multiplications agree; rotations undo each other; a   *)
(* bit that was set tests as set, alone, and is cleared again.  The last   *)
(* holds below the sign bit of an int only.                                *)
AddLaw(b, a, s) ==
  LET sum == Checked("ADD", b, a, s)
  IN  Checked("SUB", sum.x, a, s) = [x |-> b, carry |-> sum.carry]

DivideLaw(b, a, s) ==
  a # 0 =>
    \A f \in {<<"DIV", "REM">>, <<"IDIV", "IREM">>} :
      LET q == Divided(f[1], b, a, s)
          r == Divided(f[2], b, a, s)
      IN  /\ Low(Typed(f[1], q, s) * Typed(f[1], a, s) + r, s) = b
          /\ Magnitude(Typed(f[2], r, s)) < Magnitude(Typed(f[2], a, s))

MultiplyLaw(b, a, s) ==
  LET m == Checked("MUL", b, a, s)
  IN  /\ Checked("IMUL", b, a, s).x = m.x
      /\ a # 0 => (m.carry <=> Divided("DIV", m.x, a, s) # b
                               \/ Divided("REM", m.x, a, s) # 0)

RotateLaw(b, s) ==
  \A n \in 0 .. Width(s) :
    /\ Shifted("ROR", Shifted("ROL", b, n, s, FALSE), n, s, FALSE) = b
    /\ Shifted("ROL", b, n, s, FALSE) = Shifted("ROR", b, Width(s) - n, s, FALSE)

BitLaw(b, s) ==
  \A n \in 0 .. Width(s) - 1 :
    n < IntBits - 1 =>
      LET set == Shifted("BSE", b, n, s, FALSE)
      IN  /\ BitsOf(set, s) = BitsOf(b, s) \cup {n}
          /\ OneShifted(n, s) \cap BitsOf(set, s) # {}
          /\ BitsOf(Shifted("BCL", set, n, s, FALSE), s) = BitsOf(b, s) \ {n}

Laws(b, a, s) ==
  /\ AddLaw(b, a, s)
  /\ DivideLaw(b, a, s)
  /\ MultiplyLaw(b, a, s)
  /\ RotateLaw(b, s)
  /\ BitLaw(b, s)
=============================================================================
