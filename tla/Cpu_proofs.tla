------------------------------ MODULE Cpu_proofs ------------------------------
(***************************************************************************)
(* The properties of Cpu for every size of the RAM and the ROM, every      *)
(* number of registers, every program and every host.                      *)
(*                                                                         *)
(* The proof goes along vm_execute.  First what a memory access, an        *)
(* operand and an operation of Alu yield: Same, Goes and Reads compare a   *)
(* machine with the one before.  Then each case of the switch on its own:  *)
(* it is broken off with the machine as it was (Precise), or it is done    *)
(* with pointer_instr_mut behind the operands (Done), and Performed is one *)
(* of the two.  Then vm_execute as a whole (Ended), the steps of the       *)
(* specification with the inductive invariant Inv, and the action          *)
(* properties.  The last part follows what vm_raise saves (Holds): that    *)
(* it is in the memory as long as its bytes are not overwritten (AllHeld), *)
(* and that reti reads it back.                                            *)
(*                                                                         *)
(* The laws of arithmetic come last.  A value and the set of its bits are  *)
(* the same thing (BitsAndValues), so that shifts and rotations move bits  *)
(* (ShiftsUp, ShiftsDown, Turned), and a signed number differs from its    *)
(* value by a multiple of the modulus (SignedIs).                          *)
(***************************************************************************)
EXTENDS Cpu, FiniteSetTheorems, NaturalsInduction, WellFoundedInduction, TLAPS

(* Sums over sets of indices, which a value in memory is.                  *)

LEMMA LeastExists ==
  ASSUME NEW S \in SUBSET Nat, S # {}
  PROVE  \E n \in S : \A o \in S : n <= o
<1>1. PICK n \in S : \A o \in S : <<o, n>> \notin OpToRel(<, Nat)
  BY NatLessThanWellFounded, WFMin
<1>2. ASSUME NEW l \in Nat, NEW k \in Nat, l < k
      PROVE  <<l, k>> \in OpToRel(<, Nat)
  BY <1>2, Zenon DEF OpToRel
<1>3. \A o \in S : ~ (o < n)
  BY <1>1, <1>2, Zenon
<1> QED
  BY <1>3

LEMMA SetInduction ==
  ASSUME NEW S, 0 \in S, \A n \in Nat : n \in S => n + 1 \in S
  PROVE  Nat \subseteq S
<1> SUFFICES ASSUME Nat \ S # {}
             PROVE  FALSE
  OBVIOUS
<1>1. PICK n \in Nat \ S : \A o \in Nat \ S : n <= o
  <2>1. Nat \ S \in SUBSET Nat
    OBVIOUS
  <2> QED
    BY <2>1, LeastExists
<1>2. n - 1 \in Nat
  BY <1>1
<1>3. n - 1 \in S
  BY <1>1, <1>2
<1>4. (n - 1) + 1 \in S
  BY <1>2, <1>3
<1> QED
  BY <1>1, <1>4

(* h is the sum of f over each set of indices, whichever is taken first.   *)
IsSum(h, f, D) ==
  /\ h \in [SUBSET D -> Nat] /\ h[{}] = 0
  /\ \A E \in SUBSET D : \A x \in E : h[E] = f[x] + h[E \ {x}]

LEMMA SumExists ==
  ASSUME NEW B \in Nat, NEW f \in [0 .. B - 1 -> Nat]
  PROVE  \E h : IsSum(h, f, 0 .. B - 1)
<1> DEFINE S == {W \in Nat : W <= B => \E h : IsSum(h, f, 0 .. W - 1)}
<1>1. 0 \in S
  <2> DEFINE h == [E \in SUBSET (0 .. -1) |-> 0]
  <2>1. IsSum(h, f, 0 .. -1)
    <3>1. 0 .. -1 = {}
      OBVIOUS
    <3> QED
      BY <3>1 DEF IsSum
  <2> QED
    BY <2>1
<1>2. ASSUME NEW W \in Nat, W \in S
      PROVE  W + 1 \in S
  <2> SUFFICES ASSUME W + 1 <= B
               PROVE  \E h : IsSum(h, f, 0 .. W)
    <3>1. (W + 1) - 1 = W /\ W + 1 \in Nat
      OBVIOUS
    <3> QED
      BY <3>1
  <2>1. PICK h : IsSum(h, f, 0 .. W - 1)
    BY <1>2
  <2> DEFINE D == 0 .. W - 1
             k == [E \in SUBSET (0 .. W) |-> h[E \ {W}] + IF W \in E THEN f[W] ELSE 0]
  <2>2. \A E \in SUBSET (0 .. W) : E \ {W} \in SUBSET D
    OBVIOUS
  <2>3. f[W] \in Nat /\ \A x \in D : f[x] \in Nat
    OBVIOUS
  <2>4. \A E \in SUBSET D : h[E] \in Nat
    BY <2>1 DEF IsSum
  <2>5. k \in [SUBSET (0 .. W) -> Nat]
    <3>1. ASSUME NEW E \in SUBSET (0 .. W)
          PROVE  h[E \ {W}] + (IF W \in E THEN f[W] ELSE 0) \in Nat
      BY <2>2, <2>3, <2>4
    <3> QED
      BY <3>1
  <2>6. k[{}] = 0
    <3>1. {} \ {W} = {} /\ {} \in SUBSET (0 .. W) /\ h[{}] = 0
      BY <2>1 DEF IsSum
    <3> QED
      BY <3>1
  <2>7. ASSUME NEW E \in SUBSET (0 .. W), NEW x \in E
        PROVE  k[E] = f[x] + k[E \ {x}]
    <3>1. /\ k[E] = h[E \ {W}] + IF W \in E THEN f[W] ELSE 0
          /\ k[E \ {x}] = h[(E \ {x}) \ {W}] + IF W \in E \ {x} THEN f[W] ELSE 0
      OBVIOUS
    <3> HIDE DEF k
    <3>2. h[E \ {W}] \in Nat /\ h[(E \ {x}) \ {W}] \in Nat
      BY <2>2, <2>4
    <3>3. CASE x = W
      <4>1. (E \ {x}) \ {W} = E \ {W} /\ W \in E /\ ~ (W \in E \ {x})
        BY <3>3
      <4>2. k[E] = h[E \ {W}] + f[W] /\ k[E \ {x}] = h[E \ {W}] + 0
        BY <3>1, <4>1, Zenon
      <4> QED
        BY <2>3, <3>2, <3>3, <4>2
    <3>4. CASE x # W
      <4>1. (E \ {W}) \ {x} = (E \ {x}) \ {W} /\ x \in E \ {W}
        BY <3>4
      <4>2. h[E \ {W}] = f[x] + h[(E \ {W}) \ {x}]
        BY <2>1, <2>2, <4>1, Zenon DEF IsSum
      <4>3. f[x] \in Nat
        BY <2>3, <3>4
      <4>4. W \in E <=> W \in E \ {x}
        BY <3>4
      <4>5. CASE W \in E
        <5>1. /\ k[E] = h[E \ {W}] + f[W] /\ k[E \ {x}] = h[(E \ {x}) \ {W}] + f[W]
              /\ h[E \ {W}] = f[x] + h[(E \ {x}) \ {W}]
          BY <3>1, <4>1, <4>2, <4>4, <4>5, Zenon
        <5> QED
          BY <2>3, <3>2, <4>3, <5>1
      <4>6. CASE W \notin E
        <5>1. /\ k[E] = h[E \ {W}] + 0 /\ k[E \ {x}] = h[(E \ {x}) \ {W}] + 0
              /\ h[E \ {W}] = f[x] + h[(E \ {x}) \ {W}]
          BY <3>1, <4>1, <4>2, <4>4, <4>6, Zenon
        <5> QED
          BY <3>2, <4>3, <5>1
      <4> QED
        BY <4>5, <4>6
    <3> QED
      BY <3>3, <3>4
  <2>8. IsSum(k, f, 0 .. W)
    <3> HIDE DEF k
    <3> QED
      BY <2>5, <2>6, <2>7 DEF IsSum
  <2> QED
    BY <2>8, Zenon
<1>3. B \in S
  <2> HIDE DEF S
  <2> QED
    BY <1>1, <1>2, SetInduction
<1> QED
  BY <1>3

LEMMA SumIsSum ==
  ASSUME NEW B \in Nat, NEW f, NEW h, IsSum(h, f, 0 .. B - 1),
         NEW E \in SUBSET (0 .. B - 1)
  PROVE  SumFunctionOnSet(f, E) = h[E]
<1> DEFINE Walk(g) ==
             [s \in SUBSET E |->
                IF s = {} THEN 0
                ELSE f[CHOOSE x \in s : TRUE] + g[s \ {CHOOSE x \in s : TRUE}]]
           H == CHOOSE g : g = Walk(g)
           k == [s \in SUBSET E |-> h[s]]
<1>1. SumFunctionOnSet(f, E) = H[E]
  BY DEF SumFunctionOnSet, FoldFunctionOnSet, MapThenFoldSet
<1>2. k = Walk(k)
  <2>1. ASSUME NEW s \in SUBSET E
        PROVE  h[s] = IF s = {} THEN 0
                      ELSE f[CHOOSE x \in s : TRUE] + k[s \ {CHOOSE x \in s : TRUE}]
    <3>1. CASE s = {}
      BY <3>1 DEF IsSum
    <3>2. CASE s # {}
      <4> DEFINE x == CHOOSE x \in s : TRUE
      <4>1. x \in s
        BY <3>2
      <4> HIDE DEF x
      <4>2. h[s] = f[x] + h[s \ {x}]
        BY <4>1 DEF IsSum
      <4>3. k[s \ {x}] = h[s \ {x}]
        OBVIOUS
      <4>4. h[s] = f[x] + k[s \ {x}]
        BY <4>2, <4>3
      <4> QED
        BY <3>2, <4>4 DEF x
    <3> QED
      BY <3>1, <3>2
  <2> QED
    BY <2>1
<1>3. H = Walk(H)
  <2>1. \E g : g = Walk(g)
    BY <1>2
  <2> QED
    BY <2>1, Zenon
<1>4. IsFiniteSet(E)
  <2>1. IsFiniteSet(0 .. B - 1)
    BY FS_Interval, 0 \in Int, B - 1 \in Int, Zenon
  <2> QED
    BY <2>1, FS_Subset
<1>5. \A s \in SUBSET E : H[s] = k[s]
  <2> DEFINE S == {n \in Nat : \A s \in SUBSET E : Cardinality(s) = n => H[s] = k[s]}
  <2>1. \A s \in SUBSET E : IsFiniteSet(s) /\ Cardinality(s) \in Nat
    BY <1>4, FS_Subset, FS_CardinalityType
  <2>2. ASSUME NEW s \in SUBSET E, s = {}
        PROVE  H[s] = k[s]
    <3>1. H[s] = 0 /\ k[s] = 0
      <4>1. Walk(H)[s] = 0 /\ Walk(k)[s] = 0
        BY <2>2
      <4> HIDE DEF H, k, Walk
      <4> QED
        BY <1>2, <1>3, <4>1
    <3> QED
      BY <3>1
  <2>3. ASSUME NEW s \in SUBSET E, s # {}
        PROVE  \E x \in s : H[s] = f[x] + H[s \ {x}] /\ k[s] = f[x] + k[s \ {x}]
    <3> DEFINE x == CHOOSE x \in s : TRUE
    <3>1. x \in s
      BY <2>3
    <3>2. Walk(H)[s] = f[x] + H[s \ {x}] /\ Walk(k)[s] = f[x] + k[s \ {x}]
      <4> HIDE DEF H, k
      <4> QED
        BY <2>3
    <3>3. H[s] = f[x] + H[s \ {x}] /\ k[s] = f[x] + k[s \ {x}]
      <4> HIDE DEF H, k, Walk, x
      <4> QED
        BY <1>2, <1>3, <3>2
    <3> HIDE DEF H, k, Walk, x
    <3> QED
      BY <3>1, <3>3
  <2> HIDE DEF H, k, Walk
  <2>4. 0 \in S
    <3>1. \A s \in SUBSET E : Cardinality(s) = 0 => s = {}
      BY <2>1, FS_EmptySet
    <3> QED
      BY <2>2, <3>1
  <2>5. ASSUME NEW n \in Nat, n \in S
        PROVE  n + 1 \in S
    <3> SUFFICES ASSUME NEW s \in SUBSET E, Cardinality(s) = n + 1
                 PROVE  H[s] = k[s]
      OBVIOUS
    <3>1. s # {}
      <4>1. Cardinality({}) = 0
        BY FS_EmptySet
      <4>2. n + 1 # 0
        OBVIOUS
      <4> QED
        BY <4>1, <4>2, Zenon
    <3>2. PICK x \in s : H[s] = f[x] + H[s \ {x}] /\ k[s] = f[x] + k[s \ {x}]
      BY <2>3, <3>1
    <3>3. Cardinality(s \ {x}) = n
      <4>1. Cardinality(s \ {x}) = Cardinality(s) - 1
        BY <2>1, FS_RemoveElement
      <4> QED
        BY <4>1
    <3>4. H[s \ {x}] = k[s \ {x}]
      BY <2>5, <3>3
    <3> QED
      BY <3>2, <3>4
  <2>6. Nat \subseteq S
    <3> HIDE DEF S
    <3> QED
      BY <2>4, <2>5, SetInduction
  <2> QED
    BY <2>1, <2>6
<1> QED
  BY <1>1, <1>5

(* A sum over some of the numbers below B, taken apart at any of them.     *)
LEMMA SumSplits ==
  ASSUME NEW B \in Nat, NEW f \in [0 .. B - 1 -> Nat], NEW E \in SUBSET (0 .. B - 1)
  PROVE  /\ SumFunctionOnSet(f, {}) = 0 /\ SumFunctionOnSet(f, E) \in Nat
         /\ \A x \in E : SumFunctionOnSet(f, E) = f[x] + SumFunctionOnSet(f, E \ {x})
<1>1. PICK h : IsSum(h, f, 0 .. B - 1)
  BY SumExists
<1>2. \A F \in SUBSET (0 .. B - 1) : SumFunctionOnSet(f, F) = h[F]
  BY <1>1, SumIsSum
<1>3. h[{}] = 0 /\ \A x \in E : h[E] = f[x] + h[E \ {x}]
  BY <1>1, Zenon DEF IsSum
<1>4. h[E] \in Nat
  BY <1>1 DEF IsSum
<1>5. /\ {} \in SUBSET (0 .. B - 1)
      /\ \A x \in E : E \ {x} \in SUBSET (0 .. B - 1)
  OBVIOUS
<1> QED
  BY <1>2, <1>3, <1>4, <1>5, Zenon

-----------------------------------------------------------------------------
(* Division, powers of two, and bytes.                                     *)

(* Division by d is what it is.                                            *)
LEMMA DivisionIsUnique ==
  ASSUME NEW d \in Nat \ {0}, NEW q \in Int, NEW r \in 0 .. d - 1
  PROVE  (d * q + r) \div d = q /\ (d * q + r) % d = r
OBVIOUS

LEMMA Division ==
  ASSUME NEW d \in Nat \ {0}, NEW n \in Int
  PROVE  /\ n \div d \in Int /\ n % d \in 0 .. d - 1
         /\ n = d * (n \div d) + (n % d)
         /\ n >= 0 => n \div d >= 0 /\ n \div d <= n
<1>1. n % d \in 0 .. d - 1
  OBVIOUS
<1>2. n = d * (n \div d) + (n % d) /\ n \div d \in Int
  OBVIOUS
<1>3. n >= 0 => n \div d >= 0 
  BY <1>1, <1>2
<1>4. n >= 0 => n \div d <= n
  <2>1. ASSUME NEW q \in Nat, NEW r \in Nat, n = d * q + r
        PROVE  q <= n
    <3>1. d * q >= q
      OBVIOUS
    <3> QED
      BY <2>1, <3>1
  <2> QED
    BY <1>1, <1>2, <1>3, <2>1
<1> QED
  BY <1>1, <1>2, <1>3, <1>4

(* Whole multiples of d do not change the remainder.                       *)
LEMMA Remainders ==
  ASSUME NEW d \in Nat \ {0}, NEW n \in Int, NEW k \in Int
  PROVE  /\ (d * k + n) \div d = k + (n \div d)
         /\ (d * k + n) % d = n % d
<1> DEFINE q == n \div d
           r == n % d
<1>1. q \in Int /\ r \in 0 .. d - 1 /\ n = d * q + r
  BY Division
<1> HIDE DEF q, r
<1>2. d * k + n = d * (k + q) + r /\ k + q \in Int
  BY <1>1
<1> QED
  BY <1>1, <1>2, DivisionIsUnique DEF q, r

LEMMA Powers ==
  /\ ByteBits \in Nat /\ ByteBits >= 4 /\ 4 * ByteBits \in Nat
  /\ PowersOf2 \in [0 .. 4 * ByteBits -> Nat \ {0}]
  /\ \A n \in 0 .. 4 * ByteBits : PowersOf2[n] = 2 ^ n /\ 2 ^ n \in Nat \ {0}
  /\ 2 ^ 0 = 1 /\ 2 ^ 1 = 2 /\ 2 ^ 2 = 4 /\ 2 ^ 3 = 8 /\ 2 ^ 4 = 16
  /\ \A n \in 0 .. 4 * ByteBits : \A k \in 0 .. n : 2 ^ n = 2 ^ k * 2 ^ (n - k)
  /\ \A n \in 0 .. 4 * ByteBits - 1 : 2 ^ (n + 1) = 2 * 2 ^ n
  /\ \A n \in 0 .. 4 * ByteBits : \A k \in 0 .. n : 2 ^ k <= 2 ^ n
<1>1. ByteBits \in Nat /\ ByteBits >= 4 /\ 4 * ByteBits \in Nat
  BY AluAssumption, CpuAssumption
<1>2. \A n \in 0 .. 4 * ByteBits : 2 ^ n \in Nat \ {0}
  BY PowersOfTwo
<1>3. PowersOf2 \in [0 .. 4 * ByteBits -> Nat \ {0}]
  BY <1>2 DEF PowersOf2
<1>4. \A n \in 0 .. 4 * ByteBits : PowersOf2[n] = 2 ^ n
  BY DEF PowersOf2
<1>5. \A n \in 0 .. 4 * ByteBits : \A k \in 0 .. n : 2 ^ n = 2 ^ k * 2 ^ (n - k)
  BY PowersOfTwo
<1>6. 2 ^ 0 = 1 /\ 2 ^ 1 = 2 /\ 2 ^ 2 = 4 /\ 2 ^ 3 = 8 /\ 2 ^ 4 = 16
  OBVIOUS
<1>7. ASSUME NEW n \in 0 .. 4 * ByteBits - 1
      PROVE  2 ^ (n + 1) = 2 * 2 ^ n
  <2>1. n + 1 \in 0 .. 4 * ByteBits /\ 1 \in 0 .. n + 1 /\ (n + 1) - 1 = n
    BY <1>1
  <2>2. 2 ^ (n + 1) = 2 ^ 1 * 2 ^ ((n + 1) - 1)
    BY <1>5, <2>1, Zenon
  <2> QED
    BY <1>6, <2>1, <2>2
<1>8. ASSUME NEW n \in 0 .. 4 * ByteBits, NEW k \in 0 .. n
      PROVE  2 ^ k <= 2 ^ n
  <2>1. ASSUME NEW a \in Nat \ {0}, NEW b \in Nat \ {0}
        PROVE  a <= a * b
    OBVIOUS
  <2>2. k \in 0 .. 4 * ByteBits /\ n - k \in 0 .. 4 * ByteBits
    BY <1>1
  <2>3. 2 ^ n = 2 ^ k * 2 ^ (n - k)
    BY <1>5
  <2>4. 2 ^ k \in Nat \ {0} /\ 2 ^ (n - k) \in Nat \ {0}
    BY <1>2, <2>2
  <2> QED
    BY <2>1, <2>3, <2>4
<1> QED
  BY <1>1, <1>2, <1>3, <1>4, <1>5, <1>6, <1>7, <1>8

Size == {SIZE8, SIZE16, SIZE32}

LEMMA Sizes ==
  /\ WordMod \in Nat \ {0} /\ Modulus(SIZE8) \in Nat \ {0}
  /\ \A s \in Size : Modulus(s) \in Nat \ {0} /\ Modulus(s) <= WordMod
  /\ Modulus(SIZE8) >= 16
  /\ RamSize \in Nat \ {0} /\ RamSize <= WordMod
  /\ 0 \in Word /\ Byte \subseteq Word /\ Word \subseteq Nat
  /\ SIZE32 = 4 /\ SIZE16 = 2 /\ SIZE8 = 1 /\ WordMod >= 16
  /\ Size = {1, 2, 4} /\ Size \subseteq Nat
<1>1. /\ SIZE32 = 4 /\ SIZE16 = 2 /\ SIZE8 = 1
      /\ Size = {1, 2, 4} /\ Size \subseteq Nat
  BY DEF SIZE32, SIZE16, SIZE8, Size
<1>2. \A s \in {0, 1, 2, 3, 4} : Width(s) \in 0 .. 4 * ByteBits /\ Width(4) = 4 * ByteBits
  <2>1. ByteBits \in Nat
    BY Powers
  <2> QED
    BY <2>1 DEF Width
<1>3. \A s \in {0, 1, 2, 3, 4} : Modulus(s) \in Nat \ {0} /\ Modulus(s) <= Modulus(4)
  <2>1. \A n \in 0 .. 4 * ByteBits : n \in 0 .. 4 * ByteBits /\ 4 * ByteBits \in 0 .. 4 * ByteBits
    BY Powers
  <2>2. \A n \in 0 .. 4 * ByteBits : 2 ^ n \in Nat \ {0} /\ 2 ^ n <= 2 ^ (4 * ByteBits)
    BY <2>1, Powers, Zenon
  <2> QED
    BY <1>2, <2>2 DEF Modulus
<1>4. Modulus(1) >= 16
  <2>1. 4 \in 0 .. ByteBits /\ ByteBits \in 0 .. 4 * ByteBits
    BY Powers
  <2>2. 2 ^ ByteBits >= 2 ^ 4 /\ 2 ^ 4 = 16 /\ 2 ^ ByteBits \in Nat
    BY <2>1, Powers
  <2>3. Width(1) = ByteBits
    BY Powers DEF Width
  <2> QED
    BY <2>2, <2>3 DEF Modulus
<1>5. WordMod = Modulus(4)
  BY <1>1 DEF WordMod
<1>6. RamSize \in Nat \ {0} /\ RamSize <= WordMod
  BY CpuAssumption, <1>3, <1>5
<1>7. Byte = 0 .. Modulus(1) - 1 /\ Word = 0 .. Modulus(4) - 1
  BY <1>1 DEF Byte, Word, WordMod
<1> HIDE DEF Byte, Word
<1>8. 0 \in Word /\ Byte \subseteq Word /\ Word \subseteq Nat
  BY <1>3, <1>7
<1> QED
  BY <1>1, <1>3, <1>4, <1>5, <1>6, <1>8

(* The value of bits below w is below the power of w.                      *)
LEMMA ValueFits ==
  \A w \in 0 .. 4 * ByteBits : \A bits \in SUBSET (0 .. w - 1) :
    ValueOf(bits) \in 0 .. 2 ^ w - 1
<1> DEFINE S == {w \in Nat : w <= 4 * ByteBits =>
                   \A bits \in SUBSET (0 .. w - 1) : ValueOf(bits) \in 0 .. 2 ^ w - 1}
           B == 4 * ByteBits + 1
<1>1. B \in Nat /\ PowersOf2 \in [0 .. B - 1 -> Nat]
  <2>1. 4 * ByteBits \in Nat /\ PowersOf2 \in [0 .. 4 * ByteBits -> Nat]
    BY Powers
  <2>2. B \in Nat /\ B - 1 = 4 * ByteBits
    BY <2>1
  <2> QED
    BY <2>1, <2>2
<1>2. \A E \in SUBSET (0 .. B - 1) :
        /\ ValueOf({}) = 0 /\ ValueOf(E) \in Nat
        /\ \A x \in E : ValueOf(E) = PowersOf2[x] + ValueOf(E \ {x})
  BY <1>1, SumSplits DEF ValueOf
<1>3. 0 \in S
  <2>1. 0 .. 0 - 1 = {}
    OBVIOUS
  <2>2. ValueOf({}) = 0 /\ 2 ^ 0 = 1
    BY <1>2, Powers
  <2>3. \A bits \in SUBSET (0 .. 0 - 1) : ValueOf(bits) \in 0 .. 2 ^ 0 - 1
    <3>1. 0 \in 0 .. 1 - 1
      OBVIOUS
    <3>2. \A bits \in SUBSET (0 .. 0 - 1) : bits = {}
      BY <2>1
    <3> QED
      BY <2>2, <3>1, <3>2, Zenon
  <2> QED
    BY <2>3
<1>4. ASSUME NEW w \in Nat, w \in S
      PROVE  w + 1 \in S
  <2> SUFFICES ASSUME w + 1 <= 4 * ByteBits, NEW bits \in SUBSET (0 .. w)
               PROVE  ValueOf(bits) \in 0 .. 2 ^ (w + 1) - 1
    <3>1. (w + 1) - 1 = w
      OBVIOUS
    <3> QED
      BY <3>1
  <2>1. w \in 0 .. 4 * ByteBits - 1 /\ w \in 0 .. 4 * ByteBits /\ w <= 4 * ByteBits
    BY Powers
  <2>2. 2 ^ (w + 1) = 2 * 2 ^ w /\ 2 ^ w \in Nat \ {0} /\ PowersOf2[w] = 2 ^ w
    BY <2>1, Powers
  <2>3. bits \in SUBSET (0 .. B - 1) /\ bits \ {w} \in SUBSET (0 .. w - 1)
    <3>1. 0 .. w \subseteq 0 .. B - 1
      <4>1. B - 1 = 4 * ByteBits /\ 4 * ByteBits \in Nat
        BY Powers
      <4> HIDE DEF B
      <4> QED
        BY <2>1, <4>1
    <3>2. \A n \in 0 .. w : n # w => n \in 0 .. w - 1
      OBVIOUS
    <3> QED
      BY <3>1, <3>2
  <2>4. ValueOf(bits \ {w}) \in 0 .. 2 ^ w - 1
    BY <1>4, <2>1, <2>3
  <2>5. CASE w \in bits
    <3>1. ValueOf(bits) = 2 ^ w + ValueOf(bits \ {w})
      BY <1>2, <2>2, <2>3, <2>5
    <3> DEFINE p == 2 ^ w
               q == 2 ^ (w + 1)
    <3>2. q = 2 * p /\ p \in Nat \ {0} /\ ValueOf(bits \ {w}) \in 0 .. p - 1
      BY <2>2, <2>4
    <3> HIDE DEF p, q
    <3>3. ValueOf(bits) = p + ValueOf(bits \ {w})
      BY <3>1 DEF p
    <3>4. ValueOf(bits) \in 0 .. q - 1
      BY <3>2, <3>3
    <3> QED
      BY <3>4 DEF q
  <2>6. CASE w \notin bits
    <3> DEFINE p == 2 ^ w
               q == 2 ^ (w + 1)
    <3>1. bits \ {w} = bits
      BY <2>6
    <3>2. q = 2 * p /\ p \in Nat \ {0} /\ ValueOf(bits) \in 0 .. p - 1
      BY <2>2, <2>4, <3>1
    <3> HIDE DEF p, q
    <3>3. ValueOf(bits) \in 0 .. q - 1
      BY <3>2
    <3> QED
      BY <3>3 DEF q
  <2> QED
    BY <2>5, <2>6
<1>5. Nat \subseteq S
  <2> HIDE DEF S
  <2> QED
    BY <1>3, <1>4, SetInduction
<1> QED
  BY <1>5

LEMMA Moduli ==
  /\ Modulus(0) = 1
  /\ \A n \in 0 .. 4 : Modulus(n) \in Nat \ {0}
  /\ \A n \in 0 .. 3 : Modulus(n + 1) = Modulus(n) * Modulus(1)
<1>1. ByteBits \in Nat /\ 2 ^ 0 = 1
  BY Powers
<1>2. \A n \in 0 .. 4 : Width(n) \in 0 .. 4 * ByteBits
  <2>1. \A n \in {0, 1, 2, 3, 4} : Width(n) \in 0 .. 4 * ByteBits
    BY <1>1 DEF Width
  <2> QED
    BY <2>1
<1>3. \A n \in 0 .. 3 : /\ Width(n) \in 0 .. Width(n + 1) /\ n + 1 \in 0 .. 4
                        /\ Width(n + 1) - Width(n) = Width(1)
  <2>1. \A n \in {0, 1, 2, 3} : /\ Width(n) \in 0 .. Width(n + 1) /\ n + 1 \in 0 .. 4
                                /\ Width(n + 1) - Width(n) = Width(1)
    BY <1>1 DEF Width
  <2> QED
    BY <2>1
<1>4. Width(0) = 0
  BY <1>1 DEF Width
<1>5. \A n \in 0 .. 4 : Modulus(n) \in Nat \ {0}
  BY <1>2, Powers, Zenon DEF Modulus
<1>6. \A n \in 0 .. 3 : Modulus(n + 1) = Modulus(n) * Modulus(1)
  BY <1>2, <1>3, Powers, Zenon DEF Modulus
<1> QED
  BY <1>1, <1>4, <1>5, <1>6 DEF Modulus

(* A byte more at the upper end.                                           *)
LEMMA ByteMore ==
  ASSUME NEW p \in Nat \ {0}, NEW e \in Nat \ {0}, NEW v \in Nat
  PROVE  v % (p * e) = ((v \div p) % e) * p + (v % p)
<1> DEFINE q == v \div p
           r == v % p
           t == q \div e
           c == q % e
<1>1. q \in Nat /\ r \in 0 .. p - 1 /\ v = p * q + r
  <2>1. q \in Int /\ r \in 0 .. p - 1 /\ v = p * q + r /\ (v >= 0 => q >= 0)
    BY Division, v \in Int, Zenon
  <2> HIDE DEF q, r
  <2> QED
    BY <2>1
<1>2. t \in Nat /\ c \in 0 .. e - 1 /\ q = e * t + c
  <2> HIDE DEF q, r
  <2>1. q \in Int
    BY <1>1
  <2>2. t \in Int /\ c \in 0 .. e - 1 /\ q = e * t + c /\ (q >= 0 => t >= 0)
    BY <2>1, Division, Zenon
  <2> HIDE DEF t, c
  <2> QED
    BY <1>1, <2>2
<1> HIDE DEF q, r, t, c
<1>3. v = (p * e) * t + (c * p + r)
  <2>1. p * (e * t + c) = (p * e) * t + c * p
    BY <1>2
  <2> QED
    BY <1>1, <1>2, <2>1
<1>4. c * p + r \in 0 .. p * e - 1
  <2>1. PICK k \in Nat : e = c + 1 + k
    <3>1. e - c - 1 \in Nat /\ e = c + 1 + (e - c - 1)
      BY <1>2
    <3> QED
      BY <3>1
  <2>2. p * e = c * p + p + p * k /\ p * k \in Nat /\ c * p \in Nat
    BY <1>2, <2>1
  <2> QED
    BY <1>1, <2>2
<1>5. p * e \in Nat \ {0}
  OBVIOUS
<1>6. v % (p * e) = c * p + r
  <2> DEFINE d == p * e
             z == c * p + r
  <2>1. d \in Nat \ {0} /\ z \in 0 .. d - 1 /\ v = d * t + z /\ t \in Int
    BY <1>2, <1>3, <1>4, <1>5
  <2> HIDE DEF d, z
  <2>2. v % d = z
    BY <2>1, DivisionIsUnique
  <2> QED
    BY <2>2 DEF d, z
<1> QED
  <2>1. (v \div p) % e = c /\ v % p = r
    BY Zenon DEF q, r, c
  <2> QED
    BY <1>6, <2>1, Zenon

LEMMA ByteFits ==
  ASSUME NEW p \in Nat \ {0}, NEW e \in Nat \ {0}, NEW c \in 0 .. e - 1, NEW r \in 0 .. p - 1
  PROVE  c * p + r \in 0 .. p * e - 1
<1>1. PICK k \in Nat : e = c + 1 + k
  <2>1. e - c - 1 \in Nat /\ e = c + 1 + (e - c - 1)
    OBVIOUS
  <2> QED
    BY <2>1
<1>2. p * e = c * p + p + p * k /\ p * k \in Nat /\ c * p \in Nat
  BY <1>1
<1> QED
  BY <1>2

(* What vm_read16 and vm_read32 put together is a value of as many bytes,  *)
(* and the value that the bytes were taken from.                           *)
LEMMA BytesJoined ==
  ASSUME NEW s \in Size, NEW c \in [0 .. s - 1 -> Byte]
  PROVE  LET x == SumFunction([i \in 0 .. s - 1 |-> c[i] * Modulus(i)]) IN
         /\ x \in 0 .. Modulus(s) - 1
         /\ \A v \in 0 .. Modulus(s) - 1 :
              (\A i \in 0 .. s - 1 : c[i] = (v \div Modulus(i)) % Modulus(SIZE8)) => x = v
<1> DEFINE f == [i \in 0 .. s - 1 |-> c[i] * Modulus(i)]
           P(n) == SumFunctionOnSet(f, 0 .. n - 1)
           M(n) == Modulus(n)
           e == Modulus(1)
<1>1. s \in 0 .. 4 /\ s \in Nat /\ SIZE8 = 1
  BY Sizes
<1>2. \A i \in 0 .. s - 1 : M(i) \in Nat \ {0} /\ c[i] \in 0 .. e - 1
  <2>1. \A i \in 0 .. s - 1 : i \in 0 .. 4
    BY <1>1
  <2>2. Byte = 0 .. e - 1
    BY <1>1 DEF Byte
  <2> QED
    BY <2>1, <2>2, Moduli
<1>3. e \in Nat \ {0} /\ M(0) = 1
  BY Moduli
<1>4. f \in [0 .. s - 1 -> Nat]
  <2>1. \A i \in 0 .. s - 1 : c[i] * M(i) \in Nat
    <3> HIDE DEF M, e
    <3> QED
      BY <1>2, <1>3
  <2> QED
    BY <2>1
<1>5. P(0) = 0
  <2>1. 0 .. 0 - 1 = {}
    OBVIOUS
  <2>2. SumFunctionOnSet(f, {}) = 0
    <3> HIDE DEF f
    <3> QED
      BY <1>1, <1>4, SumSplits
  <2> QED
    BY <2>1, <2>2
<1>6. ASSUME NEW n \in 0 .. s - 1
      PROVE  P(n + 1) = c[n] * M(n) + P(n)
  <2>1. 0 .. n \in SUBSET (0 .. s - 1) /\ n \in 0 .. n /\ (0 .. n) \ {n} = 0 .. n - 1
    BY <1>1
  <2>2. SumFunctionOnSet(f, 0 .. n) = f[n] + SumFunctionOnSet(f, (0 .. n) \ {n})
    <3> DEFINE E == 0 .. n
    <3>1. E \in SUBSET (0 .. s - 1) /\ n \in E
      BY <2>1
    <3> HIDE DEF f, E
    <3>2. SumFunctionOnSet(f, E) = f[n] + SumFunctionOnSet(f, E \ {n})
      BY <1>1, <1>4, <3>1, SumSplits
    <3> QED
      BY <3>2 DEF E
  <2>3. (n + 1) - 1 = n
    BY <1>1
  <2> QED
    BY <2>1, <2>2, <2>3
<1>7. \A n \in 0 .. s - 1 : n \in 0 .. 3 /\ M(n + 1) = M(n) * e /\ M(n) \in Nat \ {0}
  <2>1. \A n \in 0 .. s - 1 : n \in 0 .. 3 /\ n \in 0 .. 4
    BY <1>1
  <2> QED
    BY <2>1, Moduli, Zenon
<1> DEFINE Fits(n) == P(n) \in 0 .. M(n) - 1
<1> HIDE DEF f, P, M
<1>8. Fits(s)
  <2>1. ASSUME NEW n \in 0 .. s - 1, Fits(n)
        PROVE  Fits(n + 1)
    <3>1. M(n) \in Nat \ {0} /\ c[n] \in 0 .. e - 1 /\ P(n) \in 0 .. M(n) - 1
      BY <1>2, <2>1
    <3>2. c[n] * M(n) + P(n) \in 0 .. M(n) * e - 1
      BY <1>3, <3>1, ByteFits
    <3> QED
      BY <1>6, <1>7, <3>2, Zenon
  <2>2. Fits(0)
    BY <1>3, <1>5
  <2>3. Fits(s)
    <3> DEFINE S == {n \in Nat : n <= s => Fits(n)}
    <3>1. 0 \in S
      BY <2>2
    <3>2. ASSUME NEW n \in Nat, n \in S
          PROVE  n + 1 \in S
      <4>1. n + 1 <= s => n \in 0 .. s - 1 /\ n <= s
        BY <1>1
      <4> HIDE DEF Fits
      <4> QED
        BY <2>1, <3>2, <4>1
    <3>3. s \in S
      <4> HIDE DEF S
      <4> QED
        BY <1>1, <3>1, <3>2, SetInduction
    <3> QED
      BY <1>1, <3>3
  <2> QED
    BY <2>3
<1>9. ASSUME NEW v \in 0 .. M(s) - 1,
             \A i \in 0 .. s - 1 : c[i] = (v \div M(i)) % e
      PROVE  P(s) = v
  <2>1. M(s) \in Nat \ {0} /\ v \in Nat
    <3>1. M(s) \in Nat \ {0}
      BY <1>1, Moduli DEF M
    <3> QED
      BY <3>1
  <2> DEFINE Has(n) == P(n) = v % M(n)
  <2>2. Has(0)
    BY <1>3, <1>5, <2>1
  <2>3. ASSUME NEW n \in 0 .. s - 1, Has(n)
        PROVE  Has(n + 1)
    <3>1. v % (M(n) * e) = ((v \div M(n)) % e) * M(n) + (v % M(n))
      BY <1>3, <1>7, <2>1, ByteMore
    <3>2. P(n + 1) = c[n] * M(n) + P(n)
      BY <1>6
    <3> QED
      <4>1. M(n + 1) = M(n) * e /\ c[n] = (v \div M(n)) % e /\ P(n) = v % M(n)
        BY <1>7, <1>9, <2>3, Zenon
      <4>2. v % M(n + 1) = c[n] * M(n) + P(n)
        <5> HIDE DEF e
        <5> QED
          BY <3>1, <4>1
      <4> QED
        BY <3>2, <4>2
  <2>4. Has(s)
    <3> DEFINE S == {n \in Nat : n <= s => Has(n)}
    <3>1. 0 \in S
      BY <2>2
    <3>2. ASSUME NEW n \in Nat, n \in S
          PROVE  n + 1 \in S
      <4>1. n + 1 <= s => n \in 0 .. s - 1 /\ n <= s
        BY <1>1
      <4> HIDE DEF Has
      <4> QED
        BY <2>3, <3>2, <4>1
    <3>3. s \in S
      <4> HIDE DEF S
      <4> QED
        BY <1>1, <3>1, <3>2, SetInduction
    <3> QED
      BY <1>1, <3>3
  <2>5. v % M(s) = v
    BY <2>1
  <2> QED
    BY <2>4, <2>5
<1>10. DOMAIN f = 0 .. s - 1
  BY DEF f
<1>11. SumFunction(f) = P(s)
  BY <1>10, Zenon DEF SumFunction, P
<1>12. SIZE8 = 1
  BY <1>1
<1> QED
  BY <1>8, <1>9, <1>11, <1>12 DEF f, M

-----------------------------------------------------------------------------
(* A machine, and what a read leaves of it.                                *)

LEMMA WordIsNat ==
  \A w \in Word : w \in Nat /\ w \in Int /\ w < WordMod
BY Sizes DEF Word

LEMMA RomByte ==
  ASSUME NEW a \in Nat, ~ (a < RamSize), Readable(a)
  PROVE  Rom[RomAddress(a)] \in Byte
<1>1. RomSize \in Nat /\ Rom \in [0 .. RomSize - 1 -> Byte] /\ RomStart \in Nat
  BY CpuAssumption
<1>2. a \in RomStart .. WordMod - 2 /\ RomAddress(a) < RomSize
  BY DEF Readable, InRom
<1>3. RomAddress(a) \in Nat
  <2>1. CASE Window(a) = {}
    BY <1>1, <1>2, <2>1 DEF RomAddress
  <2>2. CASE Window(a) # {}
    <3> DEFINE w == CHOOSE w \in Window(a) : TRUE
    <3>1. w \in Window(a)
      BY <2>2, Zenon
    <3>2. /\ w \in DOMAIN Windows /\ w \in Nat /\ Windows[w] \in Nat /\ WindowSize \in Nat
          /\ a \in w .. w + WindowSize - 1
      BY <3>1, CpuAssumption DEF Window
    <3>3. RomAddress(a) = Windows[w] + (a - w)
      BY <2>2, Zenon DEF RomAddress
    <3> HIDE DEF w
    <3> QED
      BY <3>2, <3>3
  <2> QED
    BY <2>1, <2>2
<1> QED
  BY <1>1, <1>2, <1>3

LEMMA ByteType ==
  ASSUME NEW m, IsMachine(m), NEW a \in Nat, Readable(a)
  PROVE  ByteAt(m, a) \in Byte
<1>1. 0 \in Byte /\ RamSize \in Nat
  BY Sizes DEF Byte
<1>2. CASE a < RamSize
  BY <1>1, <1>2 DEF ByteAt, IsMachine
<1>3. CASE ~ (a < RamSize)
  BY <1>1, <1>3, RomByte DEF ByteAt
<1> QED
  BY <1>2, <1>3

LEMMA ValueType ==
  ASSUME NEW m, IsMachine(m), NEW a \in Word, NEW s \in Size,
         {i \in 0 .. s - 1 : ~ Readable(a + i)} = {}
  PROVE  \E v \in 0 .. Modulus(s) - 1 : Read(m, a, s) = [m EXCEPT !.val = v]
<1> DEFINE c == [i \in 0 .. s - 1 |-> ByteAt(m, a + i)]
           x == SumFunction([i \in 0 .. s - 1 |-> c[i] * Modulus(i)])
<1>1. c \in [0 .. s - 1 -> Byte]
  <2>1. a \in Nat /\ \A i \in 0 .. s - 1 : a + i \in Nat /\ Readable(a + i)
    <3>1. \A i \in 0 .. s - 1 : Readable(a + i) /\ i \in Nat
      OBVIOUS
    <3>2. a \in Nat
      BY WordIsNat
    <3> QED
      BY <3>1, <3>2
  <2> QED
    BY <2>1, ByteType
<1>2. x \in 0 .. Modulus(s) - 1
  <2> HIDE DEF c
  <2> QED
    BY <1>1, BytesJoined
<1>3. x = SumFunction([i \in 0 .. s - 1 |-> ByteAt(m, a + i) * Modulus(i)])
  <2>1. [i \in 0 .. s - 1 |-> c[i] * Modulus(i)]
        = [i \in 0 .. s - 1 |-> ByteAt(m, a + i) * Modulus(i)]
    OBVIOUS
  <2> QED
    BY <2>1
<1> HIDE DEF x
<1>4. Read(m, a, s) = [m EXCEPT !.val = x]
  BY <1>3, Zenon DEF Read
<1> QED
  BY <1>2, <1>4

-----------------------------------------------------------------------------
(* What an instruction does not touch before its last step, what no        *)
(* ordinary instruction touches, and the errors of one.                    *)
Control(m) == <<m.instr, m.intr, m.swap, m.halted, m.soft, m.mmu, m.jmp>>
Data(m) == <<m.stack, m.exstack, m.frame, m.regs, m.mem>>
FlagsOf(m) == <<m.zero, m.carry>>
Same(n, m) == Control(n) = Control(m) /\ Data(n) = Data(m) /\ FlagsOf(n) = FlagsOf(m)

OperandErrors == {"FAULT_RD", "BADREGISTER", "BADIMMEDIATE"}

(* n is m after d bytes of the instruction, or an error that leaves        *)
(* everything as it was.                                                   *)
Goes(n, m, d) ==
  /\ IsMachine(n) /\ n.err \in OperandErrors \cup {"OK"}
  /\ Control(n) = Control(m)
  /\ n.err # "OK" => Same(n, m)
  /\ n.err = "OK" => n.mut = (m.mut + d) % WordMod

(* It has only read a value of s bytes.                                    *)
Reads(n, m, d, s) ==
  /\ Goes(n, m, d) /\ Same(n, m)
  /\ n.err = "OK" => n.val \in 0 .. Modulus(s) - 1

LEMMA Fields ==
  ASSUME NEW m, IsMachine(m)
  PROVE  /\ m.instr \in Word /\ m.mut \in Word /\ m.stack \in Word
         /\ m.exstack \in Word /\ m.frame \in Word /\ m.operand \in Word
         /\ m.val \in Word /\ m.regs \in [0 .. RegisterCount - 1 -> Word]
         /\ m.err \in Errors /\ m.jmp \in Frames
         /\ m.zero \in BOOLEAN /\ m.carry \in BOOLEAN /\ m.intr \in BOOLEAN
         /\ m.swap \in BOOLEAN /\ m.halted \in BOOLEAN
BY DEF IsMachine

(* Changes of one field.                                                   *)
LEMMA NewMut ==
  ASSUME NEW m, IsMachine(m), NEW w \in Word
  PROVE  LET n == [m EXCEPT !.mut = w] IN
         IsMachine(n) /\ Same(n, m) /\ n.mut = w /\ n.err = m.err /\ n.val = m.val
BY DEF IsMachine, Same, Control, Data, FlagsOf

LEMMA NewVal ==
  ASSUME NEW m, IsMachine(m), NEW w \in Word
  PROVE  LET n == [m EXCEPT !.val = w] IN
         IsMachine(n) /\ Same(n, m) /\ n.mut = m.mut /\ n.err = m.err /\ n.val = w
BY DEF IsMachine, Same, Control, Data, FlagsOf

LEMMA NewErr ==
  ASSUME NEW m, IsMachine(m), NEW e \in Errors
  PROVE  LET n == Panic(m, e) IN
         IsMachine(n) /\ Same(n, m) /\ n.mut = m.mut /\ n.err = e /\ n.val = m.val
BY DEF IsMachine, Same, Control, Data, FlagsOf, Panic

LEMMA NewFault ==
  ASSUME NEW m, IsMachine(m), NEW a \in Word
  PROVE  LET n == Fault(m, a) IN
         IsMachine(n) /\ Same(n, m) /\ n.mut = m.mut /\ n.err = "FAULT_RD" /\ n.val = m.val
BY DEF Fault, IsMachine, Same, Control, Data, FlagsOf, Errors

LEMMA NewStack ==
  ASSUME NEW m, IsMachine(m), NEW w \in Word
  PROVE  LET n == [m EXCEPT !.stack = w] IN
         /\ IsMachine(n) /\ Control(n) = Control(m) /\ FlagsOf(n) = FlagsOf(m)
         /\ n.stack = w /\ n.exstack = m.exstack /\ n.frame = m.frame
         /\ n.regs = m.regs /\ n.mem = m.mem
         /\ n.mut = m.mut /\ n.err = m.err /\ n.val = m.val
BY DEF IsMachine, Control, Data, FlagsOf

LEMMA NewFlags ==
  ASSUME NEW m, IsMachine(m), NEW z \in BOOLEAN, NEW c \in BOOLEAN
  PROVE  /\ LET n == [m EXCEPT !.zero = z] IN
            /\ IsMachine(n) /\ Control(n) = Control(m) /\ Data(n) = Data(m)
            /\ n.zero = z /\ n.carry = m.carry
            /\ n.mut = m.mut /\ n.err = m.err /\ n.val = m.val
         /\ LET n == [m EXCEPT !.carry = c] IN
            /\ IsMachine(n) /\ Control(n) = Control(m) /\ Data(n) = Data(m)
            /\ n.carry = c /\ n.zero = m.zero
            /\ n.mut = m.mut /\ n.err = m.err /\ n.val = m.val
BY DEF IsMachine, Control, Data, FlagsOf

LEMMA Wraps ==
  ASSUME NEW x \in Int
  PROVE  x % WordMod \in Word
BY Sizes DEF Word

LEMMA WrapsOnce ==
  ASSUME NEW x \in Int, NEW y \in Int
  PROVE  ((x % WordMod) + y) % WordMod = (x + y) % WordMod
<1> DEFINE q == x \div WordMod
           r == x % WordMod
<1>1. q \in Int /\ r \in Int /\ x = WordMod * q + r /\ WordMod \in Nat \ {0}
  <2>1. WordMod \in Nat \ {0}
    BY Sizes
  <2>2. q \in Int /\ r \in 0 .. WordMod - 1 /\ x = WordMod * q + r
    BY <2>1, Division, Zenon
  <2> HIDE DEF q, r
  <2> QED
    BY <2>1, <2>2
<1> HIDE DEF q, r
<1>2. x + y = WordMod * q + (r + y) /\ r + y \in Int
  BY <1>1
<1>3. (WordMod * q + (r + y)) % WordMod = (r + y) % WordMod
  BY <1>1, <1>2, Remainders
<1> QED
  BY <1>2, <1>3 DEF r

LEMMA WordIsSmall ==
  ASSUME NEW x \in Word
  PROVE  x % WordMod = x
BY Sizes DEF Word

LEMMA FaultOperand ==
  ASSUME NEW a \in Word
  PROVE  Reported(a) \in Word
<1>1. /\ RomStart \in Nat /\ RomStart < WordMod /\ a \in Nat /\ a < WordMod
  BY CpuAssumption, Sizes DEF Word
<1>2. CASE a \in RomStart .. WordMod - 2 /\ Window(a) # {}
  <2> DEFINE w == CHOOSE w \in Window(a) : TRUE
  <2>1. w \in Window(a)
    BY <1>2, Zenon
  <2>2. /\ w \in DOMAIN Windows /\ w \in Nat /\ Windows[w] \in Nat /\ WindowSize \in Nat
        /\ a \in w .. w + WindowSize - 1 /\ Windows[w] + WindowSize <= WordMod
    BY <2>1, CpuAssumption DEF Window
  <2>3. RomAddress(a) = Windows[w] + (a - w)
    BY <1>2, Zenon DEF RomAddress
  <2> HIDE DEF w
  <2>4. Windows[w] + (a - w) \in Word
    BY <1>1, <2>2, Sizes DEF Word
  <2> QED
    BY <1>2, <2>3, <2>4 DEF Reported
<1>3. CASE a \in RomStart .. WordMod - 2 /\ Window(a) = {}
  BY <1>1, <1>3, Sizes DEF Reported, RomAddress, Word
<1> QED
  BY <1>2, <1>3 DEF Reported

LEMMA ReadReads ==
  ASSUME NEW m, IsMachine(m), m.err = "OK", NEW a \in Word, NEW s \in Size
  PROVE  /\ Reads(Read(m, a, s), m, 0, s)
         /\ Read(m, a, s).err \in {"OK", "FAULT_RD"} /\ Read(m, a, s).mut = m.mut
<1> DEFINE bad == {i \in 0 .. s - 1 : ~Readable(a + i)}
           n == Read(m, a, s)
<1> SUFFICES Reads(n, m, 0, s) /\ n.err \in {"OK", "FAULT_RD"} /\ n.mut = m.mut
  OBVIOUS
<1>1. m.mut \in Word /\ (m.mut + 0) % WordMod = m.mut
  <2>1. m.mut \in Word /\ m.mut \in Int
    BY Fields, WordIsNat
  <2> QED
    BY <2>1, WordIsSmall
<1>2. CASE bad = {}
  <2>1. PICK v \in 0 .. Modulus(s) - 1 : n = [m EXCEPT !.val = v]
    BY <1>2, ValueType
  <2>2. n.val = v
    BY <2>1 DEF IsMachine
  <2>3. v \in Word
    BY Sizes DEF Word
  <2> HIDE DEF n
  <2>4. IsMachine(n) /\ Same(n, m) /\ n.mut = m.mut /\ n.err = m.err
    BY <2>1, <2>3, NewVal
  <2>5. n.val \in 0 .. Modulus(s) - 1
    BY <2>1, <2>2
  <2> QED
    BY <1>1, <2>4, <2>5 DEF Reads, Goes, Same
<1>3. CASE bad # {}
  <2>1. Min(bad) \in bad
    <3>1. bad \in SUBSET Nat /\ \E i \in bad : \A j \in bad : i <= j
      <4>1. bad \subseteq {0, 1, 2, 3}
        <5>1. \A i \in 0 .. s - 1 : i \in {0, 1, 2, 3}
          BY Sizes
        <5> QED
          BY <5>1
      <4> HIDE DEF bad
      <4> QED
        <5>1. bad \in SUBSET Nat
          BY <4>1
        <5> QED
          BY <1>3, <5>1, LeastExists
    <3> HIDE DEF bad
    <3> QED
      BY <3>1, Zenon DEF Min
  <2>2. Min(bad) \in Nat /\ Min(bad) < s /\ a \in Nat /\ s \in Nat
    BY <2>1, Sizes
  <2> DEFINE f == IF a + s >= WordMod THEN a ELSE Reported(a + Min(bad))
  <2>3. f \in Word
    <3>1. CASE a + s >= WordMod
      BY <3>1
    <3>2. CASE ~ (a + s >= WordMod)
      <4>1. a + Min(bad) \in Word
        <5> HIDE DEF bad
        <5> QED
        BY <2>2, <3>2, Sizes DEF Word
      <4> QED
        BY <3>2, <4>1, FaultOperand
    <3> QED
      BY <3>1, <3>2
  <2>4. n = Fault(m, f)
    BY <1>3, Zenon DEF Read
  <2> HIDE DEF f, n
  <2> QED
    <3>1. /\ IsMachine(n) /\ Same(n, m) /\ n.err = "FAULT_RD" /\ n.mut = m.mut
      BY <2>3, <2>4, NewFault
    <3> QED
      BY <3>1 DEF Reads, Goes, Same, OperandErrors
<1> QED
  BY <1>2, <1>3

LEMMA FetchReads ==
  ASSUME NEW m, IsMachine(m), m.err = "OK", NEW s \in Size
  PROVE  Goes(Fetch(m, s), m, s) /\ Same(Fetch(m, s), m)
<1> DEFINE k == Read(m, m.mut, s)
<1>1. Reads(k, m, 0, s)
  BY ReadReads, Fields
<1> HIDE DEF k
<1>2. Fetch(m, s) = IF k.err = "OK" THEN [k EXCEPT !.mut = (k.mut + s) % WordMod] ELSE k
  BY DEF Fetch, Do, k
<1>3. m.mut \in Word /\ m.mut \in Int /\ s \in Int /\ k.mut \in Int
  <2>1. IsMachine(k)
    BY <1>1 DEF Reads, Goes
  <2>2. m.mut \in Word /\ k.mut \in Word
    BY <2>1, Fields
  <2>3. s \in Int
    BY Sizes
  <2> QED
    BY <2>2, <2>3, WordIsNat
<1>4. CASE k.err = "OK"
  <2>1. k.mut = m.mut
    BY <1>1, <1>3, <1>4, WordIsSmall DEF Reads, Goes
  <2>2. (k.mut + s) % WordMod \in Word
    BY <1>3, Wraps
  <2> QED
    BY <1>1, <1>2, <1>4, <2>1, <2>2, NewMut DEF Reads, Goes, Same
<1>5. CASE k.err # "OK"
  BY <1>1, <1>2, <1>5 DEF Reads, Goes, Same
<1> QED
  BY <1>4, <1>5

-----------------------------------------------------------------------------
(* Locals, writes and the stack.                                           *)

LEMMA LowFits ==
  ASSUME NEW w \in Int, NEW s \in Size
  PROVE  Low(w, s) \in 0 .. Modulus(s) - 1 /\ Low(w, s) \in Word
BY Sizes DEF Low, Word

(* The bytes of a local above those written are left.                      *)
LEMMA LowReplaced ==
  ASSUME NEW w \in Word, NEW s \in Size, NEW v \in 0 .. Modulus(s) - 1
  PROVE  w - Low(w, s) + v \in Word
<1> DEFINE p == Modulus(s)
           q == w \div p
           r == w % p
<1>1. p \in Nat \ {0} /\ w \in Nat /\ w < WordMod
  BY Sizes, WordIsNat
<1>2. \E e \in Nat \ {0} : WordMod = p * e
  <2>1. Modulus(1) \in Nat \ {0} /\ Modulus(2) \in Nat \ {0} /\ Modulus(3) \in Nat \ {0}
    BY Moduli
  <2>2. Modulus(2) = Modulus(1) * Modulus(1) /\ Modulus(3) = Modulus(2) * Modulus(1)
        /\ Modulus(4) = Modulus(3) * Modulus(1)
    <3>1. 1 + 1 = 2 /\ 2 + 1 = 3 /\ 3 + 1 = 4
      OBVIOUS
    <3> QED
      BY <3>1, Moduli
  <2>3. ASSUME NEW a \in Nat \ {0}
        PROVE  ((a * a) * a) * a = (a * a) * (a * a) /\ ((a * a) * a) * a = a * ((a * a) * a)
    OBVIOUS
  <2>4. Modulus(4) = Modulus(2) * Modulus(2) /\ Modulus(4) = Modulus(1) * Modulus(3)
    BY <2>1, <2>2, <2>3
  <2>5. WordMod = Modulus(4) /\ s \in {1, 2, 4} /\ Modulus(4) \in Nat \ {0}
    BY Sizes, Moduli DEF WordMod
  <2>6. Modulus(4) = Modulus(4) * 1
    BY <2>5
  <2>7. CASE s = 1
    BY <2>1, <2>4, <2>5, <2>7, Zenon
  <2>8. CASE s = 2
    BY <2>1, <2>4, <2>5, <2>8, Zenon
  <2>9. CASE s = 4
    <3>1. 1 \in Nat \ {0}
      OBVIOUS
    <3> QED
      BY <2>5, <2>6, <2>9, <3>1, Zenon
  <2> QED
    BY <2>5, <2>7, <2>8, <2>9
<1>3. PICK e \in Nat \ {0} : WordMod = p * e
  BY <1>2
<1>4. q \in Int /\ r \in 0 .. p - 1 /\ w = p * q + r /\ (w >= 0 => q >= 0)
  <2> HIDE DEF p
  <2>1. w \in Int
    BY <1>1
  <2> QED
    BY <1>1, <2>1, Division, Zenon
<1>5. Low(w, s) = r
  BY DEF Low
<1> HIDE DEF p, q, r
<1>6. q \in Nat /\ q < e
  <2>1. q \in Nat
    BY <1>1, <1>4
  <2>2. ASSUME q >= e
        PROVE  FALSE
    <3>1. PICK k \in Nat : q = e + k
      <4>1. q - e \in Nat /\ q = e + (q - e)
        BY <2>1, <2>2
      <4> QED
        BY <4>1
    <3>2. p * q = p * e + p * k /\ p * k \in Nat /\ p * e \in Nat
      BY <1>1, <3>1
    <3> QED
      BY <1>1, <1>3, <1>4, <3>2
  <2> QED
    BY <2>1, <2>2
<1>7. v \in 0 .. p - 1
  BY DEF p
<1>8. q * p + v \in 0 .. p * e - 1
  BY <1>1, <1>6, <1>7, ByteFits
<1>9. w - r + v = q * p + v
  BY <1>1, <1>4, <1>6, <1>7
<1> QED
  BY <1>3, <1>5, <1>8, <1>9 DEF Word

LEMMA LocalType ==
  ASSUME NEW m, IsMachine(m), NEW l \in Byte, l < RegisterCount + 3
  PROVE  Local(m, l) \in Word
<1>1. l \in Nat /\ RegisterCount \in Nat
  BY CpuAssumption, Sizes DEF Byte
<1>2. CASE l < RegisterCount
  BY <1>1, <1>2, Fields DEF Local
<1>3. CASE ~ (l < RegisterCount)
  <2>1. l \in {RegisterCount, RegisterCount + 1, RegisterCount + 2}
    BY <1>1, <1>3
  <2>2. m.stack \in Word /\ m.exstack \in Word /\ m.frame \in Word
    BY Fields
  <2> QED
    BY <1>1, <1>3, <2>1, <2>2 DEF Local
<1> QED
  BY <1>2, <1>3

LEMMA NewLocal ==
  ASSUME NEW m, IsMachine(m), NEW l \in Byte, l < RegisterCount + 3, NEW v \in Word
  PROVE  LET n == SetLocal(m, l, v) IN
         /\ IsMachine(n) /\ Control(n) = Control(m) /\ n.mut = m.mut /\ n.err = m.err
         /\ FlagsOf(n) = FlagsOf(m)
<1>1. l \in Nat /\ RegisterCount \in Nat
  BY CpuAssumption, Sizes DEF Byte
<1>2. CASE l < RegisterCount
  <2>1. SetLocal(m, l, v) = [m EXCEPT !.regs[l] = v]
    BY <1>2 DEF SetLocal
  <2> DEFINE regs == [m.regs EXCEPT ![l] = v]
  <2>2. regs \in [0 .. RegisterCount - 1 -> Word]
    BY <1>1, <1>2, Fields
  <2> HIDE DEF regs
  <2>3. SetLocal(m, l, v) = [m EXCEPT !.regs = regs]
    BY <2>1, Zenon DEF regs
  <2> QED
    BY <2>2, <2>3 DEF IsMachine, Control, FlagsOf
<1>3. CASE l = RegisterCount
  <2>1. SetLocal(m, l, v) = [m EXCEPT !.stack = v]
    BY <1>1, <1>3 DEF SetLocal
  <2> QED
    BY <2>1 DEF IsMachine, Control, FlagsOf
<1>4. CASE l = RegisterCount + 1
  <2>1. SetLocal(m, l, v) = [m EXCEPT !.exstack = v]
    BY <1>1, <1>4 DEF SetLocal
  <2> QED
    BY <2>1 DEF IsMachine, Control, FlagsOf
<1>5. CASE l = RegisterCount + 2
  <2>1. SetLocal(m, l, v) = [m EXCEPT !.frame = v]
    BY <1>1, <1>5 DEF SetLocal
  <2> QED
    BY <2>1 DEF IsMachine, Control, FlagsOf
<1> QED
  BY <1>1, <1>2, <1>3, <1>4, <1>5

LEMMA PointedType ==
  ASSUME NEW m, IsMachine(m), NEW o \in Operands, o.reg < RegisterCount + 3, NEW f \in {0, 1}
  PROVE  Pointed(m, o, f) \in Word
<1>1. Local(m, o.reg) \in Word /\ o.disp \in Word
  BY LocalType, Sizes DEF Operands
<1>2. Local(m, o.reg) + f * o.disp \in Int
  <2>1. Local(m, o.reg) \in Int /\ o.disp \in Int
    BY <1>1, WordIsNat
  <2> QED
    BY <2>1
<1> QED
  BY <1>2, Wraps DEF Pointed

-----------------------------------------------------------------------------
(* What a write leaves.                                                    *)
LEMMA Writes ==
  ASSUME NEW m, IsMachine(m), NEW a \in Int, NEW s \in Size, NEW v \in Nat
  PROVE  LET n == Write(m, a, s, v) IN
         /\ IsMachine(n) /\ Control(n) = Control(m) /\ FlagsOf(n) = FlagsOf(m)
         /\ n.stack = m.stack /\ n.exstack = m.exstack /\ n.frame = m.frame
         /\ n.regs = m.regs /\ n.mut = m.mut /\ n.err = m.err /\ n.val = m.val
         /\ n.operand = m.operand
<1> DEFINE cell(i) == (a + i) % RamSize
           at(c) == CHOOSE i \in 0 .. s - 1 : cell(i) = c
           written == {cell(i) : i \in 0 .. s - 1}
           new(c) == IF c \in written THEN (v \div Modulus(at(c))) % Modulus(SIZE8) ELSE m.mem[c]
           f == [c \in DOMAIN m.mem \cup written |-> new(c)]
<1>1. Write(m, a, s, v) = [m EXCEPT !.mem = f]
  BY DEF Write
<1>2. ASSUME NEW c \in DOMAIN m.mem \cup written
      PROVE  c \in 0 .. RamSize - 1 /\ new(c) \in Byte
  <2>1. RamSize \in Nat \ {0} /\ SIZE8 = 1 /\ Byte = 0 .. Modulus(1) - 1
        /\ Modulus(1) \in Nat \ {0} /\ Byte = 0 .. Modulus(SIZE8) - 1 /\ s \in Nat
    BY Sizes DEF Byte
  <2>2. CASE c \in written
    <3>1. at(c) \in 0 .. s - 1
      BY <2>2, Zenon
    <3>2. at(c) \in 0 .. 4
      <4> HIDE DEF at
      <4> QED
        BY <3>1, Sizes
    <3>3. Modulus(at(c)) \in Nat \ {0}
      <4> HIDE DEF at
      <4> QED
        BY <3>2, Moduli
    <3>4. (v \div Modulus(at(c))) % Modulus(SIZE8) \in Byte
      <4> HIDE DEF at
      <4> QED
        BY <2>1, <3>3
    <3>5. c \in 0 .. RamSize - 1
      BY <2>1, <2>2
    <3> HIDE DEF at, written
    <3> QED
      BY <2>2, <3>4, <3>5
  <2>3. CASE c \notin written
    <3>1. c \in DOMAIN m.mem
      BY <2>3
    <3>2. c \in 0 .. RamSize - 1 /\ m.mem[c] \in Byte
      BY <3>1 DEF IsMachine
    <3> HIDE DEF written
    <3> QED
      BY <2>3, <3>2
  <2> QED
    BY <2>2, <2>3
<1>3. \A c \in DOMAIN f : c \in 0 .. RamSize - 1 /\ f[c] \in Byte
  <2> HIDE DEF new, written
  <2> QED
    BY <1>2
<1> HIDE DEF f
<1> QED
  BY <1>1, <1>3 DEF IsMachine, Control, FlagsOf

LEMMA Pushes ==
  ASSUME NEW m, IsMachine(m), NEW s \in Size, NEW v \in Nat
  PROVE  LET n == Push(m, v, s) IN
         /\ IsMachine(n) /\ Control(n) = Control(m) /\ FlagsOf(n) = FlagsOf(m)
         /\ n.stack = (m.stack - s) % WordMod /\ n.exstack = m.exstack /\ n.frame = m.frame
         /\ n.regs = m.regs /\ n.mut = m.mut /\ n.err = m.err /\ n.val = m.val
         /\ n.operand = m.operand
         /\ n.mem = Write(m, (m.stack - s) % WordMod, s, v).mem
<1> DEFINE top == (m.stack - s) % WordMod
           w == Write(m, top, s, v)
<1>1. m.stack \in Int /\ s \in Int
  <2>1. m.stack \in Word
    BY Fields
  <2>2. s \in Int
    BY Sizes
  <2> QED
    BY <2>1, <2>2, WordIsNat
<1>2. top \in Word
  <2>1. m.stack - s \in Int
    BY <1>1
  <2> QED
    BY <2>1, Wraps
<1>3. Push(m, v, s) = [w EXCEPT !.stack = top]
  BY DEF Push
<1> HIDE DEF top
<1>4. /\ IsMachine(w) /\ Control(w) = Control(m) /\ FlagsOf(w) = FlagsOf(m)
      /\ w.stack = m.stack /\ w.exstack = m.exstack /\ w.frame = m.frame
      /\ w.regs = m.regs /\ w.mut = m.mut /\ w.err = m.err /\ w.val = m.val
      /\ w.operand = m.operand
  <2>1. top \in Int
    BY <1>2, WordIsNat
  <2> QED
    BY <2>1, Writes
<1> DEFINE k == [w EXCEPT !.stack = top]
<1> HIDE DEF w
<1>5. /\ IsMachine(k) /\ Control(k) = Control(w) /\ FlagsOf(k) = FlagsOf(w)
      /\ k.stack = top /\ k.exstack = w.exstack /\ k.frame = w.frame
      /\ k.regs = w.regs /\ k.mem = w.mem
      /\ k.mut = w.mut /\ k.err = w.err /\ k.val = w.val
      /\ k.operand = w.operand
  <2>1. k.operand = w.operand
    BY <1>4 DEF IsMachine
  <2> QED
    BY <1>2, <1>4, <2>1, NewStack
<1> HIDE DEF k
<1> QED
  BY <1>3, <1>4, <1>5 DEF top, w, k

LEMMA Pops ==
  ASSUME NEW m, IsMachine(m), m.err = "OK", NEW s \in Size
  PROVE  LET n == Pop(m, s) IN
         /\ IsMachine(n) /\ n.err \in {"OK", "FAULT_RD"}
         /\ Control(n) = Control(m) /\ FlagsOf(n) = FlagsOf(m)
         /\ n.exstack = m.exstack /\ n.frame = m.frame /\ n.regs = m.regs /\ n.mem = m.mem
         /\ n.mut = m.mut
         /\ n.err # "OK" => n.stack = m.stack
         /\ n.err = "OK" => /\ n.stack = (m.stack + s) % WordMod
                            /\ n.val \in 0 .. Modulus(s) - 1
                            /\ n.val = Read(m, m.stack, s).val
<1> DEFINE k == Read(m, m.stack, s)
           n == Pop(m, s)
<1>1. m.stack \in Word /\ m.stack \in Int /\ s \in Int
  <2>1. m.stack \in Word
    BY Fields
  <2>2. s \in Int
    BY Sizes
  <2> QED
    BY <2>1, <2>2, WordIsNat
<1>2. Reads(k, m, 0, s)
  BY <1>1, ReadReads
<1>3. k.err \in {"OK", "FAULT_RD"} /\ k.mut = m.mut
  BY <1>1, ReadReads
<1>4. n = IF k.err = "OK" THEN [k EXCEPT !.stack = (k.stack + s) % WordMod] ELSE k
  BY DEF Pop, Do
<1> HIDE DEF k, n
<1>5. /\ IsMachine(k) /\ k.stack = m.stack /\ Control(k) = Control(m)
      /\ FlagsOf(k) = FlagsOf(m) /\ k.exstack = m.exstack /\ k.frame = m.frame
      /\ k.regs = m.regs /\ k.mem = m.mem
      /\ k.err = "OK" => k.val \in 0 .. Modulus(s) - 1
  BY <1>2 DEF Reads, Goes, Same, Data
<1>6. CASE k.err = "OK"
  <2>1. (k.stack + s) % WordMod \in Word
    <3>1. m.stack + s \in Int
      BY <1>1
    <3> QED
      BY <1>5, <3>1, Wraps
  <2> DEFINE w == (k.stack + s) % WordMod
  <2> HIDE DEF w
  <2>2. LET j == [k EXCEPT !.stack = w] IN
         /\ IsMachine(j) /\ Control(j) = Control(k) /\ FlagsOf(j) = FlagsOf(k)
         /\ j.stack = w /\ j.exstack = k.exstack /\ j.frame = k.frame
         /\ j.regs = k.regs /\ j.mem = k.mem
         /\ j.mut = k.mut /\ j.err = k.err /\ j.val = k.val
    BY <1>5, <2>1, NewStack DEF w
  <2>3. n = [k EXCEPT !.stack = w]
    BY <1>4, <1>6 DEF w
  <2>4. w = (m.stack + s) % WordMod
    BY <1>5 DEF w
  <2> QED
    BY <1>3, <1>5, <1>6, <2>2, <2>3, <2>4 DEF n, k
<1>7. CASE k.err # "OK"
  <2>1. n = k
    BY <1>4, <1>7
  <2> QED
    BY <1>3, <1>5, <1>7, <2>1 DEF n
<1> QED
  BY <1>6, <1>7

-----------------------------------------------------------------------------
(* Operands.                                                               *)

LEMMA OperandType ==
  ASSUME NEW o \in Operands
  PROVE  /\ o.mode \in {REG, REGPTR, IMM, IMMPTR} /\ o.reg \in Byte
         /\ o.disp \in Byte /\ o.val \in Word /\ o.val \in Int
<1>1. o.mode \in 0 .. 3 /\ o.reg \in Byte /\ o.disp \in Byte /\ o.val \in Word
  BY DEF Operands
<1>2. 0 .. 3 = {REG, REGPTR, IMM, IMMPTR}
  BY DEF REG, REGPTR, IMM, IMMPTR
<1> QED
  BY <1>1, <1>2, WordIsNat

LEMMA Offsets ==
  ASSUME NEW f \in {0, 1}
  PROVE  SIZE8 \in Size /\ SIZE8 + f \in Size /\ SIZE32 \in Size /\ SIZE16 \in Size
BY Sizes

(* A look at the memory after the bytes of an operand.                     *)
LEMMA FetchThenRead ==
  ASSUME NEW m, NEW k, NEW n, NEW d, NEW s, Goes(k, m, d), Same(k, m), k.err = "OK",
         Reads(n, k, 0, s), n.mut = k.mut
  PROVE  Reads(n, m, d, s)
BY DEF Goes, Same, Reads

(* vm_source8 .. vm_source32.                                              *)
LEMMA SourceReads ==
  ASSUME NEW m, IsMachine(m), m.err = "OK", NEW o \in Operands, NEW s \in Size,
         NEW f \in {0, 1}
  PROVE  Reads(Source(m, o, s, f), m, ParamSize(o, s, f), s)
<1> DEFINE d == ParamSize(o, s, f)
           n == Source(m, o, s, f)
<1>1. o.mode \in {REG, REGPTR, IMM, IMMPTR} /\ o.reg \in Byte /\ o.val \in Word /\ o.val \in Int
  BY OperandType
<1>2. SIZE8 \in Size /\ SIZE8 + f \in Size /\ SIZE32 \in Size
  BY Offsets
<1>3. \A k : Goes(k, m, d) /\ Same(k, m) /\ k.err # "OK" => Reads(k, m, d, s)
  BY DEF Reads
<1>4. CASE o.mode = REG
  <2> DEFINE k == Fetch(m, SIZE8)
  <2>1. Goes(k, m, d) /\ Same(k, m)
    BY <1>2, <1>4, FetchReads DEF ParamSize, REG, REGPTR, IMM, IMMPTR
  <2>2. n = IF k.err = "OK"
            THEN IF o.reg < RegisterCount + 3 THEN [k EXCEPT !.val = Low(Local(k, o.reg), s)]
                 ELSE Panic(k, "BADREGISTER")
            ELSE k
    BY <1>4 DEF Source, Do, WithLocal, REG, REGPTR, IMM, IMMPTR
  <2> HIDE DEF k, n, d
  <2>3. IsMachine(k)
    BY <2>1 DEF Goes
  <2>4. CASE k.err = "OK" /\ o.reg < RegisterCount + 3
    <3>1. Low(Local(k, o.reg), s) \in 0 .. Modulus(s) - 1 /\ Low(Local(k, o.reg), s) \in Word
      <4>1. Local(k, o.reg) \in Int
        BY <1>1, <2>3, <2>4, LocalType, WordIsNat
      <4> QED
        BY <4>1, LowFits
    <3> DEFINE w == Low(Local(k, o.reg), s)
    <3> HIDE DEF w
    <3>2. n = [k EXCEPT !.val = w]
      BY <2>2, <2>4 DEF w
    <3>3. w \in 0 .. Modulus(s) - 1 /\ w \in Word
      BY <3>1 DEF w
    <3>4. IsMachine(n) /\ Same(n, k) /\ n.mut = k.mut /\ n.err = k.err /\ n.val = w
      BY <2>3, <3>2, <3>3, NewVal
    <3> QED
      BY <2>1, <2>4, <3>3, <3>4 DEF Reads, Goes, Same, n, d
  <2>5. CASE k.err = "OK" /\ ~ (o.reg < RegisterCount + 3)
    <3>1. n = Panic(k, "BADREGISTER") /\ "BADREGISTER" \in Errors
      BY <2>2, <2>5 DEF Errors
    <3>2. IsMachine(n) /\ Same(n, k) /\ n.mut = k.mut /\ n.err = "BADREGISTER"
      BY <2>3, <3>1, NewErr
    <3> QED
      BY <2>1, <2>5, <3>2 DEF Reads, Goes, Same, OperandErrors, n, d
  <2>6. CASE k.err # "OK"
    BY <1>3, <2>1, <2>2, <2>6 DEF n, d
  <2> QED
    BY <2>4, <2>5, <2>6
<1>5. CASE o.mode = REGPTR
  <2> DEFINE k == Fetch(m, SIZE8 + f)
  <2>1. Goes(k, m, d) /\ Same(k, m)
    <3>1. d = SIZE8 + f
      BY <1>5 DEF ParamSize, REG, REGPTR, IMM, IMMPTR
    <3> QED
      BY <1>2, <3>1, FetchReads
  <2>2. n = IF k.err = "OK"
            THEN IF o.reg < RegisterCount + 3 THEN Read(k, Pointed(k, o, f), s)
                 ELSE Panic(k, "BADREGISTER")
            ELSE k
    BY <1>5 DEF Source, Do, WithLocal, REG, REGPTR, IMM, IMMPTR
  <2> HIDE DEF k, n, d
  <2>3. IsMachine(k)
    BY <2>1 DEF Goes
  <2>4. CASE k.err = "OK" /\ o.reg < RegisterCount + 3
    <3>1. Pointed(k, o, f) \in Word
      BY <2>3, <2>4, PointedType
    <3>2. Reads(n, k, 0, s) /\ n.mut = k.mut
      BY <2>2, <2>3, <2>4, <3>1, ReadReads
    <3> QED
      BY <2>1, <2>4, <3>2, FetchThenRead DEF n, d
  <2>5. CASE k.err = "OK" /\ ~ (o.reg < RegisterCount + 3)
    <3>1. n = Panic(k, "BADREGISTER") /\ "BADREGISTER" \in Errors
      BY <2>2, <2>5 DEF Errors
    <3>2. IsMachine(n) /\ Same(n, k) /\ n.mut = k.mut /\ n.err = "BADREGISTER"
      BY <2>3, <3>1, NewErr
    <3> QED
      BY <2>1, <2>5, <3>2 DEF Reads, Goes, Same, OperandErrors, n, d
  <2>6. CASE k.err # "OK"
    BY <1>3, <2>1, <2>2, <2>6 DEF n, d
  <2> QED
    BY <2>4, <2>5, <2>6
<1>6. CASE o.mode = IMM
  <2> DEFINE k == Fetch(m, s)
             w == Low(o.val, s)
  <2>1. Goes(k, m, d) /\ Same(k, m)
    <3>1. d = s
      BY <1>6 DEF ParamSize, REG, REGPTR, IMM, IMMPTR
    <3> QED
      BY <3>1, FetchReads
  <2>2. n = IF k.err = "OK" THEN [k EXCEPT !.val = w] ELSE k
    BY <1>6 DEF Source, Do, REG, REGPTR, IMM, IMMPTR
  <2>3. w \in 0 .. Modulus(s) - 1 /\ w \in Word
    BY <1>1, LowFits
  <2> HIDE DEF k, n, d, w
  <2>4. IsMachine(k)
    BY <2>1 DEF Goes
  <2>5. CASE k.err = "OK"
    <3>1. IsMachine(n) /\ Same(n, k) /\ n.mut = k.mut /\ n.err = k.err /\ n.val = w
      BY <2>2, <2>3, <2>4, <2>5, NewVal
    <3> QED
      BY <2>1, <2>3, <2>5, <3>1 DEF Reads, Goes, Same, n, d
  <2>6. CASE k.err # "OK"
    BY <1>3, <2>1, <2>2, <2>6 DEF n, d
  <2> QED
    BY <2>5, <2>6
<1>7. CASE o.mode = IMMPTR
  <2> DEFINE k == Fetch(m, SIZE32)
  <2>1. Goes(k, m, d) /\ Same(k, m)
    <3>1. d = SIZE32
      BY <1>7 DEF ParamSize, REG, REGPTR, IMM, IMMPTR
    <3> QED
      BY <1>2, <3>1, FetchReads
  <2>2. n = IF k.err = "OK" THEN Read(k, o.val, s) ELSE k
    BY <1>7 DEF Source, Do, REG, REGPTR, IMM, IMMPTR
  <2> HIDE DEF k, n, d
  <2>3. IsMachine(k)
    BY <2>1 DEF Goes
  <2>4. CASE k.err = "OK"
    <3>1. Reads(n, k, 0, s) /\ n.mut = k.mut
      BY <1>1, <2>2, <2>3, <2>4, ReadReads
    <3> QED
      BY <2>1, <2>4, <3>1, FetchThenRead DEF n, d
  <2>5. CASE k.err # "OK"
    BY <1>3, <2>1, <2>2, <2>5 DEF n, d
  <2> QED
    BY <2>4, <2>5
<1> QED
  BY <1>1, <1>4, <1>5, <1>6, <1>7

LEMMA SourceStays ==
  ASSUME NEW m, IsMachine(m), m.err = "OK", NEW o \in Operands, NEW s \in Size,
         NEW f \in {0, 1}
  PROVE  Reads(SourceStay(m, o, s, f), m, 0, s)
<1> DEFINE k == Source(m, o, s, f)
           n == SourceStay(m, o, s, f)
<1>1. Reads(k, m, ParamSize(o, s, f), s)
  BY SourceReads
<1>2. n = [k EXCEPT !.mut = m.mut]
  BY DEF SourceStay
<1>3. m.mut \in Word /\ (m.mut + 0) % WordMod = m.mut
  <2>1. m.mut \in Word /\ m.mut \in Int
    BY Fields, WordIsNat
  <2> QED
    BY <2>1, WordIsSmall
<1> HIDE DEF k, n
<1>4. IsMachine(n) /\ Same(n, k) /\ n.mut = m.mut /\ n.err = k.err /\ n.val = k.val
  BY <1>1, <1>2, <1>3, NewMut DEF Reads, Goes
<1> QED
  BY <1>1, <1>3, <1>4 DEF Reads, Goes, Same, n

(* vm_target8 .. vm_target32.                                              *)
LEMMA TargetGoes ==
  ASSUME NEW m, IsMachine(m), m.err = "OK", NEW o \in Operands, NEW s \in Size,
         NEW f \in {0, 1}, NEW v \in Nat, v < Modulus(s), NEW clear \in BOOLEAN
  PROVE  /\ Goes(Target(m, o, v, s, f, clear), m, ParamSize(o, s, f))
         /\ FlagsOf(Target(m, o, v, s, f, clear)) = FlagsOf(m)
<1> DEFINE d == ParamSize(o, s, f)
           n == Target(m, o, v, s, f, clear)
           wide == IF clear THEN SIZE32 ELSE s
<1> SUFFICES Goes(n, m, d) /\ FlagsOf(n) = FlagsOf(m)
  OBVIOUS
<1>1. o.mode \in {REG, REGPTR, IMM, IMMPTR} /\ o.reg \in Byte /\ o.val \in Word /\ o.val \in Int
  BY OperandType
<1>2. SIZE8 \in Size /\ SIZE8 + f \in Size /\ SIZE32 \in Size
  BY Offsets
<1>3. v \in 0 .. Modulus(s) - 1 /\ v \in Word
  <2>1. Modulus(s) \in Nat /\ Modulus(s) <= WordMod /\ WordMod \in Nat
    BY Sizes
  <2> QED
    BY <2>1 DEF Word
<1>4. wide \in Size
  BY <1>2
<1>5. \A k : Goes(k, m, d) /\ Same(k, m) => FlagsOf(k) = FlagsOf(m)
  BY DEF Same
<1>6. ASSUME NEW k, Goes(k, m, d), Same(k, m), k.err = "OK", n = Panic(k, "BADREGISTER")
      PROVE  Goes(n, m, d) /\ FlagsOf(n) = FlagsOf(m)
  <2> HIDE DEF n, d
  <2>1. IsMachine(k) /\ "BADREGISTER" \in Errors
    BY <1>6 DEF Goes, Errors
  <2>2. IsMachine(n) /\ Same(n, k) /\ n.mut = k.mut /\ n.err = "BADREGISTER"
    BY <1>6, <2>1, NewErr
  <2> QED
    BY <1>6, <2>2 DEF Goes, Same, OperandErrors
<1>7. CASE o.mode = REG
  <2> DEFINE k == Fetch(m, SIZE8)
             w == IF clear THEN v ELSE Local(k, o.reg) - Low(Local(k, o.reg), s) + v
  <2>1. Goes(k, m, d) /\ Same(k, m)
    BY <1>2, <1>7, FetchReads DEF ParamSize, REG, REGPTR, IMM, IMMPTR
  <2>2. n = IF k.err = "OK"
            THEN IF o.reg < RegisterCount + 3 THEN SetLocal(k, o.reg, w)
                 ELSE Panic(k, "BADREGISTER")
            ELSE k
    BY <1>7 DEF Target, Do, WithLocal, REG, REGPTR, IMM, IMMPTR
  <2> HIDE DEF k, n, d
  <2>3. IsMachine(k)
    BY <2>1 DEF Goes
  <2>4. CASE k.err = "OK" /\ o.reg < RegisterCount + 3
    <3>1. Local(k, o.reg) \in Word
      BY <1>1, <2>3, <2>4, LocalType
    <3>2. w \in Word
      <4>1. Local(k, o.reg) - Low(Local(k, o.reg), s) + v \in Word
        BY <1>3, <3>1, LowReplaced
      <4> QED
        BY <1>3, <4>1
    <3> HIDE DEF w
    <3>3. IsMachine(n) /\ Control(n) = Control(k) /\ n.mut = k.mut /\ n.err = k.err
      BY <1>1, <2>2, <2>3, <2>4, <3>2, NewLocal
    <3>4. FlagsOf(n) = FlagsOf(k)
      BY <1>1, <2>2, <2>3, <2>4, <3>2, NewLocal
    <3> QED
      BY <2>1, <2>4, <3>3, <3>4 DEF Goes, Same
  <2>5. CASE k.err = "OK" /\ ~ (o.reg < RegisterCount + 3)
    BY <1>6, <2>1, <2>2, <2>5
  <2>6. CASE k.err # "OK"
    BY <1>5, <2>1, <2>2, <2>6
  <2> QED
    BY <2>4, <2>5, <2>6
<1>8. CASE o.mode = REGPTR
  <2> DEFINE k == Fetch(m, SIZE8 + f)
  <2>1. Goes(k, m, d) /\ Same(k, m)
    <3>1. d = SIZE8 + f
      BY <1>8 DEF ParamSize, REG, REGPTR, IMM, IMMPTR
    <3> QED
      BY <1>2, <3>1, FetchReads
  <2>2. n = IF k.err = "OK"
            THEN IF o.reg < RegisterCount + 3 THEN Write(k, Pointed(k, o, f), wide, v)
                 ELSE Panic(k, "BADREGISTER")
            ELSE k
    BY <1>8 DEF Target, Do, WithLocal, REG, REGPTR, IMM, IMMPTR
  <2> HIDE DEF k, n, d, wide
  <2>3. IsMachine(k)
    BY <2>1 DEF Goes
  <2>4. CASE k.err = "OK" /\ o.reg < RegisterCount + 3
    <3>1. Pointed(k, o, f) \in Int
      BY <2>3, <2>4, PointedType, WordIsNat
    <3>2. IsMachine(n) /\ Control(n) = Control(k) /\ FlagsOf(n) = FlagsOf(k)
          /\ n.mut = k.mut /\ n.err = k.err
      BY <1>4, <2>2, <2>3, <2>4, <3>1, Writes
    <3> QED
      BY <2>1, <2>4, <3>2 DEF Goes, Same
  <2>5. CASE k.err = "OK" /\ ~ (o.reg < RegisterCount + 3)
    BY <1>6, <2>1, <2>2, <2>5
  <2>6. CASE k.err # "OK"
    BY <1>5, <2>1, <2>2, <2>6
  <2> QED
    BY <2>4, <2>5, <2>6
<1>9. CASE o.mode = IMM
  <2>1. n = Panic(m, "BADIMMEDIATE") /\ "BADIMMEDIATE" \in Errors
    BY <1>9 DEF Target, REG, REGPTR, IMM, IMMPTR, Errors
  <2> HIDE DEF n, d
  <2>2. IsMachine(n) /\ Same(n, m) /\ n.err = "BADIMMEDIATE"
    BY <2>1, NewErr
  <2> QED
    BY <2>2 DEF Goes, Same, OperandErrors
<1>10. CASE o.mode = IMMPTR
  <2> DEFINE k == Fetch(m, SIZE32)
  <2>1. Goes(k, m, d) /\ Same(k, m)
    <3>1. d = SIZE32
      BY <1>10 DEF ParamSize, REG, REGPTR, IMM, IMMPTR
    <3> QED
      BY <1>2, <3>1, FetchReads
  <2>2. n = IF k.err = "OK" THEN Write(k, o.val, wide, v) ELSE k
    BY <1>10 DEF Target, Do, REG, REGPTR, IMM, IMMPTR
  <2> HIDE DEF k, n, d, wide
  <2>3. IsMachine(k)
    BY <2>1 DEF Goes
  <2>4. CASE k.err = "OK"
    <3>1. IsMachine(n) /\ Control(n) = Control(k) /\ FlagsOf(n) = FlagsOf(k)
          /\ n.mut = k.mut /\ n.err = k.err
      BY <1>1, <1>4, <2>2, <2>3, <2>4, Writes
    <3> QED
      BY <2>1, <2>4, <3>1 DEF Goes, Same
  <2>5. CASE k.err # "OK"
    BY <1>5, <2>1, <2>2, <2>5
  <2> QED
    BY <2>4, <2>5
<1> QED
  BY <1>1, <1>7, <1>8, <1>9, <1>10

-----------------------------------------------------------------------------
(* The operations of Alu.                                                  *)

(* A signed value, and the results of the operations, fit.                 *)
LEMMA TypedType ==
  ASSUME NEW op, NEW s \in Size, NEW v \in 0 .. Modulus(s) - 1
  PROVE  /\ Typed(op, v, s) \in Int /\ Signed(v, s) \in Int
         /\ v \in Nat /\ v < Modulus(s)
         /\ v # 0 => Typed(op, v, s) # 0
<1>1. Modulus(s) \in Nat
  BY Sizes
<1>2. Signed(v, s) \in Int /\ (v # 0 => Signed(v, s) # 0)
  BY <1>1 DEF Signed
<1> QED
  BY <1>1, <1>2 DEF Typed

LEMMA CheckedType ==
  ASSUME NEW op \in Steps \cup Sums \cup Compares, NEW s \in Size,
         NEW b \in 0 .. Modulus(s) - 1, NEW a \in 0 .. Modulus(s) - 1
  PROVE  LET r == Checked(op, b, a, s) IN
         r.x \in 0 .. Modulus(s) - 1 /\ r.carry \in BOOLEAN
<1> DEFINE tb == Typed(op, b, s)
           ta == Typed(op, a, s)
           e == Exact(op, tb, ta)
<1>1. tb \in Int /\ ta \in Int
  BY TypedType
<1>2. e \in Int
  <2> HIDE DEF tb, ta
  <2> QED
    BY <1>1 DEF Exact, Steps, Sums, Compares
<1>3. Low(e, s) \in 0 .. Modulus(s) - 1
  <2> HIDE DEF e
  <2> QED
    BY <1>2, LowFits
<1>4. Checked(op, b, a, s) = [x |-> Low(e, s), carry |-> Typed(op, Low(e, s), s) # e]
  BY DEF Checked
<1> HIDE DEF e
<1> QED
  BY <1>3, <1>4

LEMMA DividedType ==
  ASSUME NEW op, NEW s \in Size, NEW b \in 0 .. Modulus(s) - 1,
         NEW a \in 0 .. Modulus(s) - 1, a # 0
  PROVE  Divided(op, b, a, s) \in 0 .. Modulus(s) - 1
<1> DEFINE tb == Typed(op, b, s)
           ta == Typed(op, a, s)
           q == Toward0(tb, ta)
           e == IF op \in {"DIV", "IDIV"} THEN q ELSE tb - q * ta
<1>1. tb \in Int /\ ta \in Int /\ ta # 0
  BY TypedType
<1>2. q \in Int
  <2> HIDE DEF tb, ta
  <2>1. Magnitude(tb) \in Nat /\ Magnitude(ta) \in Nat \ {0}
    BY <1>1 DEF Magnitude
  <2>2. Magnitude(tb) \div Magnitude(ta) \in Int
    BY <2>1
  <2> QED
    BY <2>2 DEF Toward0
<1>3. e \in Int
  <2> HIDE DEF tb, ta, q
  <2> QED
    BY <1>1, <1>2
<1>4. Divided(op, b, a, s) = Low(e, s)
  BY DEF Divided
<1> HIDE DEF e
<1> QED
  BY <1>3, <1>4, LowFits

LEMMA WidthType ==
  ASSUME NEW s \in Size
  PROVE  Width(s) \in 1 .. 4 * ByteBits /\ Width(s) \in 0 .. 4 * ByteBits /\ Width(s) \in Nat
<1>1. ByteBits \in Nat \ {0}
  BY AluAssumption
<1>2. s \in {1, 2, 4}
  BY Sizes
<1> QED
  BY <1>1, <1>2 DEF Width

LEMMA ValueBelow ==
  ASSUME NEW s \in Size, NEW bits \in SUBSET (0 .. Width(s) - 1)
  PROVE  ValueOf(bits) \in 0 .. Modulus(s) - 1
BY WidthType, ValueFits DEF Modulus

LEMMA LogicalType ==
  ASSUME NEW op \in Logicals, NEW s \in Size, NEW b, NEW a
  PROVE  Logical(op, b, a, s) \in 0 .. Modulus(s) - 1
<1> DEFINE p == BitsOf(b, s)
           q == BitsOf(a, s)
           z == CASE op = "AND" -> p \cap q
                [] op = "OR"  -> p \cup q
                [] op = "XOR" -> (p \cup q) \ (p \cap q)
<1>1. p \subseteq 0 .. Width(s) - 1 /\ q \subseteq 0 .. Width(s) - 1
  BY DEF BitsOf
<1>2. z \in SUBSET (0 .. Width(s) - 1)
  <2> HIDE DEF p, q
  <2> QED
    BY <1>1 DEF Logicals
<1>3. Logical(op, b, a, s) = ValueOf(z)
  BY DEF Logical
<1> HIDE DEF z
<1> QED
  BY <1>2, <1>3, ValueBelow

LEMMA ShiftedLeftType ==
  ASSUME NEW s \in Size, NEW v \in Nat, NEW n \in Nat
  PROVE  ShiftedLeft(v, n, s) \in 0 .. Modulus(s) - 1
<1>1. Modulus(s) \in Nat \ {0} /\ Width(s) \in 0 .. 4 * ByteBits /\ Width(s) \in Nat
  BY Sizes, WidthType
<1>2. CASE n >= Width(s)
  BY <1>1, <1>2 DEF ShiftedLeft
<1>3. CASE n < Width(s)
  <2> DEFINE p == 2 ^ n
             e == 2 ^ (Width(s) - n)
             c == v % e
  <2>1. /\ n \in 0 .. Width(s) /\ n \in 0 .. 4 * ByteBits
        /\ Width(s) - n \in 0 .. 4 * ByteBits /\ ~ (n >= Width(s))
    <3>1. 4 * ByteBits \in Nat
      BY Powers
    <3> QED
      BY <1>1, <1>3, <3>1
  <2>2. p \in Nat \ {0} /\ e \in Nat \ {0} /\ Modulus(s) = p * e
    BY <1>1, <2>1, Powers, Zenon DEF Modulus
  <2>3. ShiftedLeft(v, n, s) = c * p
    BY <2>1, Zenon DEF ShiftedLeft
  <2> HIDE DEF p, e
  <2>4. c \in 0 .. e - 1 /\ 0 \in 0 .. p - 1
    BY <2>2
  <2> HIDE DEF c
  <2>5. c * p + 0 \in 0 .. p * e - 1
    BY <2>2, <2>4, ByteFits
  <2>6. c * p + 0 = c * p
    BY <2>2, <2>4
  <2> QED
    BY <2>2, <2>3, <2>5, <2>6
<1> QED
  BY <1>1, <1>2, <1>3

LEMMA ShiftedRightType ==
  ASSUME NEW v \in Int, NEW n \in Nat
  PROVE  ShiftedRight(v, n) \in Int /\ (v >= 0 => ShiftedRight(v, n) \in 0 .. v)
<1>1. CASE n <= 4 * ByteBits
  <2> DEFINE p == 2 ^ n
  <2>1. p \in Nat \ {0}
    <3>1. n \in 0 .. 4 * ByteBits
      BY <1>1
    <3> QED
      BY <3>1, Powers, Zenon
  <2>2. ShiftedRight(v, n) = v \div p
    BY <1>1 DEF ShiftedRight
  <2> HIDE DEF p
  <2>3. v \div p \in Int /\ (v >= 0 => v \div p >= 0 /\ v \div p <= v)
    BY <2>1, Division, Zenon
  <2> QED
    BY <2>2, <2>3
<1>2. CASE ~ (n <= 4 * ByteBits)
  BY <1>2 DEF ShiftedRight
<1> QED
  BY <1>1, <1>2

LEMMA OneShiftedType ==
  ASSUME NEW s \in Size, NEW n \in Nat
  PROVE  OneShifted(n, s) \subseteq 0 .. Width(s) - 1
BY DEF OneShifted

LEMMA ShiftedType ==
  ASSUME NEW op \in Shifts, NEW s \in Size, NEW b \in 0 .. Modulus(s) - 1,
         NEW n \in Nat, NEW u \in BOOLEAN
  PROVE  Shifted(op, b, n, s, u) \in 0 .. Modulus(s) - 1
<1> DEFINE k == IF u /\ ~ Defined(op, n, s) THEN 0 ELSE n
           x == Shifted(op, b, n, s, u)
<1>1. k \in Nat /\ b \in Nat /\ b \in Int /\ Modulus(s) \in Nat \ {0} /\ 0 \in 0 .. Modulus(s) - 1
  BY Sizes
<1>2. x = CASE op = "SLA" -> ShiftedLeft(b, k, s)
            [] op = "SRL" -> ShiftedRight(b, k)
            [] op = "SRA" -> Low(ShiftedRight(Signed(b, s), k), s)
            [] op = "ROL" -> RotatedLeft(b, k, s)
            [] op = "ROR" -> RotatedRight(b, k, s)
            [] op = "BSE" -> ValueOf(BitsOf(b, s) \cup OneShifted(k, s))
            [] op = "BCL" -> ValueOf(BitsOf(b, s) \ OneShifted(k, s))
  BY DEF Shifted
<1>3. \A v : BitsOf(v, s) \subseteq 0 .. Width(s) - 1
  BY DEF BitsOf
<1> HIDE DEF k, x
<1>4. CASE op = "SLA"
  BY <1>1, <1>2, <1>4, ShiftedLeftType DEF x
<1>5. CASE op = "SRL"
  <2>1. ShiftedRight(b, k) \in 0 .. b
    <3>1. b >= 0
      BY <1>1
    <3> QED
      BY <1>1, <3>1, ShiftedRightType
  <2> QED
    BY <1>1, <1>2, <1>5, <2>1 DEF x
<1>6. CASE op = "SRA"
  <2>1. Signed(b, s) \in Int
    BY TypedType
  <2>2. ShiftedRight(Signed(b, s), k) \in Int
    BY <1>1, <2>1, ShiftedRightType
  <2> QED
    BY <1>2, <1>6, <2>2, LowFits DEF x
<1>7. RotatedLeft(b, k, s) \in 0 .. Modulus(s) - 1 /\ RotatedRight(b, k, s) \in 0 .. Modulus(s) - 1
  <2>1. \A v, w : ValueOf(BitsOf(v, s) \cup BitsOf(w, s)) \in 0 .. Modulus(s) - 1
    BY <1>3, ValueBelow
  <2> QED
    BY <1>1, <2>1 DEF RotatedLeft, RotatedRight
<1>8. CASE op = "ROL" \/ op = "ROR"
  BY <1>2, <1>7, <1>8 DEF x
<1>9. CASE op = "BSE" \/ op = "BCL"
  <2>1. BitsOf(b, s) \cup OneShifted(k, s) \in SUBSET (0 .. Width(s) - 1)
        /\ BitsOf(b, s) \ OneShifted(k, s) \in SUBSET (0 .. Width(s) - 1)
    BY <1>1, <1>3, OneShiftedType
  <2>2. ValueOf(BitsOf(b, s) \cup OneShifted(k, s)) \in 0 .. Modulus(s) - 1
        /\ ValueOf(BitsOf(b, s) \ OneShifted(k, s)) \in 0 .. Modulus(s) - 1
    BY <2>1, ValueBelow
  <2> QED
    BY <1>2, <1>9, <2>2 DEF x
<1> QED
  BY <1>4, <1>5, <1>6, <1>8, <1>9 DEF Shifts, x

LEMMA AtLeastByte ==
  ASSUME NEW s \in Size
  PROVE  Modulus(s) \in Nat /\ Modulus(s) >= 16
<1>1. ByteBits \in Nat /\ ByteBits >= 4
  BY Powers
<1>2. 4 \in 0 .. Width(s) /\ Width(s) \in 0 .. 4 * ByteBits
  <2>1. s \in {1, 2, 4}
    BY Sizes
  <2> QED
    BY <1>1, <2>1 DEF Width
<1>3. 2 ^ 4 <= 2 ^ Width(s) /\ 2 ^ 4 = 16
  BY <1>2, Powers, Zenon
<1>4. Modulus(s) \in Nat
  BY Sizes
<1> QED
  BY <1>3, <1>4 DEF Modulus

LEMMA ComplementType ==
  ASSUME NEW s \in Size, NEW v \in 0 .. Modulus(s) - 1
  PROVE  Complement(v, s) \in 0 .. Modulus(s) - 1
BY Sizes DEF Complement

-----------------------------------------------------------------------------
(* What an instruction may have done.                                      *)

(* What an instruction may have done: broken off, or done.                 *)
Precise(n, m, i) ==
  /\ n.regs = m.regs \/ (i.op \in Loops /\ n.regs = Counted(m.regs))
  /\ n.mem = m.mem /\ n.frame = m.frame /\ n.exstack = m.exstack
  /\ i.op # "RETI" => /\ n.stack = m.stack /\ FlagsOf(n) = FlagsOf(m)
                      /\ n.intr = m.intr /\ n.swap = m.swap
  /\ n.jmp = m.jmp
  /\ n.instr = IF n.err = "DEBUGGER" THEN (m.mut + ParamsSize(i)) % WordMod ELSE m.instr

PushedAfter(n, m, i) ==
  LET top == (m.stack - SIZE32) % WordMod IN
  /\ n.stack = top
  /\ \E k : IsMachine(k) /\ n.mem = Write(k, top, SIZE32, (m.mut + ParamsSize(i)) % WordMod).mem

Done(n, m, i) ==
  /\ n.jmp = m.jmp \/ n.halted
  /\ i.op \notin Moving /\ ~ InMisread(i) => n.mut = (m.mut + ParamsSize(i)) % WordMod
  /\ i.op \in Calls => PushedAfter(n, m, i)

Performed(n, m, i) ==
  /\ IsMachine(n)
  /\ n.err # "OK" => Precise(n, m, i)
  /\ n.err = "OK" => Done(n, m, i)

LEMMA InstructionType ==
  ASSUME NEW i \in Instruction
  PROVE  /\ i.op \in STRING /\ i.size \in Size /\ i.cond \in 0 .. 7 /\ i.offset \in {0, 1}
         /\ i.target \in Operands /\ i.source \in Operands
BY DEF Instruction, Size

LEMMA ParamSizeType ==
  ASSUME NEW o \in Operands, NEW s \in Size, NEW f \in {0, 1}
  PROVE  ParamSize(o, s, f) \in Nat
<1>1. SIZE8 \in Nat /\ SIZE8 + f \in Nat /\ SIZE32 \in Nat /\ s \in Nat
  BY Sizes
<1> QED
  BY <1>1, OperandType DEF ParamSize, REG, REGPTR, IMM, IMMPTR

(* An operand that breaks off leaves everything.                           *)
LEMMA BreaksOff ==
  ASSUME NEW m, NEW k, NEW n, NEW d, NEW i, Same(k, m), Goes(n, k, d), n.err # "OK"
  PROVE  Performed(n, m, i)
BY DEF Performed, Precise, Goes, Same, Control, Data, FlagsOf, OperandErrors

LEMMA SameAgain ==
  ASSUME NEW k, NEW n, NEW m, Same(n, k), Same(k, m)
  PROVE  Same(n, m)
BY DEF Same

LEMMA SameItself ==
  ASSUME NEW m
  PROVE  Same(m, m)
BY DEF Same

LEMMA TwoSteps ==
  ASSUME NEW a \in Word, NEW d \in Nat, NEW e \in Nat
  PROVE  /\ (((a + d) % WordMod) + e) % WordMod = (a + (e + d)) % WordMod
         /\ (((a + d) % WordMod) + e) % WordMod = (a + (d + e)) % WordMod
         /\ (((a + 0) % WordMod) + e) % WordMod = (a + e) % WordMod
         /\ (((a + e) % WordMod) + 0) % WordMod = (a + e) % WordMod
<1>1. a \in Int /\ a + d \in Int /\ a + e \in Int
  BY WordIsNat
<1>2. (((a + d) % WordMod) + e) % WordMod = ((a + d) + e) % WordMod
  BY <1>1, WrapsOnce
<1>3. (a + d) + e = a + (e + d) /\ (a + d) + e = a + (d + e)
  BY <1>1
<1>4. (((a + e) % WordMod) + 0) % WordMod = ((a + e) + 0) % WordMod
  BY <1>1, WrapsOnce
<1>5. (a + e) + 0 = a + e /\ a + 0 = a /\ a % WordMod = a
  BY <1>1, WordIsSmall
<1> QED
  BY <1>2, <1>3, <1>4, <1>5

(* The last step of most instructions: a store, and the flag for zero.     *)
LEMMA StoreGoes ==
  ASSUME NEW m, IsMachine(m), m.err = "OK", NEW o \in Operands, NEW i \in Instruction,
         NEW v \in 0 .. Modulus(i.size) - 1
  PROVE  Goes(Store(m, o, i, v), m, ParamSize(o, i.size, i.offset))
<1>1. v \in Nat /\ v < Modulus(i.size) /\ i.size \in Size /\ i.offset \in {0, 1}
  BY InstructionType, TypedType
<1> QED
  BY <1>1, TargetGoes DEF Store

LEMMA FlagsGo ==
  ASSUME NEW n, NEW m, NEW d, Goes(n, m, d), n.err = "OK", NEW c \in BOOLEAN, NEW x
  PROVE  /\ Goes([n EXCEPT !.carry = c], m, d) /\ [n EXCEPT !.carry = c].err = "OK"
         /\ Goes(SetZero(n, x), m, d) /\ SetZero(n, x).err = "OK"
<1>1. IsMachine(n) /\ (x = 0) \in BOOLEAN
  BY DEF Goes
<1> DEFINE z == (x = 0)
<1>2. SetZero(n, x) = [n EXCEPT !.zero = z]
  BY DEF SetZero
<1> HIDE DEF z
<1>3. z \in BOOLEAN
  BY <1>1 DEF z
<1>4. LET k == [n EXCEPT !.zero = z] IN
      IsMachine(k) /\ Control(k) = Control(n) /\ k.mut = n.mut /\ k.err = n.err
  BY <1>1, <1>3 DEF IsMachine, Control
<1>5. LET k == [n EXCEPT !.carry = c] IN
      IsMachine(k) /\ Control(k) = Control(n) /\ k.mut = n.mut /\ k.err = n.err
  BY <1>1, <1>3 DEF IsMachine, Control
<1> QED
  BY <1>2, <1>4, <1>5 DEF Goes

LEMMA ResultGoes ==
  ASSUME NEW m, IsMachine(m), m.err = "OK", NEW i \in Instruction,
         NEW x \in 0 .. Modulus(i.size) - 1
  PROVE  Goes(Result(m, i, x), m, ParamSize(i.target, i.size, i.offset))
<1> DEFINE n == Store(m, i.target, i, x)
           d == ParamSize(i.target, i.size, i.offset)
<1>1. Goes(n, m, d)
  BY StoreGoes, InstructionType
<1>2. Result(m, i, x) = IF n.err = "OK" THEN SetZero(n, x) ELSE n
  BY DEF Result, Do
<1> HIDE DEF n, d
<1>3. n.err = "OK" => Goes(SetZero(n, x), m, d)
  BY <1>1, FlagsGo
<1> QED
  BY <1>1, <1>2, <1>3 DEF d

(* An instruction that goes through all its operands in its own size.      *)
LEMMA GoesThrough ==
  ASSUME NEW m, IsMachine(m), NEW n, NEW i, Goes(n, m, ParamsSize(i)),
         i.op \notin Calls
  PROVE  Performed(n, m, i)
<1>1. CASE n.err # "OK"
  BY <1>1, BreaksOff, SameItself
<1>2. CASE n.err = "OK"
  BY <1>2 DEF Performed, Done, Goes, Control
<1> QED
  BY <1>1, <1>2

LEMMA Chained ==
  ASSUME NEW m, IsMachine(m), NEW k, NEW n, NEW d \in Nat, NEW e \in Nat,
         Goes(k, m, d), Same(k, m), k.err = "OK", Goes(n, k, e)
  PROVE  Goes(n, m, d + e) /\ Goes(n, m, e + d)
<1>1. m.mut \in Word
  BY Fields
<1>2. /\ (((m.mut + d) % WordMod) + e) % WordMod = (m.mut + (e + d)) % WordMod
      /\ (((m.mut + d) % WordMod) + e) % WordMod = (m.mut + (d + e)) % WordMod
  BY <1>1, TwoSteps
<1> QED
  BY <1>2 DEF Goes, Same

(* The two operands of an instruction, the target read in place.           *)
LEMMA BothRead ==
  ASSUME NEW m, IsMachine(m), m.err = "OK", NEW i \in Instruction, NEW s \in Size
  PROVE  LET n == Source(m, i.source, s, i.offset)
             d == ParamSize(i.source, s, i.offset)
             k == SourceStay(n, i.target, i.size, i.offset)
             l == Source(n, i.target, i.size, i.offset)
             e == ParamSize(i.target, i.size, i.offset)
         IN  /\ d \in Nat /\ e \in Nat
             /\ IsMachine(n) /\ Goes(n, m, d) /\ Same(n, m)
             /\ n.err = "OK" =>
                  /\ n.val \in 0 .. Modulus(s) - 1
                  /\ IsMachine(k) /\ Goes(k, m, d) /\ Same(k, m)
                  /\ IsMachine(l) /\ Goes(l, m, e + d) /\ Same(l, m)
                  /\ k.err = "OK" => k.val \in 0 .. Modulus(i.size) - 1
                  /\ l.err = "OK" => l.val \in 0 .. Modulus(i.size) - 1
<1> DEFINE n == Source(m, i.source, s, i.offset)
           d == ParamSize(i.source, s, i.offset)
           k == SourceStay(n, i.target, i.size, i.offset)
           l == Source(n, i.target, i.size, i.offset)
           e == ParamSize(i.target, i.size, i.offset)
<1>1. i.size \in Size /\ i.offset \in {0, 1} /\ i.target \in Operands /\ i.source \in Operands
  BY InstructionType
<1>2. d \in Nat /\ e \in Nat /\ 0 \in Nat
  BY <1>1, ParamSizeType
<1>3. Reads(n, m, d, s)
  BY <1>1, SourceReads
<1> HIDE DEF n, d
<1>4. IsMachine(n) /\ Goes(n, m, d) /\ Same(n, m) /\ (n.err = "OK" => n.val \in 0 .. Modulus(s) - 1)
  BY <1>3 DEF Reads, Goes
<1>5. CASE n.err = "OK"
  <2>1. Reads(k, n, 0, i.size) /\ Reads(l, n, e, i.size)
    BY <1>1, <1>4, <1>5, SourceReads, SourceStays
  <2> HIDE DEF k, l, e
  <2>2. Goes(k, m, d + 0) /\ Goes(l, m, e + d)
    BY <1>2, <1>4, <1>5, <2>1, Chained DEF Reads
  <2>3. d + 0 = d
    BY <1>2
  <2>4. Same(k, m) /\ Same(l, m)
    BY <1>4, <2>1, SameAgain DEF Reads
  <2>5. IsMachine(k) /\ IsMachine(l)
    BY <2>1 DEF Reads, Goes
  <2>6. /\ k.err = "OK" => k.val \in 0 .. Modulus(i.size) - 1
        /\ l.err = "OK" => l.val \in 0 .. Modulus(i.size) - 1
    BY <2>1 DEF Reads
  <2> QED
    BY <1>2, <1>4, <1>5, <2>2, <2>3, <2>4, <2>5, <2>6 DEF n, d, k, l, e
<1>6. CASE n.err # "OK"
  BY <1>2, <1>4, <1>6 DEF n, d, e
<1> QED
  BY <1>5, <1>6

-----------------------------------------------------------------------------
(* The instructions, one kind after the other.                             *)

(* The prelude of each kind of instruction.                                *)
LEMMA ParamsSizes ==
  ASSUME NEW i
  PROVE  /\ i.op \in NoOperand => ParamsSize(i) = 0
         /\ i.op \in OneOperand => ParamsSize(i) = ParamSize(i.source, i.size, i.offset)
         /\ i.op \in TwoOperands =>
              ParamsSize(i) = ParamSize(i.target, i.size, i.offset)
                              + ParamSize(i.source, i.size, i.offset)
         /\ i.op \in BitOperands =>
              ParamsSize(i) = ParamSize(i.target, i.size, i.offset)
                              + ParamSize(i.source, SIZE8, i.offset)
<1> USE DEF NoOperand, OneOperand, TwoOperands, BitOperands, Jumps, Loops, Calls, Steps,
            Moves, Sums, Quotients, Logicals, Compares, Shifts
<1> QED
  BY DEF ParamsSize, AfterParams

LEMMA Kinds ==
  ASSUME NEW op
  PROVE  /\ op \in Logicals \cup Sums \cup Quotients \cup Moves \cup Compares => op \in TwoOperands
         /\ op \in Shifts \cup {"BTS"} => op \in BitOperands
         /\ op \in Steps \cup Jumps \cup Loops \cup Calls => op \in OneOperand
         /\ op \in TwoOperands \cup BitOperands \cup NoOperand \cup Steps
                   \cup Jumps \cup Loops \cup {"POP", "PUSH", "NOT", "INT"} => op \notin Calls
BY DEF NoOperand, OneOperand, TwoOperands, BitOperands, Jumps, Loops, Calls, Steps,
       Moves, Sums, Quotients, Logicals, Compares, Shifts

(* The instructions that store what they compute of both operands.         *)
LEMMA BothStored ==
  ASSUME NEW m, IsMachine(m), m.err = "OK", NEW i \in Instruction, NEW s \in Size,
         NEW n, n = Source(m, i.source, s, i.offset),
         NEW k, k = SourceStay(n, i.target, i.size, i.offset),
         NEW r,
         n.err = "OK" /\ k.err = "OK" =>
           Goes(r, k, ParamSize(i.target, i.size, i.offset)),
         NEW z, z = IF n.err = "OK" THEN IF k.err = "OK" THEN r ELSE k ELSE n,
         ParamsSize(i) = ParamSize(i.target, i.size, i.offset)
                         + ParamSize(i.source, s, i.offset),
         i.op \notin Calls
  PROVE  Performed(z, m, i)
<1> DEFINE d == ParamSize(i.source, s, i.offset)
           e == ParamSize(i.target, i.size, i.offset)
<1>1. /\ d \in Nat /\ e \in Nat
      /\ IsMachine(n) /\ Goes(n, m, d) /\ Same(n, m)
      /\ n.err = "OK" => IsMachine(k) /\ Goes(k, m, d) /\ Same(k, m)
  BY BothRead
<1> HIDE DEF d, e
<1>2. CASE n.err # "OK"
  BY <1>1, <1>2, BreaksOff, SameItself
<1>3. CASE n.err = "OK" /\ k.err # "OK"
  BY <1>1, <1>3, BreaksOff, SameItself
<1>4. CASE n.err = "OK" /\ k.err = "OK"
  <2>1. Goes(r, m, e + d)
    BY <1>1, <1>4, Chained DEF e
  <2> QED
    BY <1>4, <2>1, GoesThrough DEF d, e
<1> QED
  BY <1>2, <1>3, <1>4

LEMMA BothValues ==
  ASSUME NEW m, IsMachine(m), m.err = "OK", NEW i \in Instruction, NEW s \in Size,
         NEW n, n = Source(m, i.source, s, i.offset),
         NEW k, k = SourceStay(n, i.target, i.size, i.offset),
         n.err = "OK", k.err = "OK"
  PROVE  n.val \in 0 .. Modulus(s) - 1 /\ k.val \in 0 .. Modulus(i.size) - 1 /\ IsMachine(k)
BY BothRead

LEMMA LogicPerformed ==
  ASSUME NEW m, IsMachine(m), m.err = "OK", NEW i \in Instruction, i.op \in Logicals
  PROVE  Performed(Logic(m, i), m, i)
<1> DEFINE n == Source(m, i.source, i.size, i.offset)
           k == SourceStay(n, i.target, i.size, i.offset)
           x == Logical(i.op, k.val, n.val, i.size)
           r == Result(k, i, x)
           z == Logic(m, i)
<1>1. i.size \in Size /\ i.op \in TwoOperands /\ i.op \notin Calls
  BY InstructionType, Kinds
<1>2. z = IF n.err = "OK" THEN IF k.err = "OK" THEN r ELSE k ELSE n
  BY DEF Logic, WithBoth, Do, Src
<1>3. x \in 0 .. Modulus(i.size) - 1
  BY <1>1, LogicalType
<1> HIDE DEF x, z, k, n
<1>4. n.err = "OK" /\ k.err = "OK" => Goes(r, k, ParamSize(i.target, i.size, i.offset))
  BY <1>1, <1>3, BothValues, ResultGoes DEF n, k
<1>5. ParamsSize(i) = ParamSize(i.target, i.size, i.offset)
                      + ParamSize(i.source, i.size, i.offset)
  BY <1>1, ParamsSizes
<1> HIDE DEF r
<1> QED
  BY <1>1, <1>2, <1>4, <1>5, BothStored DEF n, k, z

LEMMA ShiftPerformed ==
  ASSUME NEW m, IsMachine(m), m.err = "OK", NEW i \in Instruction, i.op \in Shifts,
         NEW u \in BOOLEAN
  PROVE  Performed(Shift(m, i, u), m, i)
<1> DEFINE n == Source(m, i.source, SIZE8, i.offset)
           k == SourceStay(n, i.target, i.size, i.offset)
           x == Shifted(i.op, k.val, n.val, i.size, u)
           r == Result(k, i, x)
           z == Shift(m, i, u)
<1>1. i.size \in Size /\ SIZE8 \in Size /\ i.op \in BitOperands /\ i.op \notin Calls
  BY InstructionType, Kinds, Offsets
<1>2. z = IF n.err = "OK" THEN IF k.err = "OK" THEN r ELSE k ELSE n
  BY DEF Shift, WithBoth, Do, SrcByte
<1> HIDE DEF x, z, k, n
<1>3. n.err = "OK" /\ k.err = "OK" => Goes(r, k, ParamSize(i.target, i.size, i.offset))
  <2> SUFFICES ASSUME n.err = "OK", k.err = "OK"
               PROVE  Goes(r, k, ParamSize(i.target, i.size, i.offset))
    OBVIOUS
  <2>1. n.val \in 0 .. Modulus(SIZE8) - 1 /\ k.val \in 0 .. Modulus(i.size) - 1 /\ IsMachine(k)
    BY <1>1, BothValues DEF n, k
  <2>2. n.val \in Nat
    BY <2>1
  <2>3. x \in 0 .. Modulus(i.size) - 1
    BY <1>1, <2>1, <2>2, ShiftedType DEF x
  <2> QED
    BY <2>1, <2>3, ResultGoes
<1>4. ParamsSize(i) = ParamSize(i.target, i.size, i.offset)
                      + ParamSize(i.source, SIZE8, i.offset)
  BY <1>1, ParamsSizes
<1> HIDE DEF r
<1> QED
  BY <1>1, <1>2, <1>3, <1>4, BothStored DEF n, k, z

LEMMA SumPerformed ==
  ASSUME NEW m, IsMachine(m), m.err = "OK", NEW i \in Instruction, i.op \in Sums
  PROVE  Performed(Sum2(m, i), m, i)
<1> DEFINE n == Source(m, i.source, i.size, i.offset)
           k == SourceStay(n, i.target, i.size, i.offset)
           c == Checked(i.op, k.val, n.val, i.size)
           q == Result(k, i, c.x)
           r == IF q.err = "OK" THEN [q EXCEPT !.carry = c.carry] ELSE q
           z == Sum2(m, i)
<1>1. i.size \in Size /\ i.op \in TwoOperands /\ i.op \notin Calls
  BY InstructionType, Kinds
<1>2. z = IF n.err = "OK" THEN IF k.err = "OK" THEN r ELSE k ELSE n
  BY DEF Sum2, WithBoth, Do, Src
<1> HIDE DEF c, z, k, n
<1>3. n.err = "OK" /\ k.err = "OK" => Goes(r, k, ParamSize(i.target, i.size, i.offset))
  <2> SUFFICES ASSUME n.err = "OK", k.err = "OK"
               PROVE  Goes(r, k, ParamSize(i.target, i.size, i.offset))
    OBVIOUS
  <2>1. n.val \in 0 .. Modulus(i.size) - 1 /\ k.val \in 0 .. Modulus(i.size) - 1 /\ IsMachine(k)
    BY <1>1, BothValues DEF n, k
  <2>2. c.x \in 0 .. Modulus(i.size) - 1 /\ c.carry \in BOOLEAN
    BY <1>1, <2>1, CheckedType DEF c
  <2>3. Goes(q, k, ParamSize(i.target, i.size, i.offset))
    BY <2>1, <2>2, ResultGoes
  <2> HIDE DEF q
  <2> QED
    BY <2>2, <2>3, FlagsGo
<1>4. ParamsSize(i) = ParamSize(i.target, i.size, i.offset)
                      + ParamSize(i.source, i.size, i.offset)
  BY <1>1, ParamsSizes
<1> HIDE DEF r
<1> QED
  BY <1>1, <1>2, <1>3, <1>4, BothStored DEF n, k, z

(* A division may break off between its operands and its result.           *)
LEMMA QuotientPerformed ==
  ASSUME NEW m, IsMachine(m), m.err = "OK", NEW i \in Instruction, i.op \in Quotients
  PROVE  Performed(Quotient(m, i), m, i)
<1> DEFINE n == Source(m, i.source, i.size, i.offset)
           k == SourceStay(n, i.target, i.size, i.offset)
           x == Divided(i.op, k.val, n.val, i.size)
           r == Result(k, i, x)
           p == Panic(k, "DIVZERO")
           y == IF n.err = "OK" THEN IF k.err = "OK" THEN r ELSE k ELSE n
           z == Quotient(m, i)
<1>1. i.size \in Size /\ i.op \in TwoOperands /\ i.op \notin Calls
  BY InstructionType, Kinds
<1>2. z = IF n.err = "OK" THEN IF k.err = "OK" THEN IF n.val = 0 THEN p ELSE r ELSE k ELSE n
  BY DEF Quotient, WithBoth, Do, Src
<1>3. ParamsSize(i) = ParamSize(i.target, i.size, i.offset)
                      + ParamSize(i.source, i.size, i.offset)
  BY <1>1, ParamsSizes
<1> HIDE DEF x, z, k, n, p
<1>4. CASE n.err = "OK" /\ k.err = "OK" /\ n.val = 0
  <2>1. z = p
    BY <1>2, <1>4
  <2>2. IsMachine(k) /\ Same(k, m)
    BY <1>1, <1>4, BothRead DEF n, k
  <2>3. IsMachine(p) /\ Same(p, k) /\ p.err = "DIVZERO"
    BY <2>2, NewErr DEF Errors, p
  <2> HIDE DEF p
  <2> QED
    BY <2>1, <2>2, <2>3 DEF Performed, Precise, Same, Control, Data, FlagsOf, z
<1>5. CASE ~ (n.err = "OK" /\ k.err = "OK" /\ n.val = 0)
  <2>1. z = y
    BY <1>2, <1>5
  <2>2. n.err = "OK" /\ k.err = "OK" => Goes(r, k, ParamSize(i.target, i.size, i.offset))
    <3> SUFFICES ASSUME n.err = "OK", k.err = "OK"
                 PROVE  Goes(r, k, ParamSize(i.target, i.size, i.offset))
      OBVIOUS
    <3>1. n.val \in 0 .. Modulus(i.size) - 1 /\ k.val \in 0 .. Modulus(i.size) - 1 /\ IsMachine(k)
      BY <1>1, BothValues DEF n, k
    <3>2. x \in 0 .. Modulus(i.size) - 1
      BY <1>1, <1>5, <3>1, DividedType DEF x
    <3> QED
      BY <3>1, <3>2, ResultGoes
  <2> HIDE DEF r
  <2> QED
    BY <1>1, <1>3, <2>1, <2>2, BothStored DEF n, k, z
<1> QED
  BY <1>4, <1>5

(* Those that read both operands and go on.                                *)
LEMMA BothCompared ==
  ASSUME NEW m, IsMachine(m), m.err = "OK", NEW i \in Instruction, NEW s \in Size,
         NEW n, n = Source(m, i.source, s, i.offset),
         NEW l, l = Source(n, i.target, i.size, i.offset),
         NEW r,
         n.err = "OK" /\ l.err = "OK" =>
           \A d : Goes(l, m, d) => Goes(r, m, d),
         NEW z, z = IF n.err = "OK" THEN IF l.err = "OK" THEN r ELSE l ELSE n,
         ParamsSize(i) = ParamSize(i.target, i.size, i.offset)
                         + ParamSize(i.source, s, i.offset),
         i.op \notin Calls
  PROVE  Performed(z, m, i)
<1> DEFINE d == ParamSize(i.source, s, i.offset)
           e == ParamSize(i.target, i.size, i.offset)
<1>1. /\ d \in Nat /\ e \in Nat
      /\ IsMachine(n) /\ Goes(n, m, d) /\ Same(n, m)
      /\ n.err = "OK" => IsMachine(l) /\ Goes(l, m, e + d) /\ Same(l, m)
  BY BothRead
<1> HIDE DEF d, e
<1>2. CASE n.err # "OK"
  BY <1>1, <1>2, BreaksOff, SameItself
<1>3. CASE n.err = "OK" /\ l.err # "OK"
  BY <1>1, <1>3, BreaksOff, SameItself
<1>4. CASE n.err = "OK" /\ l.err = "OK"
  <2>1. Goes(r, m, e + d)
    BY <1>1, <1>4
  <2> QED
    BY <1>4, <2>1, GoesThrough DEF d, e
<1> QED
  BY <1>2, <1>3, <1>4

LEMMA ComparePerformed ==
  ASSUME NEW m, IsMachine(m), m.err = "OK", NEW i \in Instruction, i.op \in Compares
  PROVE  Performed(Compare(m, i), m, i)
<1> DEFINE n == Source(m, i.source, i.size, i.offset)
           l == Source(n, i.target, i.size, i.offset)
           c == Checked(i.op, l.val, n.val, i.size)
           r == SetZero([l EXCEPT !.carry = c.carry], c.x)
           z == Compare(m, i)
<1>1. i.size \in Size /\ i.op \in TwoOperands /\ i.op \notin Calls
  BY InstructionType, Kinds
<1>2. z = IF n.err = "OK" THEN IF l.err = "OK" THEN r ELSE l ELSE n
  BY DEF Compare, Do, Src
<1> HIDE DEF c, z, l, n
<1>3. n.err = "OK" /\ l.err = "OK" => \A d : Goes(l, m, d) => Goes(r, m, d)
  <2> SUFFICES ASSUME n.err = "OK", l.err = "OK", NEW d, Goes(l, m, d)
               PROVE  Goes(r, m, d)
    OBVIOUS
  <2>1. n.val \in 0 .. Modulus(i.size) - 1 /\ l.val \in 0 .. Modulus(i.size) - 1
    BY <1>1, BothRead DEF n, l
  <2>2. c.carry \in BOOLEAN
    BY <1>1, <2>1, CheckedType DEF c
  <2>3. Goes([l EXCEPT !.carry = c.carry], m, d) /\ [l EXCEPT !.carry = c.carry].err = "OK"
    BY <2>2, FlagsGo
  <2> QED
    BY <2>2, <2>3, FlagsGo
<1>4. ParamsSize(i) = ParamSize(i.target, i.size, i.offset)
                      + ParamSize(i.source, i.size, i.offset)
  BY <1>1, ParamsSizes
<1> HIDE DEF r
<1> QED
  BY <1>1, <1>2, <1>3, <1>4, BothCompared DEF n, l, z

LEMMA TestPerformed ==
  ASSUME NEW m, IsMachine(m), m.err = "OK", NEW i \in Instruction, i.op = "BTS",
         NEW u \in BOOLEAN
  PROVE  Performed(TestBit(m, i, u), m, i)
<1> DEFINE n == Source(m, i.source, SIZE8, i.offset)
           l == Source(n, i.target, i.size, i.offset)
           count == IF u /\ n.val >= IntBits THEN 0 ELSE n.val
           b == (BitsOf(l.val, i.size) \cap OneShifted(count, i.size) = {})
           r == [l EXCEPT !.zero = b]
           z == TestBit(m, i, u)
<1>1. i.size \in Size /\ SIZE8 \in Size /\ i.op \in BitOperands /\ i.op \notin Calls
  BY InstructionType, Kinds, Offsets
<1>2. z = IF n.err = "OK" THEN IF l.err = "OK" THEN r ELSE l ELSE n
  BY DEF TestBit, Do, SrcByte
<1>3. b \in BOOLEAN
  OBVIOUS
<1> HIDE DEF b, z, l, n
<1>4. n.err = "OK" /\ l.err = "OK" => \A d : Goes(l, m, d) => Goes(r, m, d)
  <2> SUFFICES ASSUME n.err = "OK", l.err = "OK", NEW d, Goes(l, m, d)
               PROVE  Goes(r, m, d)
    OBVIOUS
  <2>1. IsMachine(r) /\ Control(r) = Control(l) /\ r.mut = l.mut /\ r.err = l.err
    BY <1>3 DEF IsMachine, Control, Goes
  <2> QED
    BY <2>1 DEF Goes
<1>5. ParamsSize(i) = ParamSize(i.target, i.size, i.offset)
                      + ParamSize(i.source, SIZE8, i.offset)
  BY <1>1, ParamsSizes
<1> HIDE DEF r
<1> QED
  BY <1>1, <1>2, <1>4, <1>5, BothCompared DEF n, l, z

(* An operand is read, and another gone through.                           *)
LEMMA ReadThenGoes ==
  ASSUME NEW m, IsMachine(m), m.err = "OK", NEW i \in Instruction,
         NEW d \in Nat, NEW e \in Nat, NEW s,
         NEW n, Reads(n, m, d, s),
         NEW r, n.err = "OK" => Goes(r, n, e),
         NEW z, z = IF n.err = "OK" THEN r ELSE n,
         i.op \notin Calls,
         ~ InMisread(i) => ParamsSize(i) = e + d
  PROVE  Performed(z, m, i)
<1>1. Goes(n, m, d) /\ Same(n, m) /\ IsMachine(n)
  BY DEF Reads, Goes
<1>2. CASE n.err # "OK"
  BY <1>1, <1>2, BreaksOff, SameItself
<1>3. CASE n.err = "OK" /\ r.err # "OK"
  BY <1>1, <1>3, BreaksOff
<1>4. CASE n.err = "OK" /\ r.err = "OK"
  <2>1. Goes(r, m, e + d)
    BY <1>1, <1>4, Chained
  <2> QED
    BY <1>4, <2>1 DEF Performed, Done, Goes, Control
<1> QED
  BY <1>2, <1>3, <1>4

LEMMA MovePerformed ==
  ASSUME NEW m, IsMachine(m), m.err = "OK", NEW i \in Instruction, i.op \in Moves
  PROVE  Performed(Move(m, i), m, i)
<1> DEFINE n == Source(m, i.source, i.size, i.offset)
           d == ParamSize(i.source, i.size, i.offset)
           e == ParamSize(i.target, i.size, i.offset)
           clear == (i.op = "MOVZ" /\ i.size # SIZE32)
           r == Target(n, i.target, n.val, i.size, i.offset, clear)
           z == Move(m, i)
<1>1. /\ i.size \in Size /\ i.op \in TwoOperands /\ i.op \notin Calls
      /\ i.target \in Operands /\ i.source \in Operands /\ i.offset \in {0, 1}
  BY InstructionType, Kinds
<1>2. z = IF n.err = "OK" THEN r ELSE n
  BY DEF Move, Do, Src
<1>3. d \in Nat /\ e \in Nat /\ clear \in BOOLEAN /\ ParamsSize(i) = e + d
  BY <1>1, ParamSizeType, ParamsSizes
<1>4. Reads(n, m, d, i.size)
  BY <1>1, SourceReads
<1> HIDE DEF z, n, d, clear
<1>5. n.err = "OK" => Goes(r, n, e)
  <2> SUFFICES ASSUME n.err = "OK"
               PROVE  Goes(r, n, e)
    OBVIOUS
  <2>1. n.val \in 0 .. Modulus(i.size) - 1 /\ IsMachine(n)
    BY <1>4 DEF Reads, Goes
  <2>2. n.val \in Nat /\ n.val < Modulus(i.size)
    BY <1>1, <2>1, TypedType
  <2> QED
    BY <1>1, <1>3, <2>1, <2>2, TargetGoes
<1> HIDE DEF r, e
<1> QED
  BY <1>1, <1>2, <1>3, <1>4, <1>5, ReadThenGoes DEF z

LEMMA NotPerformed ==
  ASSUME NEW m, IsMachine(m), m.err = "OK", NEW i \in Instruction, i.op = "NOT"
  PROVE  Performed(Not(m, i), m, i)
<1> DEFINE n == SourceStay(m, i.source, i.size, i.offset)
           e == ParamSize(i.source, i.size, i.offset)
           x == Complement(n.val, i.size)
           q == Store(n, i.source, i, x)
           r == IF q.err = "OK" THEN SetZero(q, x) ELSE q
           z == Not(m, i)
<1>1. /\ i.size \in Size /\ i.op \in OneOperand /\ i.op \notin Calls
      /\ i.source \in Operands /\ i.offset \in {0, 1}
  BY InstructionType, Kinds DEF OneOperand
<1>2. z = IF n.err = "OK" THEN r ELSE n
  BY DEF Not, Do
<1>3. e \in Nat /\ 0 \in Nat /\ ParamsSize(i) = e /\ e + 0 = e
  BY <1>1, ParamSizeType, ParamsSizes
<1>4. Reads(n, m, 0, i.size)
  BY <1>1, SourceStays
<1> HIDE DEF z, n
<1>5. n.err = "OK" => Goes(r, n, e)
  <2> SUFFICES ASSUME n.err = "OK"
               PROVE  Goes(r, n, e)
    OBVIOUS
  <2>1. n.val \in 0 .. Modulus(i.size) - 1 /\ IsMachine(n)
    BY <1>4 DEF Reads, Goes
  <2>2. x \in 0 .. Modulus(i.size) - 1
    BY <1>1, <2>1, ComplementType
  <2> HIDE DEF x
  <2>3. Goes(q, n, e)
    BY <1>1, <2>1, <2>2, StoreGoes
  <2> HIDE DEF q
  <2> QED
    BY <2>3, FlagsGo
<1> HIDE DEF r, e
<1> QED
  BY <1>1, <1>2, <1>3, <1>4, <1>5, ReadThenGoes DEF z

LEMMA StepPerformed ==
  ASSUME NEW m, IsMachine(m), m.err = "OK", NEW i \in Instruction, i.op \in Steps
  PROVE  Performed(StepBy(m, i), m, i)
<1> DEFINE n == SourceStay(m, i.source, i.size, i.offset)
           e == ParamSize(i.source, i.size, i.offset)
           by == 2 ^ i.target.mode
           c == Checked(i.op, n.val, by, i.size)
           q == Store(n, i.source, i, c.x)
           r == IF q.err = "OK" THEN SetZero([q EXCEPT !.carry = c.carry], c.x) ELSE q
           z == StepBy(m, i)
<1>1. /\ i.size \in Size /\ i.op \in OneOperand /\ i.op \notin Calls
      /\ i.source \in Operands /\ i.target \in Operands /\ i.offset \in {0, 1}
  BY InstructionType, Kinds
<1>2. z = IF n.err = "OK" THEN r ELSE n
  BY DEF StepBy, Do
<1>3. e \in Nat /\ 0 \in Nat /\ ParamsSize(i) = e /\ e + 0 = e
  BY <1>1, ParamSizeType, ParamsSizes
<1>4. Reads(n, m, 0, i.size)
  BY <1>1, SourceStays
<1>5. by \in 0 .. Modulus(i.size) - 1
  <2>1. i.target.mode \in {0, 1, 2, 3}
    BY <1>1, OperandType DEF REG, REGPTR, IMM, IMMPTR
  <2>2. 2 ^ 0 = 1 /\ 2 ^ 1 = 2 /\ 2 ^ 2 = 4 /\ 2 ^ 3 = 8
    OBVIOUS
  <2>3. by \in {1, 2, 4, 8}
    <3>1. CASE i.target.mode = 0
      BY <2>2, <3>1
    <3>2. CASE i.target.mode = 1
      BY <2>2, <3>2
    <3>3. CASE i.target.mode = 2
      BY <2>2, <3>3
    <3>4. CASE i.target.mode = 3
      BY <2>2, <3>4
    <3> QED
      BY <2>1, <3>1, <3>2, <3>3, <3>4
  <2>4. Modulus(i.size) \in Nat /\ Modulus(i.size) >= 16
    BY <1>1, AtLeastByte
  <2> HIDE DEF by
  <2> QED
    BY <2>3, <2>4
<1> HIDE DEF z, n, by
<1>6. n.err = "OK" => Goes(r, n, e)
  <2> SUFFICES ASSUME n.err = "OK"
               PROVE  Goes(r, n, e)
    OBVIOUS
  <2>1. n.val \in 0 .. Modulus(i.size) - 1 /\ IsMachine(n)
    BY <1>4 DEF Reads, Goes
  <2>2. c.x \in 0 .. Modulus(i.size) - 1 /\ c.carry \in BOOLEAN
    BY <1>1, <1>5, <2>1, CheckedType
  <2> HIDE DEF c
  <2>3. Goes(q, n, e)
    BY <1>1, <2>1, <2>2, StoreGoes
  <2> HIDE DEF q
  <2>4. q.err = "OK" =>
          /\ Goes([q EXCEPT !.carry = c.carry], n, e)
          /\ [q EXCEPT !.carry = c.carry].err = "OK"
    BY <2>2, <2>3, FlagsGo
  <2> QED
    BY <2>2, <2>3, <2>4, FlagsGo
<1> HIDE DEF r, e
<1> QED
  BY <1>1, <1>2, <1>3, <1>4, <1>6, ReadThenGoes DEF z

LEMMA InPerformed ==
  ASSUME NEW m, IsMachine(m), m.err = "OK", NEW i \in Instruction, i.op = "IN",
         i.size = SIZE32, NEW port \in Word
  PROVE  Performed(In(m, i, port), m, i)
<1> DEFINE n == Source(m, i.source, SIZE32, 0)
           d == ParamSize(i.source, SIZE32, 0)
           o == InTarget(i)
           e == ParamSize(o, i.size, i.offset)
           r == Store(n, o, i, port)
           z == In(m, i, port)
<1>1. /\ i.size \in Size /\ i.op \in TwoOperands /\ i.op \notin Calls
      /\ i.target \in Operands /\ i.source \in Operands /\ i.offset \in {0, 1} /\ 0 \in {0, 1}
      /\ SIZE32 \in Size
  BY InstructionType, Offsets DEF TwoOperands, Calls
<1>2. z = IF n.err = "OK" THEN r ELSE n
  BY DEF In, Do
<1>3. o \in Operands
  <2>1. CASE i.source.mode = REGPTR /\ i.offset = 1
    <3>1. i.target.mode \in 0 .. 3 /\ i.source.disp \in Byte /\ i.target.reg \in Byte
      BY <1>1 DEF Operands
    <3> DEFINE w == (i.source.disp + i.target.val * Modulus(SIZE8)) % WordMod
    <3>2. w \in Word
      <4>1. i.source.disp \in Int /\ i.target.val \in Int /\ Modulus(SIZE8) \in Int
        <5>1. i.source.disp \in Word
          BY <3>1, Sizes
        <5>2. Modulus(SIZE8) \in Int
          BY Sizes
        <5> QED
          BY <1>1, <5>1, <5>2, OperandType, WordIsNat
      <4>2. i.source.disp + i.target.val * Modulus(SIZE8) \in Int
        BY <4>1
      <4> QED
        BY <4>2, Wraps
    <3> HIDE DEF w
    <3>3. o = [mode |-> i.target.mode, reg |-> i.source.disp, disp |-> i.target.reg, val |-> w]
      BY <2>1 DEF InTarget, w
    <3> QED
      BY <3>1, <3>2, <3>3 DEF Operands
  <2>2. CASE ~ (i.source.mode = REGPTR /\ i.offset = 1)
    BY <1>1, <2>2 DEF InTarget
  <2> QED
    BY <2>1, <2>2
<1>4. ~ InMisread(i) => ParamsSize(i) = e + d
  <2> SUFFICES ASSUME ~ (i.source.mode = REGPTR /\ i.offset = 1)
               PROVE  ParamsSize(i) = e + d
    BY DEF InMisread
  <2>1. o = i.target
    BY DEF InTarget
  <2>2. ParamSize(i.source, SIZE32, 0) = ParamSize(i.source, SIZE32, i.offset)
    BY <1>1, OperandType DEF ParamSize, REG, REGPTR, IMM, IMMPTR
  <2> QED
    BY <1>1, <2>1, <2>2, ParamsSizes
<1>5. Reads(n, m, d, SIZE32)
  BY <1>1, SourceReads
<1> HIDE DEF z, n, o
<1>6. d \in Nat /\ e \in Nat
  BY <1>1, <1>3, ParamSizeType
<1>7. n.err = "OK" => Goes(r, n, e)
  <2>1. port \in 0 .. Modulus(i.size) - 1
    BY DEF Word, WordMod
  <2> QED
    BY <1>3, <1>5, <2>1, StoreGoes DEF Reads, Goes
<1> HIDE DEF r, e, d
<1> QED
  BY <1>1, <1>2, <1>4, <1>5, <1>6, <1>7, ReadThenGoes DEF z

LEMMA OutPerformed ==
  ASSUME NEW m, IsMachine(m), m.err = "OK", NEW i \in Instruction, i.op = "OUT",
         i.size = SIZE32
  PROVE  Performed(Out(m, i), m, i)
<1> DEFINE n == Source(m, i.source, i.size, i.offset)
           d == ParamSize(i.source, i.size, i.offset)
           e == ParamSize(i.target, i.size, i.offset)
           r == Source(n, i.target, SIZE32, i.offset)
           z == Out(m, i)
<1>1. /\ i.size \in Size /\ i.op \in TwoOperands /\ i.op \notin Calls
      /\ i.target \in Operands /\ i.source \in Operands /\ i.offset \in {0, 1}
  BY InstructionType DEF TwoOperands, Calls
<1>2. z = IF n.err = "OK" THEN r ELSE n
  BY DEF Out, Do, Src
<1>3. d \in Nat /\ e \in Nat /\ ParamsSize(i) = e + d
  BY <1>1, ParamSizeType, ParamsSizes
<1>4. Reads(n, m, d, i.size)
  BY <1>1, SourceReads
<1> HIDE DEF z, n, d
<1>5. n.err = "OK" => Goes(r, n, e)
  BY <1>1, <1>4, SourceReads DEF Reads, Goes
<1> HIDE DEF r, e
<1> QED
  BY <1>1, <1>2, <1>3, <1>4, <1>5, ReadThenGoes DEF z

LEMMA RtaPerformed ==
  ASSUME NEW m, IsMachine(m), m.err = "OK", NEW i \in Instruction, i.op = "RTA"
  PROVE  Performed(Rta(m, i), m, i)
<1> DEFINE n == Source(m, i.source, i.size, i.offset)
           d == ParamSize(i.source, i.size, i.offset)
           e == ParamSize(i.target, i.size, i.offset)
           w == (n.instr + Signed(n.val, i.size)) % WordMod
           r == Target(n, i.target, w, SIZE32, i.offset, FALSE)
           z == Rta(m, i)
<1>1. /\ i.size \in Size /\ i.op \in TwoOperands /\ i.op \notin Calls /\ SIZE32 \in Size
      /\ i.target \in Operands /\ i.source \in Operands /\ i.offset \in {0, 1}
  BY InstructionType, Offsets DEF TwoOperands, Calls
<1>2. z = IF n.err = "OK" THEN r ELSE n
  BY DEF Rta, Do, Src
<1>3. d \in Nat /\ e \in Nat /\ ParamsSize(i) = e + d
  BY <1>1, ParamSizeType, ParamsSizes
<1>4. Reads(n, m, d, i.size)
  BY <1>1, SourceReads
<1> HIDE DEF z, n, d
<1>5. n.err = "OK" => Goes(r, n, e)
  <2> SUFFICES ASSUME n.err = "OK"
               PROVE  Goes(r, n, e)
    OBVIOUS
  <2>1. n.val \in 0 .. Modulus(i.size) - 1 /\ IsMachine(n)
    BY <1>4 DEF Reads, Goes
  <2>2. w \in Word
    <3>1. n.instr \in Int /\ Signed(n.val, i.size) \in Int
      BY <1>1, <2>1, Fields, WordIsNat, TypedType
    <3>2. n.instr + Signed(n.val, i.size) \in Int
      BY <3>1
    <3> QED
      BY <3>2, Wraps
  <2>3. w \in Nat /\ w < Modulus(SIZE32)
    <3> HIDE DEF w
    <3> QED
      BY <2>2, WordIsNat DEF WordMod
  <2> HIDE DEF w
  <2>4. Goes(r, n, ParamSize(i.target, SIZE32, i.offset))
    BY <1>1, <2>1, <2>3, TargetGoes
  <2>5. CASE i.target.mode = IMM
    <3>1. r = Panic(n, "BADIMMEDIATE")
      BY <2>5 DEF Target, REG, REGPTR, IMM, IMMPTR
    <3>2. "BADIMMEDIATE" \in Errors
      BY DEF Errors
    <3>3. IsMachine(n)
      BY <2>1
    <3> HIDE DEF r
    <3>4. r.err = "BADIMMEDIATE"
      BY <3>1, <3>2, <3>3, NewErr
    <3> QED
      BY <2>4, <3>4 DEF Goes
  <2>6. CASE i.target.mode # IMM
    <3>1. ParamSize(i.target, SIZE32, i.offset) = e
      BY <1>1, <2>6, OperandType DEF ParamSize, REG, REGPTR, IMM, IMMPTR
    <3> QED
      BY <2>4, <3>1
  <2> QED
    BY <2>5, <2>6
<1> HIDE DEF r, e
<1> QED
  BY <1>1, <1>2, <1>3, <1>4, <1>5, ReadThenGoes DEF z

LEMMA DestinationType ==
  ASSUME NEW m, IsMachine(m), NEW i \in Instruction, NEW v \in 0 .. Modulus(i.size) - 1
  PROVE  Destination(m, i, v) \in Word
<1>1. i.size \in Size
  BY InstructionType
<1>2. v \in Word
  BY <1>1, Sizes DEF Word
<1>3. (m.instr + Signed(v, i.size)) % WordMod \in Word
  <2>1. m.instr \in Int /\ Signed(v, i.size) \in Int
    BY <1>1, Fields, WordIsNat, TypedType
  <2>2. m.instr + Signed(v, i.size) \in Int
    BY <2>1
  <2> QED
    BY <2>2, Wraps
<1> QED
  BY <1>2, <1>3, Zenon DEF Destination

LEMMA JumpGoes ==
  ASSUME NEW m, IsMachine(m), m.err = "OK", NEW i \in Instruction
  PROVE  LET n == Jump(m, i) IN
         /\ IsMachine(n) /\ Same(n, m) /\ n.err \in OperandErrors \cup {"OK"}
<1> DEFINE k == Source(m, i.source, i.size, i.offset)
           d == ParamSize(i.source, i.size, i.offset)
           w == Destination(k, i, k.val)
           n == Jump(m, i)
<1>1. i.size \in Size /\ i.source \in Operands /\ i.offset \in {0, 1}
  BY InstructionType
<1>2. Reads(k, m, d, i.size)
  BY <1>1, SourceReads
<1>3. n = IF k.err = "OK" THEN [k EXCEPT !.mut = w] ELSE k
  BY DEF Jump, Src, Do
<1> HIDE DEF k, d, n
<1>4. IsMachine(k) /\ Same(k, m) /\ k.err \in OperandErrors \cup {"OK"}
  BY <1>2 DEF Reads, Goes
<1>5. CASE k.err = "OK"
  <2>1. w \in Word
    BY <1>2, <1>4, <1>5, DestinationType DEF Reads
  <2> HIDE DEF w
  <2>2. IsMachine(n) /\ Same(n, k) /\ n.err = k.err
    BY <1>3, <1>4, <1>5, <2>1, NewMut
  <2> QED
    BY <1>4, <2>2, SameAgain DEF n
<1>6. CASE k.err # "OK"
  BY <1>3, <1>4, <1>6 DEF n
<1> QED
  BY <1>5, <1>6

LEMMA JumpPerformed ==
  ASSUME NEW m, IsMachine(m), m.err = "OK", NEW i \in Instruction, i.op \in Jumps
  PROVE  Performed(Jump(m, i), m, i)
<1> DEFINE n == Jump(m, i)
<1>1. IsMachine(n) /\ Same(n, m) /\ n.err \in OperandErrors \cup {"OK"}
  BY JumpGoes
<1>2. i.op \in Moving /\ i.op \notin Calls
  BY Kinds DEF Moving
<1> HIDE DEF n
<1>3. Performed(n, m, i)
  BY <1>1, <1>2 DEF Performed, Precise, Done, Same, Control, Data, FlagsOf, OperandErrors
<1> QED
  BY <1>3 DEF n

LEMMA LoopPerformed ==
  ASSUME NEW m, IsMachine(m), m.err = "OK", NEW i \in Instruction, i.op \in Loops
  PROVE  Performed(Loop(m, i), m, i)
<1> DEFINE r == RegisterCount - 1
           n == [m EXCEPT !.regs[r] = (@ - 1) % WordMod]
           k == Jump(n, i)
           l == SkipParams(n, i)
           z == Loop(m, i)
<1>1. i.op \in Moving /\ i.op \notin Calls /\ i.op \in OneOperand
  BY Kinds DEF Moving
<1>2. r \in 0 .. RegisterCount - 1
  BY CpuAssumption
<1>3. (m.regs[r] - 1) % WordMod \in Word
  <2>1. m.regs[r] \in Word
    BY <1>2, Fields
  <2>2. m.regs[r] - 1 \in Int
    BY <2>1, WordIsNat
  <2> QED
    BY <2>2, Wraps
<1>4. /\ IsMachine(n) /\ n.err = "OK" /\ n.regs = Counted(m.regs) /\ n.mem = m.mem
      /\ n.stack = m.stack /\ n.exstack = m.exstack /\ n.frame = m.frame
      /\ Control(n) = Control(m) /\ FlagsOf(n) = FlagsOf(m)
  BY <1>2, <1>3 DEF IsMachine, Counted, Control, FlagsOf
<1>5. z = IF n.regs[r] # 0 THEN k ELSE l
  BY DEF Loop
<1> HIDE DEF n, r, z
<1>6. IsMachine(k) /\ Same(k, n) /\ k.err \in OperandErrors \cup {"OK"}
  BY <1>4, JumpGoes
<1>7. IsMachine(l) /\ Same(l, n) /\ l.err = "OK"
  <2>1. ParamsSize(i) \in Nat /\ n.mut \in Int
    BY <1>1, <1>4, ParamsSizes, InstructionType, ParamSizeType, Fields, WordIsNat
  <2>2. n.mut + ParamsSize(i) \in Int
    BY <2>1
  <2> QED
    BY <1>4, <2>2, Wraps, NewMut DEF SkipParams
<1> HIDE DEF k, l
<1>8. /\ IsMachine(z) /\ Same(z, n) /\ z.err \in OperandErrors \cup {"OK"}
  BY <1>5, <1>6, <1>7
<1>9. Performed(z, m, i)
  BY <1>1, <1>4, <1>8
     DEF Performed, Precise, Done, Same, Control, Data, FlagsOf, OperandErrors
<1> QED
  BY <1>9 DEF z

LEMMA CallPerformed ==
  ASSUME NEW m, IsMachine(m), m.err = "OK", NEW i \in Instruction, i.op \in Calls
  PROVE  Performed(Call(m, i), m, i)
<1> DEFINE k == Source(m, i.source, i.size, i.offset)
           d == ParamSize(i.source, i.size, i.offset)
           w == Destination(k, i, k.val)
           p == Push(k, k.mut, SIZE32)
           n == Call(m, i)
<1>1. i.size \in Size /\ i.source \in Operands /\ i.offset \in {0, 1} /\ SIZE32 \in Size
  BY InstructionType, Offsets
<1>2. i.op \in Moving /\ i.op \in OneOperand
  BY Kinds DEF Moving
<1>3. ParamsSize(i) = d
  BY <1>2, ParamsSizes
<1>4. Reads(k, m, d, i.size)
  BY <1>1, SourceReads
<1>5. n = IF k.err = "OK" THEN [p EXCEPT !.mut = w] ELSE k
  BY DEF Call, Src, Do
<1> HIDE DEF k, d, n
<1>6. IsMachine(k) /\ Goes(k, m, d) /\ Same(k, m)
  BY <1>4 DEF Reads, Goes
<1>7. CASE k.err # "OK"
  <2>1. n = k
    BY <1>5, <1>7
  <2> QED
    BY <1>6, <1>7, <2>1, BreaksOff, SameItself DEF n
<1>8. CASE k.err = "OK"
  <2>1. w \in Word
    BY <1>4, <1>6, <1>8, DestinationType DEF Reads
  <2>2. k.mut \in Nat /\ k.mut = (m.mut + ParamsSize(i)) % WordMod
    BY <1>3, <1>6, <1>8, Fields, WordIsNat DEF Goes
  <2>3. /\ IsMachine(p) /\ Control(p) = Control(k) /\ p.err = k.err
        /\ p.stack = (k.stack - SIZE32) % WordMod
        /\ p.mem = Write(k, (k.stack - SIZE32) % WordMod, SIZE32, k.mut).mem
    BY <1>1, <1>6, <2>2, Pushes
  <2> HIDE DEF w, p
  <2>4. n = [p EXCEPT !.mut = w]
    BY <1>5, <1>8
  <2>5. IsMachine(n) /\ Same(n, p) /\ n.err = p.err
    BY <2>1, <2>3, <2>4, NewMut
  <2>6. n.stack = p.stack /\ n.mem = p.mem /\ n.jmp = p.jmp /\ p.jmp = k.jmp
    BY <2>3, <2>5 DEF Same, Data, Control
  <2>7. k.mem = m.mem /\ k.stack = m.stack /\ k.jmp = m.jmp
    BY <1>6 DEF Same, Data, Control
  <2>8. PushedAfter(n, m, i)
    <3> DEFINE top == (m.stack - SIZE32) % WordMod
    <3>1. n.mem = Write(k, top, SIZE32, (m.mut + ParamsSize(i)) % WordMod).mem
      BY <2>2, <2>3, <2>6, <2>7
    <3>2. n.stack = top
      BY <2>3, <2>6, <2>7
    <3> HIDE DEF top
    <3> QED
      BY <1>6, <3>1, <3>2 DEF PushedAfter, top
  <2>9. n.err = "OK" /\ n.jmp = m.jmp
    BY <1>8, <2>3, <2>5, <2>6, <2>7
  <2>10. Performed(n, m, i)
    BY <1>2, <2>5, <2>8, <2>9 DEF Performed, Done
  <2> QED
    BY <2>10 DEF n
<1> QED
  BY <1>7, <1>8

LEMMA PushPerformed ==
  ASSUME NEW m, IsMachine(m), m.err = "OK", NEW i \in Instruction, i.op = "PUSH"
  PROVE  Performed(PushFrom(m, i), m, i)
<1> DEFINE k == Source(m, i.source, i.size, i.offset)
           d == ParamSize(i.source, i.size, i.offset)
           p == Push(k, k.val, i.size)
           n == PushFrom(m, i)
<1>1. i.size \in Size /\ i.source \in Operands /\ i.offset \in {0, 1}
  BY InstructionType
<1>2. i.op \in OneOperand /\ i.op \notin Calls
  BY Kinds DEF OneOperand
<1>3. ParamsSize(i) = d
  BY <1>2, ParamsSizes
<1>4. Reads(k, m, d, i.size)
  BY <1>1, SourceReads
<1>5. n = IF k.err = "OK" THEN p ELSE k
  BY DEF PushFrom, Src, Do
<1> HIDE DEF k, d, n
<1>6. IsMachine(k) /\ Goes(k, m, d) /\ Same(k, m)
  BY <1>4 DEF Reads, Goes
<1>7. CASE k.err # "OK"
  <2>1. n = k
    BY <1>5, <1>7
  <2> QED
    BY <1>6, <1>7, <2>1, BreaksOff, SameItself DEF n
<1>8. CASE k.err = "OK"
  <2>1. k.val \in Nat
    BY <1>6, Fields, WordIsNat
  <2>2. IsMachine(p) /\ Control(p) = Control(k) /\ p.err = k.err /\ p.mut = k.mut
    BY <1>1, <1>6, <2>1, Pushes
  <2> HIDE DEF p
  <2>3. n = p /\ k.mut = (m.mut + ParamsSize(i)) % WordMod
    BY <1>3, <1>5, <1>6, <1>8 DEF Goes
  <2>4. Performed(p, m, i)
    BY <1>2, <1>6, <1>8, <2>2, <2>3 DEF Performed, Done, Same, Control
  <2> QED
    BY <2>3, <2>4 DEF n
<1> QED
  BY <1>7, <1>8

LEMMA PopPerformed ==
  ASSUME NEW m, IsMachine(m), m.err = "OK", NEW i \in Instruction, i.op = "POP"
  PROVE  Performed(PopInto(m, i), m, i)
<1> DEFINE p == Pop(m, i.size)
           q == [p EXCEPT !.stack = m.stack]
           d == ParamSize(i.source, i.size, i.offset)
           t == Store(q, i.source, i, p.val)
           l == [t EXCEPT !.stack = p.stack]
           n == PopInto(m, i)
<1>1. i.size \in Size /\ i.source \in Operands /\ i.offset \in {0, 1}
  BY InstructionType
<1>2. i.op \in OneOperand /\ i.op \notin Calls /\ i.op \notin Loops
  BY Kinds DEF OneOperand, Loops
<1>3. ParamsSize(i) = d
  BY <1>2, ParamsSizes
<1>4. n = IF p.err = "OK" THEN (IF t.err = "OK" THEN l ELSE t) ELSE p
  BY DEF PopInto, Do
<1>5. /\ IsMachine(p) /\ p.err \in {"OK", "FAULT_RD"}
      /\ Control(p) = Control(m) /\ FlagsOf(p) = FlagsOf(m)
      /\ p.exstack = m.exstack /\ p.frame = m.frame /\ p.regs = m.regs /\ p.mem = m.mem
      /\ p.mut = m.mut
      /\ p.err # "OK" => p.stack = m.stack
      /\ p.err = "OK" => p.val \in 0 .. Modulus(i.size) - 1
  BY <1>1, Pops
<1> HIDE DEF p, d, n
<1>6. CASE p.err # "OK"
  <2>1. n = p
    BY <1>4, <1>6
  <2>2. Performed(p, m, i)
    BY <1>5, <1>6 DEF Performed, Precise, Control
  <2> QED
    BY <2>1, <2>2 DEF n
<1>7. CASE p.err = "OK"
  <2>1. m.stack \in Word /\ p.stack \in Word
    BY <1>5, Fields
  <2>2. IsMachine(q) /\ q.err = "OK" /\ q.mut = m.mut /\ Control(q) = Control(m)
        /\ Same(q, m)
    BY <1>5, <1>7, <2>1, NewStack DEF Same, Data
  <2> HIDE DEF q
  <2>3. Goes(t, q, d)
    BY <1>1, <1>5, <1>7, <2>2, StoreGoes DEF d
  <2> HIDE DEF t
  <2>4. CASE t.err # "OK"
    <3>1. n = t
      BY <1>4, <1>7, <2>4
    <3> QED
      BY <2>2, <2>3, <2>4, <3>1, BreaksOff DEF n
  <2>5. CASE t.err = "OK"
    <3>1. n = l
      BY <1>4, <1>7, <2>5
    <3>2. IsMachine(t)
      BY <2>3 DEF Goes
    <3>3. IsMachine(l) /\ Control(l) = Control(t) /\ l.mut = t.mut /\ l.err = "OK"
      BY <2>1, <2>5, <3>2, NewStack
    <3> HIDE DEF l
    <3>4. l.mut = (m.mut + ParamsSize(i)) % WordMod /\ l.jmp = m.jmp
      BY <1>3, <2>2, <2>3, <2>5, <3>3 DEF Goes, Control
    <3>5. Performed(l, m, i)
      BY <1>2, <3>3, <3>4 DEF Performed, Done
    <3> QED
      BY <3>1, <3>5 DEF n
  <2> QED
    BY <2>4, <2>5
<1> QED
  BY <1>6, <1>7

LEMMA ReturnGoes ==
  ASSUME NEW m, IsMachine(m), m.err = "OK"
  PROVE  LET n == Return(m) IN
         /\ IsMachine(n) /\ n.err \in {"OK", "FAULT_RD"}
         /\ Control(n) = Control(m) /\ FlagsOf(n) = FlagsOf(m)
         /\ n.exstack = m.exstack /\ n.frame = m.frame /\ n.regs = m.regs /\ n.mem = m.mem
         /\ n.err # "OK" => n.stack = m.stack
         /\ n.err = "OK" => /\ n.stack = (m.stack + SIZE32) % WordMod
                            /\ n.mut = Read(m, m.stack, SIZE32).val
<1> DEFINE p == Pop(m, SIZE32)
           l == [p EXCEPT !.mut = p.val]
           n == Return(m)
<1>1. n = IF p.err = "OK" THEN l ELSE p
  BY DEF Return, Do
<1>2. /\ IsMachine(p) /\ p.err \in {"OK", "FAULT_RD"}
      /\ Control(p) = Control(m) /\ FlagsOf(p) = FlagsOf(m)
      /\ p.exstack = m.exstack /\ p.frame = m.frame /\ p.regs = m.regs /\ p.mem = m.mem
      /\ p.err # "OK" => p.stack = m.stack
      /\ p.err = "OK" => p.stack = (m.stack + SIZE32) % WordMod
                         /\ p.val = Read(m, m.stack, SIZE32).val
  BY Offsets, Pops
<1> HIDE DEF p, n
<1>3. p.val \in Word
  BY <1>2, Fields
<1>4. IsMachine(l) /\ Same(l, p) /\ l.mut = p.val /\ l.err = p.err
  BY <1>2, <1>3, NewMut
<1> HIDE DEF l
<1>5. Control(l) = Control(p) /\ FlagsOf(l) = FlagsOf(p)
      /\ l.exstack = p.exstack /\ l.frame = p.frame /\ l.regs = p.regs /\ l.mem = p.mem
      /\ l.stack = p.stack
  BY <1>4 DEF Same, Data
<1> QED
  BY <1>1, <1>2, <1>4, <1>5 DEF n

LEMMA SetFlagsType ==
  ASSUME NEW m, IsMachine(m), NEW f
  PROVE  LET n == SetFlags(m, f) IN
         /\ IsMachine(n) /\ Data(n) = Data(m) /\ n.err = m.err /\ n.mut = m.mut
         /\ n.instr = m.instr /\ n.jmp = m.jmp
<1> DEFINE set == BitsOf(f, SIZE8)
           z == 0 \in set
           c == 1 \in set
           t == 2 \in set
           w == 3 \in set
<1>1. z \in BOOLEAN /\ c \in BOOLEAN /\ t \in BOOLEAN /\ w \in BOOLEAN
  OBVIOUS
<1>2. SetFlags(m, f) = [m EXCEPT !.zero = z, !.carry = c, !.intr = t, !.swap = w]
  BY DEF SetFlags
<1> HIDE DEF z, c, t, w
<1> QED
  BY <1>1, <1>2 DEF IsMachine, Data

LEMMA ReturnPerformed ==
  ASSUME NEW m, IsMachine(m), m.err = "OK", NEW i \in Instruction, i.op = "RET"
  PROVE  Performed(Return(m), m, i)
<1> DEFINE n == Return(m)
<1>1. /\ IsMachine(n) /\ n.err \in {"OK", "FAULT_RD"}
      /\ Control(n) = Control(m) /\ FlagsOf(n) = FlagsOf(m)
      /\ n.exstack = m.exstack /\ n.frame = m.frame /\ n.regs = m.regs /\ n.mem = m.mem
      /\ n.err # "OK" => n.stack = m.stack
  BY ReturnGoes
<1>2. i.op \in Moving /\ i.op \notin Calls
  BY DEF Moving, Calls
<1> HIDE DEF n
<1>3. Performed(n, m, i)
  BY <1>1, <1>2 DEF Performed, Precise, Done, Control
<1> QED
  BY <1>3 DEF n

LEMMA ReturnInterruptPerformed ==
  ASSUME NEW m, IsMachine(m), m.err = "OK", NEW i \in Instruction, i.op = "RETI"
  PROVE  Performed(ReturnInterrupt(m), m, i)
<1> DEFINE f == Pop(m, SIZE8)
           g == SetFlags(f, f.val)
           n == Return(g)
           k == Pop(n, SIZE32)
           l == [k EXCEPT !.stack = k.val]
           z == ReturnInterrupt(m)
           Kept(x) == /\ IsMachine(x) /\ x.err \in {"OK", "FAULT_RD"}
                      /\ x.regs = m.regs /\ x.mem = m.mem /\ x.frame = m.frame
                      /\ x.exstack = m.exstack /\ x.instr = m.instr /\ x.jmp = m.jmp
<1>1. z = IF f.err # "OK" THEN f
          ELSE IF n.err # "OK" THEN n
          ELSE IF ~ n.swap THEN n
          ELSE IF k.err # "OK" THEN k ELSE l
  BY DEF ReturnInterrupt, Do
<1>2. Kept(f)
  <2>1. /\ IsMachine(f) /\ f.err \in {"OK", "FAULT_RD"} /\ Control(f) = Control(m)
        /\ f.exstack = m.exstack /\ f.frame = m.frame /\ f.regs = m.regs /\ f.mem = m.mem
    BY Offsets, Pops
  <2> HIDE DEF f
  <2> QED
    BY <2>1 DEF Control
<1> HIDE DEF f, z
<1>3. Kept(g) /\ g.err = f.err
  <2>1. /\ IsMachine(g) /\ Data(g) = Data(f) /\ g.err = f.err
        /\ g.instr = f.instr /\ g.jmp = f.jmp
    BY <1>2, SetFlagsType
  <2> HIDE DEF g
  <2> QED
    BY <1>2, <2>1 DEF Data
<1> HIDE DEF g
<1>4. f.err = "OK" => Kept(n)
  <2> SUFFICES ASSUME f.err = "OK" PROVE Kept(n)
    OBVIOUS
  <2>1. /\ IsMachine(n) /\ n.err \in {"OK", "FAULT_RD"} /\ Control(n) = Control(g)
        /\ n.exstack = g.exstack /\ n.frame = g.frame /\ n.regs = g.regs /\ n.mem = g.mem
    BY <1>3, ReturnGoes
  <2> HIDE DEF n
  <2> QED
    BY <1>3, <2>1 DEF Control
<1> HIDE DEF n
<1>5. f.err = "OK" /\ n.err = "OK" => Kept(k)
  <2> SUFFICES ASSUME f.err = "OK", n.err = "OK" PROVE Kept(k)
    OBVIOUS
  <2>1. /\ IsMachine(k) /\ k.err \in {"OK", "FAULT_RD"} /\ Control(k) = Control(n)
        /\ k.exstack = n.exstack /\ k.frame = n.frame /\ k.regs = n.regs /\ k.mem = n.mem
    BY <1>4, Offsets, Pops
  <2> HIDE DEF k
  <2> QED
    BY <1>4, <2>1 DEF Control
<1> HIDE DEF k
<1>6. f.err = "OK" /\ n.err = "OK" => Kept(l)
  <2> SUFFICES ASSUME f.err = "OK", n.err = "OK" PROVE Kept(l)
    OBVIOUS
  <2>1. k.val \in Word
    BY <1>5, Fields
  <2>2. /\ IsMachine(l) /\ l.err = k.err /\ Control(l) = Control(k)
        /\ l.exstack = k.exstack /\ l.frame = k.frame /\ l.regs = k.regs /\ l.mem = k.mem
    BY <1>5, <2>1, NewStack
  <2> HIDE DEF l
  <2> QED
    BY <1>5, <2>2 DEF Control
<1> HIDE DEF l
<1>7. Kept(z)
  <2> HIDE DEF Kept
  <2>1. CASE f.err # "OK"
    BY <1>1, <1>2, <2>1, Zenon
  <2>2. CASE f.err = "OK" /\ n.err # "OK"
    BY <1>1, <1>4, <2>2, Zenon
  <2>3. CASE f.err = "OK" /\ n.err = "OK"
    <3>1. z = n \/ z = k \/ z = l
      BY <1>1, <2>3, Zenon
    <3> QED
      BY <1>4, <1>5, <1>6, <2>3, <3>1
  <2> QED
    BY <2>1, <2>2, <2>3
<1>8. i.op \in Moving /\ i.op \notin Calls /\ i.op \notin Loops
  BY DEF Moving, Calls, Loops
<1>9. Performed(z, m, i)
  BY <1>7, <1>8 DEF Performed, Precise, Done
<1> QED
  BY <1>9 DEF z

LEMMA SmallPerformed ==
  ASSUME NEW m, IsMachine(m), m.err = "OK", NEW i \in Instruction
  PROVE  /\ i.op = "HALT" => Performed([m EXCEPT !.soft = TRUE], m, i)
         /\ i.op = "BRK" => Performed(Panic([m EXCEPT !.instr = m.mut], "DEBUGGER"), m, i)
         /\ i.op \in {"ISE", "ICL"} => Performed([m EXCEPT !.intr = (i.op = "ISE")], m, i)
         /\ i.op \in {"MSE", "MCL"} => Performed([m EXCEPT !.mmu = (i.op = "MSE")], m, i)
<1>1. m.mut \in Word /\ (m.mut + 0) % WordMod = m.mut
  <2>1. m.mut \in Word /\ m.mut \in Int
    BY Fields, WordIsNat
  <2> QED
    BY <2>1, WordIsSmall
<1>2. ASSUME i.op \in NoOperand
      PROVE  ParamsSize(i) = 0 /\ i.op \notin Calls
  BY <1>2, ParamsSizes, Kinds
<1>3. ASSUME i.op = "HALT"
      PROVE  Performed([m EXCEPT !.soft = TRUE], m, i)
  <2>1. ParamsSize(i) = 0 /\ i.op \notin Calls
    BY <1>2, <1>3 DEF NoOperand
  <2> DEFINE n == [m EXCEPT !.soft = TRUE]
  <2>2. IsMachine(n) /\ n.err = "OK" /\ n.jmp = m.jmp /\ n.mut = m.mut
    BY DEF IsMachine
  <2> HIDE DEF n
  <2>3. Performed(n, m, i)
    BY <1>1, <2>1, <2>2 DEF Performed, Done
  <2> QED
    BY <2>3 DEF n
<1>4. ASSUME i.op = "BRK"
      PROVE  Performed(Panic([m EXCEPT !.instr = m.mut], "DEBUGGER"), m, i)
  <2>1. ParamsSize(i) = 0 /\ i.op \notin Calls
    BY <1>2, <1>4 DEF NoOperand
  <2> DEFINE n == Panic([m EXCEPT !.instr = m.mut], "DEBUGGER")
  <2>2. IsMachine(n) /\ n.err = "DEBUGGER" /\ n.jmp = m.jmp /\ n.instr = m.mut
        /\ n.intr = m.intr /\ n.swap = m.swap /\ Data(n) = Data(m) /\ FlagsOf(n) = FlagsOf(m)
    BY <1>1 DEF IsMachine, Panic, Errors, Data, FlagsOf
  <2> HIDE DEF n
  <2>3. Performed(n, m, i)
    BY <1>1, <1>4, <2>1, <2>2 DEF Performed, Precise, Data, FlagsOf
  <2> QED
    BY <2>3 DEF n
<1>5. ASSUME i.op \in {"ISE", "ICL"}
      PROVE  Performed([m EXCEPT !.intr = (i.op = "ISE")], m, i)
  <2>1. ParamsSize(i) = 0 /\ i.op \notin Calls
    BY <1>2, <1>5 DEF NoOperand
  <2> DEFINE b == (i.op = "ISE")
             n == [m EXCEPT !.intr = b]
  <2>2. b \in BOOLEAN
    OBVIOUS
  <2> HIDE DEF b
  <2>3. IsMachine(n) /\ n.err = "OK" /\ n.jmp = m.jmp /\ n.mut = m.mut
    BY <2>2 DEF IsMachine
  <2> HIDE DEF n
  <2>4. Performed(n, m, i)
    BY <1>1, <2>1, <2>3 DEF Performed, Done
  <2> QED
    BY <2>4 DEF n, b
<1>6. ASSUME i.op \in {"MSE", "MCL"}
      PROVE  Performed([m EXCEPT !.mmu = (i.op = "MSE")], m, i)
  <2>1. ParamsSize(i) = 0 /\ i.op \notin Calls
    BY <1>2, <1>6 DEF NoOperand
  <2> DEFINE b == (i.op = "MSE")
             n == [m EXCEPT !.mmu = b]
  <2>2. b \in BOOLEAN
    OBVIOUS
  <2> HIDE DEF b
  <2>3. IsMachine(n) /\ n.err = "OK" /\ n.jmp = m.jmp /\ n.mut = m.mut
    BY <2>2 DEF IsMachine
  <2> HIDE DEF n
  <2>4. Performed(n, m, i)
    BY <1>1, <2>1, <2>3 DEF Performed, Done
  <2> QED
    BY <2>4 DEF n, b
<1> QED
  BY <1>3, <1>4, <1>5, <1>6

-----------------------------------------------------------------------------
(* Interrupts and exceptions.                                              *)

LEMMA FlagsAreNat ==
  ASSUME NEW m
  PROVE  Flags(m) \in Nat
<1>1. 2 ^ 0 = 1 /\ 2 ^ 1 = 2 /\ 2 ^ 2 = 4 /\ 2 ^ 3 = 8
  BY Powers
<1>2. 2 ^ 0 \in Nat /\ 2 ^ 1 \in Nat /\ 2 ^ 2 \in Nat /\ 2 ^ 3 \in Nat
  BY <1>1
<1>3. Bit(m.swap, 3) \in Nat /\ Bit(m.intr, 2) \in Nat /\ Bit(m.carry, 1) \in Nat
      /\ Bit(m.zero, 0) \in Nat
  BY <1>2 DEF Bit
<1> QED
  BY <1>3 DEF Flags

(* What vm_raise pushes before it enters the handler leaves the machine    *)
(* one, and its frame and errors as they are.                              *)
LEMMA SavedType ==
  ASSUME NEW m, IsMachine(m)
  PROVE  IsMachine(Saved(m)) /\ Saved(m).err = m.err /\ Control(Saved(m)) = Control(m)
<1> DEFINE p == Push(m, m.instr, SIZE32)
<1>1. m.instr \in Nat /\ SIZE32 \in Size /\ SIZE8 \in Size /\ Flags(m) \in Nat
  BY Fields, WordIsNat, Offsets, FlagsAreNat
<1>2. IsMachine(p) /\ Control(p) = Control(m) /\ p.err = m.err
  BY <1>1, Pushes
<1> HIDE DEF p
<1>3. LET q == Push(p, Flags(m), SIZE8) IN
      IsMachine(q) /\ Control(q) = Control(p) /\ q.err = p.err
  BY <1>1, <1>2, Pushes
<1> QED
  BY <1>2, <1>3 DEF Saved, p

LEMMA OnExceptionStackType ==
  ASSUME NEW m, IsMachine(m)
  PROVE  LET n == OnExceptionStack(m) IN
         /\ IsMachine(n) /\ n.err = m.err /\ n.jmp = m.jmp
<1>1. CASE ~ m.swap
  BY <1>1, SavedType DEF OnExceptionStack, Control
<1>2. CASE m.swap
  <2> DEFINE e == [m EXCEPT !.stack = m.exstack]
             p == Push(e, m.stack, SIZE32)
             s == Saved(p)
  <2>1. OnExceptionStack(m) = [s EXCEPT !.swap = FALSE]
    BY <1>2 DEF OnExceptionStack
  <2>2. m.exstack \in Word /\ m.stack \in Nat /\ SIZE32 \in Size
    BY Fields, WordIsNat, Offsets
  <2>3. IsMachine(e) /\ Control(e) = Control(m) /\ e.err = m.err
    BY <2>2, NewStack
  <2> HIDE DEF e
  <2>4. IsMachine(p) /\ Control(p) = Control(e) /\ p.err = e.err
    BY <2>2, <2>3, Pushes
  <2> HIDE DEF p
  <2>5. IsMachine(s) /\ Control(s) = Control(p) /\ s.err = p.err
    BY <2>4, SavedType
  <2> HIDE DEF s
  <2>6. LET n == [s EXCEPT !.swap = FALSE] IN
        IsMachine(n) /\ n.err = s.err /\ n.jmp = s.jmp
    BY <2>5 DEF IsMachine
  <2>7. s.jmp = m.jmp /\ s.err = m.err
    BY <2>3, <2>4, <2>5 DEF Control
  <2> QED
    BY <2>1, <2>6, <2>7
<1> QED
  BY <1>1, <1>2

LEMMA ToldType ==
  ASSUME NEW m, IsMachine(m), NEW vector \in Nat
  PROVE  LET n == Told(m, vector) IN
         /\ IsMachine(n) /\ n.err = m.err /\ n.jmp = m.jmp
<1>1. m.operand \in Nat /\ SIZE32 \in Size /\ 0 \in Word
  BY Fields, WordIsNat, Offsets, Sizes
<1>2. CASE vector >= EX
  <2> DEFINE p == Push(m, m.operand, SIZE32)
  <2>1. IsMachine(p) /\ Control(p) = Control(m) /\ p.err = m.err
    BY <1>1, Pushes
  <2>2. Told(m, vector) = [p EXCEPT !.operand = 0]
    BY <1>2 DEF Told
  <2> HIDE DEF p
  <2>3. LET n == [p EXCEPT !.operand = 0] IN IsMachine(n) /\ n.err = p.err /\ n.jmp = p.jmp
    BY <1>1, <2>1 DEF IsMachine
  <2> QED
    BY <2>1, <2>2, <2>3 DEF Control
<1>3. CASE ~ (vector >= EX)
  <2> DEFINE p == Push(m, vector, SIZE32)
  <2>1. IsMachine(p) /\ Control(p) = Control(m) /\ p.err = m.err
    BY <1>1, Pushes
  <2>2. Told(m, vector) = p
    BY <1>3 DEF Told
  <2> HIDE DEF p
  <2> QED
    BY <2>1, <2>2 DEF Control
<1> QED
  BY <1>2, <1>3

(* A vector's entry lies in the RAM, so that vm_raise reads it.            *)
LEMMA VectorRead ==
  ASSUME NEW m, IsMachine(m), m.err = "OK", NEW vector \in 0 .. Modulus(SIZE16) - 1
  PROVE  LET n == Read(m, SIZE32 * vector, SIZE32) IN
         /\ IsMachine(n) /\ n.err = "OK" /\ Same(n, m)
<1> DEFINE a == SIZE32 * vector
           n == Read(m, a, SIZE32)
<1>1. /\ SIZE32 = 4 /\ RamSize \in Nat /\ RamSize <= WordMod /\ WordMod \in Nat
      /\ Modulus(SIZE16) \in Nat /\ SIZE32 \in Size
  <2>1. SIZE16 \in Size
    BY Sizes
  <2> QED
    BY <2>1, Sizes
<1>2. SIZE32 * Modulus(SIZE16) <= RamSize
  BY CpuAssumption
<1>3. a \in Nat /\ a + 3 < RamSize
  <2> DEFINE b == Modulus(SIZE16)
  <2>1. b \in Nat /\ vector \in 0 .. b - 1 /\ 4 * b <= RamSize
    BY <1>1, <1>2
  <2> HIDE DEF b
  <2>2. 4 * vector \in Nat /\ 4 * vector + 3 < RamSize
    BY <1>1, <2>1
  <2> QED
    BY <1>1, <2>2
<1> HIDE DEF a
<1>4. a \in Word
  BY <1>1, <1>3 DEF Word
<1>5. {i \in 0 .. SIZE32 - 1 : ~ Readable(a + i)} = {}
  BY <1>1, <1>3 DEF Readable
<1>6. PICK v \in 0 .. Modulus(SIZE32) - 1 : n = [m EXCEPT !.val = v]
  BY <1>1, <1>4, <1>5, ValueType
<1>7. v \in Word
  BY <1>6 DEF Word, WordMod
<1> HIDE DEF n
<1>8. IsMachine(n) /\ n.err = "OK" /\ Same(n, m)
  BY <1>6, <1>7, NewVal
<1> QED
  BY <1>8 DEF n, a

LEMMA Raises ==
  ASSUME NEW m, IsMachine(m), m.err = "OK", NEW vector \in 0 .. Modulus(SIZE16) - 1
  PROVE  LET n == Raise(m, vector) IN
         /\ IsMachine(n) /\ n.err \in {"OK", "NOINTERRUPTS"}
         /\ n.err # "OK" => Same(n, m)
         /\ n.err = "OK" => n.halted /\ n.jmp = "raise"
<1> DEFINE n == Raise(m, vector)
<1>1. CASE ~ m.intr /\ vector < EX
  <2>1. n = Panic(m, "NOINTERRUPTS") /\ "NOINTERRUPTS" \in Errors
    BY <1>1 DEF Raise, Errors
  <2> HIDE DEF n
  <2>2. IsMachine(n) /\ n.err = "NOINTERRUPTS" /\ Same(n, m)
    BY <2>1, NewErr
  <2> QED
    BY <2>2 DEF n
<1>2. CASE ~ (~ m.intr /\ vector < EX)
  <2> DEFINE f == [m EXCEPT !.jmp = "raise"]
             r == Read(f, SIZE32 * vector, SIZE32)
             s == OnExceptionStack(r)
             t == Told(s, vector)
             e == Enter(t, r.val)
  <2>1. n = IF r.err = "OK" THEN e ELSE r
    BY <1>2 DEF Raise, Do
  <2>2. IsMachine(f) /\ f.err = "OK" /\ f.jmp = "raise"
    BY DEF IsMachine, Frames
  <2> HIDE DEF f, n
  <2>3. IsMachine(r) /\ r.err = "OK" /\ r.jmp = "raise"
    BY <2>2, VectorRead DEF Same, Control
  <2> HIDE DEF r
  <2>4. IsMachine(s) /\ s.err = "OK" /\ s.jmp = "raise"
    BY <2>3, OnExceptionStackType
  <2> HIDE DEF s
  <2>5. vector \in Nat
    OBVIOUS
  <2>6. IsMachine(t) /\ t.err = "OK" /\ t.jmp = "raise"
    BY <2>4, <2>5, ToldType
  <2> HIDE DEF t
  <2>7. IsMachine(e) /\ e.err = "OK" /\ e.jmp = "raise" /\ e.halted
    <3>1. r.val \in Word
      BY <2>3, Fields
    <3> QED
      BY <2>6, <3>1 DEF Enter, IsMachine
  <2> HIDE DEF e
  <2> QED
    BY <2>1, <2>3, <2>7 DEF n
<1> QED
  BY <1>1, <1>2

LEMMA InterruptPerformed ==
  ASSUME NEW m, IsMachine(m), m.err = "OK", NEW i \in Instruction, i.op = "INT"
  PROVE  Performed(Interrupt(m, i), m, i)
<1> DEFINE k == Source(m, i.source, i.size, i.offset)
           d == ParamSize(i.source, i.size, i.offset)
           j == [k EXCEPT !.instr = k.mut]
           r == Raise(j, Low(k.val, SIZE16))
           e == [r EXCEPT !.err = "OK", !.mut = r.instr]
           z == Interrupt(m, i)
<1>1. i.size \in Size /\ i.source \in Operands /\ i.offset \in {0, 1} /\ SIZE16 \in Size
  BY InstructionType, Offsets
<1>2. i.op \in Moving /\ i.op \notin Calls
  BY DEF Moving, Calls
<1>3. Reads(k, m, d, i.size)
  BY <1>1, SourceReads
<1>4. z = IF k.err = "OK" THEN e ELSE k
  BY DEF Interrupt, Src, Do
<1> HIDE DEF k, d, z
<1>5. IsMachine(k) /\ Goes(k, m, d) /\ Same(k, m)
  BY <1>3 DEF Reads, Goes
<1>6. CASE k.err # "OK"
  <2>1. z = k
    BY <1>4, <1>6
  <2> QED
    BY <1>5, <1>6, <2>1, BreaksOff, SameItself DEF z
<1>7. CASE k.err = "OK"
  <2>1. IsMachine(j) /\ j.err = "OK" /\ j.jmp = k.jmp
    <3>1. k.mut \in Word
      BY <1>5, Fields
    <3> QED
      BY <1>5, <1>7, <3>1 DEF IsMachine
  <2>2. Low(k.val, SIZE16) \in 0 .. Modulus(SIZE16) - 1
    BY <1>1, <1>5, Fields, WordIsNat, LowFits
  <2> HIDE DEF j
  <2>3. /\ IsMachine(r) /\ r.err \in {"OK", "NOINTERRUPTS"}
        /\ r.err # "OK" => Same(r, j)
        /\ r.err = "OK" => r.halted /\ r.jmp = "raise"
    BY <2>1, <2>2, Raises
  <2> HIDE DEF r
  <2>4. r.jmp = m.jmp \/ r.halted
    <3>1. CASE r.err = "OK"
      BY <2>3, <3>1
    <3>2. CASE r.err # "OK"
      BY <1>5, <2>1, <2>3, <3>2 DEF Same, Control
    <3> QED
      BY <3>1, <3>2
  <2>5. IsMachine(e) /\ e.err = "OK" /\ e.jmp = r.jmp /\ e.halted = r.halted
    <3>1. r.instr \in Word
      BY <2>3, Fields
    <3> QED
      BY <2>3, <3>1 DEF IsMachine, Errors
  <2> HIDE DEF e
  <2>6. Performed(e, m, i)
    BY <1>2, <2>4, <2>5 DEF Performed, Done
  <2> QED
    BY <1>4, <1>7, <2>6 DEF z
<1> QED
  BY <1>6, <1>7

-----------------------------------------------------------------------------
(* The switch, and vm_execute.                                             *)

LEMMA PerformPerforms ==
  ASSUME NEW m, IsMachine(m), m.err = "OK", NEW i \in Instruction, Known(i), i.op # "NOP",
         NEW c \in Outcomes(i)
  PROVE  Performed(Perform(m, i, c), m, i)
<1> DEFINE z == Perform(m, i, c)
<1>1. /\ i.op \in WordOnly => i.size = SIZE32
      /\ i.op \in NoOperand \cup OneOperand \cup TwoOperands \cup BitOperands
  BY DEF Known
<1>2. /\ c.unshifted \in BOOLEAN
      /\ i.op = "IN" => c.port \in Word
  <2>1. c.unshifted \in BOOLEAN /\ (i.op = "IN" => c.port \in PortValues)
    BY DEF Outcomes
  <2> QED
    BY <2>1, CpuAssumption
<1> USE DEF NoOperand, OneOperand, TwoOperands, BitOperands, Jumps, Loops, Calls, Steps,
            Moves, Sums, Quotients, Logicals, Compares, Shifts
<1> HIDE DEF z
<1>3. CASE i.op \in {"HALT", "BRK", "ISE", "ICL", "MSE", "MCL"}
  <2>1. /\ i.op = "HALT" => z = [m EXCEPT !.soft = TRUE]
        /\ i.op = "BRK" => z = Panic([m EXCEPT !.instr = m.mut], "DEBUGGER")
        /\ i.op \in {"ISE", "ICL"} => z = [m EXCEPT !.intr = (i.op = "ISE")]
        /\ i.op \in {"MSE", "MCL"} => z = [m EXCEPT !.mmu = (i.op = "MSE")]
    BY DEF z, Perform
  <2>2. /\ i.op = "HALT" => Performed([m EXCEPT !.soft = TRUE], m, i)
        /\ i.op = "BRK" => Performed(Panic([m EXCEPT !.instr = m.mut], "DEBUGGER"), m, i)
        /\ i.op \in {"ISE", "ICL"} => Performed([m EXCEPT !.intr = (i.op = "ISE")], m, i)
        /\ i.op \in {"MSE", "MCL"} => Performed([m EXCEPT !.mmu = (i.op = "MSE")], m, i)
    BY SmallPerformed, Zenon
  <2>3. i.op = "HALT" => Performed(z, m, i)
    BY <2>1, <2>2, Zenon
  <2>4. i.op = "BRK" => Performed(z, m, i)
    BY <2>1, <2>2, Zenon
  <2>5. i.op \in {"ISE", "ICL"} => Performed(z, m, i)
    BY <2>1, <2>2, Zenon
  <2>6. i.op \in {"MSE", "MCL"} => Performed(z, m, i)
    BY <2>1, <2>2, Zenon
  <2> QED
    BY <1>3, <2>3, <2>4, <2>5, <2>6 DEF z
<1>4. CASE i.op = "IN"
  <2>1. z = In(m, i, c.port) /\ i.size = SIZE32
    BY <1>1, <1>4 DEF z, Perform, WordOnly
  <2>2. Performed(z, m, i)
    BY <1>2, <1>4, <2>1, InPerformed
  <2> QED
    BY <2>2 DEF z
<1>5. CASE i.op = "OUT"
  <2>1. z = Out(m, i) /\ i.size = SIZE32
    BY <1>1, <1>5 DEF z, Perform, WordOnly
  <2> QED
    BY <1>5, <2>1, OutPerformed DEF z
<1>6. CASE i.op = "RTA"
  <2>1. z = Rta(m, i)
    BY <1>6 DEF z, Perform
  <2> QED
    BY <1>6, <2>1, RtaPerformed DEF z
<1>7. CASE i.op = "RET"
  <2>1. z = Return(m)
    BY <1>7 DEF z, Perform
  <2> QED
    BY <1>7, <2>1, ReturnPerformed DEF z
<1>8. CASE i.op = "RETI"
  <2>1. z = ReturnInterrupt(m)
    BY <1>8 DEF z, Perform
  <2> QED
    BY <1>8, <2>1, ReturnInterruptPerformed DEF z
<1>9. CASE i.op \in Jumps
  <2>1. z = Jump(m, i)
    BY <1>9 DEF z, Perform
  <2> QED
    BY <1>9, <2>1, JumpPerformed DEF z
<1>10. CASE i.op \in Loops
  <2>1. z = Loop(m, i)
    BY <1>10 DEF z, Perform
  <2> QED
    BY <1>10, <2>1, LoopPerformed DEF z
<1>11. CASE i.op \in Calls
  <2>1. z = Call(m, i)
    BY <1>11 DEF z, Perform
  <2> QED
    BY <1>11, <2>1, CallPerformed DEF z
<1>12. CASE i.op = "POP"
  <2>1. z = PopInto(m, i)
    BY <1>12 DEF z, Perform
  <2> QED
    BY <1>12, <2>1, PopPerformed DEF z
<1>13. CASE i.op = "PUSH"
  <2>1. z = PushFrom(m, i)
    BY <1>13 DEF z, Perform
  <2> QED
    BY <1>13, <2>1, PushPerformed DEF z
<1>14. CASE i.op \in Moves
  <2>1. z = Move(m, i)
    BY <1>14 DEF z, Perform
  <2> QED
    BY <1>14, <2>1, MovePerformed DEF z
<1>15. CASE i.op = "NOT"
  <2>1. z = Not(m, i)
    BY <1>15 DEF z, Perform
  <2> QED
    BY <1>15, <2>1, NotPerformed DEF z
<1>16. CASE i.op \in Steps
  <2>1. z = StepBy(m, i)
    BY <1>16 DEF z, Perform
  <2> QED
    BY <1>16, <2>1, StepPerformed DEF z
<1>17. CASE i.op \in Sums
  <2>1. z = Sum2(m, i)
    BY <1>17 DEF z, Perform
  <2> QED
    BY <1>17, <2>1, SumPerformed DEF z
<1>18. CASE i.op \in Logicals
  <2>1. z = Logic(m, i)
    BY <1>18 DEF z, Perform
  <2> QED
    BY <1>18, <2>1, LogicPerformed DEF z
<1>19. CASE i.op \in Shifts
  <2>1. z = Shift(m, i, c.unshifted)
    BY <1>19 DEF z, Perform
  <2> QED
    BY <1>2, <1>19, <2>1, ShiftPerformed DEF z
<1>20. CASE i.op \in Quotients
  <2>1. z = Quotient(m, i)
    BY <1>20 DEF z, Perform
  <2> QED
    BY <1>20, <2>1, QuotientPerformed DEF z
<1>21. CASE i.op \in Compares
  <2>1. z = Compare(m, i)
    BY <1>21 DEF z, Perform
  <2> QED
    BY <1>21, <2>1, ComparePerformed DEF z
<1>22. CASE i.op = "BTS"
  <2>1. z = TestBit(m, i, c.unshifted)
    BY <1>22 DEF z, Perform
  <2> QED
    BY <1>2, <1>22, <2>1, TestPerformed DEF z
<1>23. CASE i.op = "INT"
  <2>1. z = Interrupt(m, i)
    BY <1>23 DEF z, Perform
  <2> QED
    BY <1>23, <2>1, InterruptPerformed DEF z
<1> QED
  BY <1>1, <1>3, <1>4, <1>5, <1>6, <1>7, <1>8, <1>9, <1>10, <1>11, <1>12, <1>13, <1>14,
     <1>15, <1>16, <1>17, <1>18, <1>19, <1>20, <1>21, <1>22, <1>23

-----------------------------------------------------------------------------
LEMMA BeginReads ==
  ASSUME NEW m, IsMachine(m), m.err = "OK"
  PROVE  LET b == Begin(m) IN
         /\ IsMachine(b) /\ Same(b, m) /\ b.err \in {"OK", "FAULT_RD"}
         /\ b.mut = IF b.err = "OK" THEN (m.instr + SIZE16) % WordMod ELSE m.mut
<1> DEFINE n == Read(m, m.instr, SIZE16)
           b == Begin(m)
           w == (n.instr + SIZE16) % WordMod
<1>1. m.instr \in Word /\ SIZE16 \in Size
  BY Fields, Offsets
<1>2. b = IF n.err = "OK" THEN [n EXCEPT !.mut = w] ELSE n
  BY DEF Begin, Do
<1>3. Reads(n, m, 0, SIZE16) /\ n.err \in {"OK", "FAULT_RD"} /\ n.mut = m.mut
  BY <1>1, ReadReads
<1> HIDE DEF n, b
<1>4. IsMachine(n) /\ Same(n, m) /\ n.instr = m.instr
  BY <1>3 DEF Reads, Goes, Same, Control
<1>5. CASE n.err # "OK"
  BY <1>2, <1>3, <1>4, <1>5 DEF b
<1>6. CASE n.err = "OK"
  <2>1. w \in Word
    <3>1. n.instr \in Int
      BY <1>1, <1>4, WordIsNat
    <3>2. SIZE16 \in Int
      BY Sizes
    <3>3. n.instr + SIZE16 \in Int
      BY <3>1, <3>2
    <3> QED
      BY <3>3, Wraps
  <2>2. w = (m.instr + SIZE16) % WordMod
    BY <1>4
  <2> HIDE DEF w
  <2>3. IsMachine(b) /\ Same(b, n) /\ b.mut = w /\ b.err = "OK"
    BY <1>2, <1>4, <1>6, <2>1, NewMut
  <2> QED
    BY <1>4, <2>2, <2>3, SameAgain DEF b
<1> QED
  BY <1>5, <1>6

(* Whether the opcode can be read is not the machine's doing.              *)
LEMMA BeginInFrame ==
  ASSUME NEW m, IsMachine(m), m.err = "OK", NEW f \in Frames
  PROVE  Begin([m EXCEPT !.jmp = f]).mut = Begin(m).mut
<1> DEFINE k == [m EXCEPT !.jmp = f]
           a == m.instr
           bad == {i \in 0 .. SIZE16 - 1 : ~ Readable(a + i)}
<1>1. IsMachine(k) /\ k.err = "OK" /\ k.instr = m.instr /\ k.mut = m.mut
  BY DEF IsMachine
<1> HIDE DEF k
<1>2. ASSUME NEW x, IsMachine(x), x.err = "OK", x.instr = a, x.mut = m.mut
      PROVE  Begin(x).mut = IF bad = {} THEN (a + SIZE16) % WordMod ELSE m.mut
  <2> DEFINE n == Read(x, a, SIZE16)
  <2>1. Begin(x) = IF n.err = "OK" THEN [n EXCEPT !.mut = (n.instr + SIZE16) % WordMod] ELSE n
    BY <1>2 DEF Begin, Do
  <2>2. n.err = "OK" <=> bad = {}
    BY <1>2 DEF Read, Fault, IsMachine
  <2> HIDE DEF n
  <2>3. Begin(x).err = "OK" <=> n.err = "OK"
    <3>1. IsMachine(n)
      BY <1>2, ReadReads, Fields, Offsets DEF Reads, Goes, n
    <3>2. [n EXCEPT !.mut = (n.instr + SIZE16) % WordMod].err = n.err
      BY <3>1 DEF IsMachine
    <3> QED
      BY <2>1, <3>2
  <2>4. Begin(x).mut = IF Begin(x).err = "OK" THEN (x.instr + SIZE16) % WordMod ELSE x.mut
    BY <1>2, BeginReads
  <2> QED
    BY <1>2, <2>2, <2>3, <2>4
<1>3. Begin(k).mut = IF bad = {} THEN (a + SIZE16) % WordMod ELSE m.mut
  BY <1>1, <1>2
<1>4. Begin(m).mut = IF bad = {} THEN (a + SIZE16) % WordMod ELSE m.mut
  BY <1>2
<1> QED
  BY <1>3, <1>4 DEF k

(* What a pass through vm_execute makes of the machine b that has read     *)
(* the opcode.                                                             *)
Ended(n, b, i) ==
  /\ IsMachine(n)
  /\ n.err # "OK" => Precise(n, b, i)
  /\ n.err = "OK" =>
       /\ n.jmp = b.jmp \/ n.halted
       /\ i.op \notin Moving /\ ~ InMisread(i) => n.instr = (b.mut + ParamsSize(i)) % WordMod
       /\ i.op \in Calls => n.stack = b.stack \/ PushedAfter(n, b, i)

(* The last step: pointer_instr takes the value of pointer_instr_mut.      *)
LEMMA InstrTaken ==
  ASSUME NEW n, IsMachine(n), n.err = "OK", NEW b, NEW i,
         n.jmp = b.jmp \/ n.halted,
         i.op \notin Moving /\ ~ InMisread(i) => n.mut = (b.mut + ParamsSize(i)) % WordMod,
         i.op \in Calls => n.stack = b.stack \/ PushedAfter(n, b, i)
  PROVE  Ended([n EXCEPT !.instr = n.mut], b, i)
<1> DEFINE k == [n EXCEPT !.instr = n.mut]
<1>1. n.mut \in Word
  BY Fields
<1>2. /\ IsMachine(k) /\ k.err = "OK" /\ k.jmp = n.jmp /\ k.halted = n.halted
      /\ k.instr = n.mut /\ k.stack = n.stack /\ k.mem = n.mem
  BY <1>1 DEF IsMachine
<1> HIDE DEF k
<1>3. PushedAfter(n, b, i) => PushedAfter(k, b, i)
  BY <1>2 DEF PushedAfter
<1>4. Ended(k, b, i)
  BY <1>2, <1>3 DEF Ended
<1> QED
  BY <1>4 DEF k

LEMMA KnownSizes ==
  ASSUME NEW i \in Instruction, Known(i)
  PROVE  ParamsSize(i) \in Nat
<1>1. /\ i.size \in Size /\ i.target \in Operands /\ i.source \in Operands /\ i.offset \in {0, 1}
      /\ SIZE8 \in Size
  BY InstructionType, Offsets
<1>2. /\ ParamSize(i.source, i.size, i.offset) \in Nat
      /\ ParamSize(i.source, SIZE8, i.offset) \in Nat
      /\ ParamSize(i.target, i.size, i.offset) \in Nat
  BY <1>1, ParamSizeType
<1>3. i.op \in NoOperand \/ i.op \in OneOperand \/ i.op \in TwoOperands \/ i.op \in BitOperands
  BY DEF Known
<1> QED
  BY <1>2, <1>3, ParamsSizes

LEMMA Executes ==
  ASSUME NEW m, IsMachine(m), m.err = "OK", NEW i \in Instruction, NEW c \in Outcomes(i)
  PROVE  /\ IsMachine(Begin(m)) /\ Same(Begin(m), m)
         /\ Ended(Execute(m, i, c), Begin(m), i)
<1> DEFINE b == Begin(m)
           unknown == Panic([b EXCEPT !.operand = b.val], "BADOPCODE")
           condition == Panic(b, "BADCONDITION")
           skipped == SkipParams(b, i)
           performed == Perform(b, i, c)
           n == IF b.err # "OK" THEN b
                ELSE IF ~ Known(i) THEN unknown
                ELSE IF i.op = "NOP" THEN b
                ELSE IF i.cond = 7 THEN condition
                ELSE IF Skips(b, i.cond) THEN skipped
                ELSE performed
           z == Execute(m, i, c)
<1>1. IsMachine(b) /\ Same(b, m) /\ b.err \in {"OK", "FAULT_RD"}
  BY BeginReads
<1>2. z = IF n.err = "OK" THEN [n EXCEPT !.instr = n.mut] ELSE n
  BY DEF Execute, Do
<1> HIDE DEF b, z
<1>3. IsMachine(n) /\ (n.err # "OK" => Precise(n, b, i))
      /\ (n.err = "OK" =>
            /\ n.jmp = b.jmp \/ n.halted
            /\ i.op \notin Moving /\ ~ InMisread(i) => n.mut = (b.mut + ParamsSize(i)) % WordMod
            /\ i.op \in Calls => n.stack = b.stack \/ PushedAfter(n, b, i))
  <2>1. CASE b.err # "OK"
    <3>1. n = b
      BY <2>1
    <3>2. Precise(b, b, i)
      BY <1>1, <2>1 DEF Precise
    <3> QED
      BY <1>1, <2>1, <3>1, <3>2
  <2>2. CASE b.err = "OK" /\ ~ Known(i)
    <3>1. n = unknown
      BY <2>2
    <3>2. IsMachine(unknown) /\ unknown.err = "BADOPCODE" /\ Same(unknown, b)
      <4>1. b.val \in Word
        BY <1>1, Fields
      <4> QED
        BY <1>1, <4>1 DEF IsMachine, Panic, Errors, Same, Control, Data, FlagsOf
    <3> HIDE DEF unknown, n
    <3>3. Precise(unknown, b, i)
      BY <3>2 DEF Precise, Same, Control, Data, FlagsOf
    <3> QED
      BY <3>1, <3>2, <3>3
  <2>3. CASE b.err = "OK" /\ Known(i) /\ i.op = "NOP"
    <3>1. n = b
      BY <2>3
    <3>2. ParamsSize(i) = 0 /\ i.op \notin Calls
      BY <2>3, ParamsSizes DEF NoOperand, Calls
    <3>3. b.mut \in Word /\ b.mut \in Int
      BY <1>1, Fields, WordIsNat
    <3>4. b.mut = (b.mut + 0) % WordMod
      BY <3>3, WordIsSmall
    <3> HIDE DEF n
    <3> QED
      BY <1>1, <2>3, <3>1, <3>2, <3>4
  <2>4. CASE b.err = "OK" /\ Known(i) /\ i.op # "NOP" /\ i.cond = 7
    <3>1. n = condition
      BY <2>4
    <3>2. "BADCONDITION" \in Errors
      BY DEF Errors
    <3>3. IsMachine(condition) /\ condition.err = "BADCONDITION" /\ Same(condition, b)
      BY <1>1, <3>2, NewErr
    <3> HIDE DEF condition, n
    <3>4. Precise(condition, b, i)
      BY <3>3 DEF Precise, Same, Control, Data, FlagsOf
    <3> QED
      BY <3>1, <3>3, <3>4
  <2>5. CASE b.err = "OK" /\ Known(i) /\ i.op # "NOP" /\ i.cond # 7 /\ Skips(b, i.cond)
    <3>1. n = skipped
      BY <2>5
    <3> DEFINE w == (b.mut + ParamsSize(i)) % WordMod
    <3>2. w \in Word
      <4>1. b.mut \in Int /\ ParamsSize(i) \in Nat
        BY <1>1, <2>5, Fields, WordIsNat, KnownSizes
      <4>2. b.mut + ParamsSize(i) \in Int
        BY <4>1
      <4> QED
        BY <4>2, Wraps
    <3>3. skipped = [b EXCEPT !.mut = w]
      BY DEF SkipParams
    <3> HIDE DEF skipped, n, w
    <3>4. IsMachine(skipped) /\ Same(skipped, b) /\ skipped.mut = w /\ skipped.err = "OK"
      BY <1>1, <2>5, <3>2, <3>3, NewMut
    <3> QED
      BY <3>1, <3>4 DEF w, Same, Control, Data
  <2>6. CASE b.err = "OK" /\ Known(i) /\ i.op # "NOP" /\ i.cond # 7 /\ ~ Skips(b, i.cond)
    <3>1. n = performed
      BY <2>6
    <3>2. Performed(performed, b, i)
      BY <1>1, <2>6, PerformPerforms
    <3> HIDE DEF performed, n
    <3> QED
      BY <3>1, <3>2 DEF Performed, Done
  <2> QED
    BY <2>1, <2>2, <2>3, <2>4, <2>5, <2>6
<1> HIDE DEF n
<1>4. Ended(z, b, i)
  <2>1. CASE n.err = "OK"
    BY <1>2, <1>3, <2>1, InstrTaken
  <2>2. CASE n.err # "OK"
    BY <1>2, <1>3, <2>2 DEF Ended
  <2> QED
    BY <2>1, <2>2
<1> QED
  BY <1>1, <1>4 DEF b, z

-----------------------------------------------------------------------------
(* What is written to the cells of the RAM, and what is left.              *)
LEMMA WriteBytes ==
  ASSUME NEW m, IsMachine(m), NEW a \in Word, NEW s \in Size, NEW v \in Nat
  PROVE  LET n == Write(m, a, s, v) IN
         /\ \A y \in 0 .. RamSize - 1 :
              (\A i \in 0 .. s - 1 : (a + i) % RamSize # y) => ByteAt(n, y) = ByteAt(m, y)
         /\ a + s <= RamSize =>
              \A i \in 0 .. s - 1 : ByteAt(n, a + i) = (v \div Modulus(i)) % Modulus(SIZE8)
<1> DEFINE cell(i) == (a + i) % RamSize
           at(x) == CHOOSE i \in 0 .. s - 1 : cell(i) = x
           written == {cell(i) : i \in 0 .. s - 1}
           byte(j) == (v \div Modulus(j)) % Modulus(SIZE8)
           mem == [x \in DOMAIN m.mem \cup written |->
                     IF x \in written THEN byte(at(x)) ELSE m.mem[x]]
           n == Write(m, a, s, v)
<1>1. RamSize \in Nat \ {0} /\ a \in Nat /\ s \in Nat
  BY Sizes, WordIsNat
<1>2. n.mem = mem
  <2>1. n = [m EXCEPT !.mem = mem]
    BY Zenon DEF Write
  <2> HIDE DEF mem, n
  <2> QED
    BY <2>1 DEF IsMachine
<1> HIDE DEF n, byte, at
<1>3. ASSUME NEW y \in 0 .. RamSize - 1, \A i \in 0 .. s - 1 : cell(i) # y
      PROVE  ByteAt(n, y) = ByteAt(m, y)
  <2> HIDE DEF cell
  <2>1. y \notin written
    BY <1>3
  <2> HIDE DEF written
  <2>2. /\ y \in DOMAIN mem <=> y \in DOMAIN m.mem
        /\ y \in DOMAIN mem => mem[y] = m.mem[y]
    BY <2>1
  <2> HIDE DEF mem
  <2>3. ~ (y >= RamSize)
    BY <1>1
  <2> QED
    BY <1>2, <2>2, <2>3 DEF ByteAt
<1>4. ASSUME a + s <= RamSize, NEW i \in 0 .. s - 1
      PROVE  ByteAt(n, a + i) = byte(i)
  <2>1. \A j \in 0 .. s - 1 : cell(j) = a + j /\ a + j \in Nat /\ a + j < RamSize
    BY <1>1, <1>4
  <2>2. at(a + i) = i
    <3>1. \A j \in 0 .. s - 1 : cell(j) = a + i <=> j = i
      BY <1>1, <2>1
    <3>2. at(a + i) \in 0 .. s - 1 /\ cell(at(a + i)) = a + i
      <4> HIDE DEF cell
      <4>1. \E j \in 0 .. s - 1 : cell(j) = a + i
        BY <3>1
      <4> QED
        BY <4>1, Zenon DEF at
    <3> HIDE DEF cell
    <3> QED
      BY <3>1, <3>2
  <2>3. a + i \in written
    <3>1. cell(i) \in written
      OBVIOUS
    <3> QED
      BY <2>1, <3>1
  <2> HIDE DEF written, cell
  <2>4. a + i \in DOMAIN mem /\ mem[a + i] = byte(at(a + i))
    BY <2>3
  <2> HIDE DEF mem
  <2>5. ~ (a + i >= RamSize)
    BY <1>1, <2>1
  <2> QED
    BY <1>2, <2>2, <2>4, <2>5 DEF ByteAt
<1> QED
  BY <1>3, <1>4 DEF n, byte

(* Of the machine, the bytes depend on its memory only.                    *)
LEMMA SameBytes ==
  ASSUME NEW m, NEW n, n.mem = m.mem, NEW y
  PROVE  ByteAt(n, y) = ByteAt(m, y)
BY DEF ByteAt

(* The bytes of a number are read as the number.                           *)
LEMMA BytesRead ==
  ASSUME NEW n, IsMachine(n), NEW a \in Word, NEW s \in Size, a + s <= RamSize,
         NEW w \in 0 .. Modulus(s) - 1,
         \A i \in 0 .. s - 1 : ByteAt(n, a + i) = (w \div Modulus(i)) % Modulus(SIZE8)
  PROVE  Read(n, a, s).val = w /\ Read(n, a, s).err = n.err
<1> DEFINE c == [i \in 0 .. s - 1 |-> ByteAt(n, a + i)]
           x == SumFunction([i \in 0 .. s - 1 |-> c[i] * Modulus(i)])
<1>1. RamSize \in Nat \ {0} /\ a \in Nat /\ s \in Nat
  BY Sizes, WordIsNat
<1>2. \A i \in 0 .. s - 1 : a + i \in Nat /\ Readable(a + i)
  BY <1>1 DEF Readable
<1>3. {i \in 0 .. s - 1 : ~ Readable(a + i)} = {}
  BY <1>2
<1>4. c \in [0 .. s - 1 -> Byte]
  BY <1>2, ByteType
<1>5. \A i \in 0 .. s - 1 : c[i] = (w \div Modulus(i)) % Modulus(SIZE8)
  OBVIOUS
<1>6. x = w
  <2> HIDE DEF c
  <2> QED
    BY <1>4, <1>5, BytesJoined
<1>7. Read(n, a, s) = [n EXCEPT !.val = x]
  <2>1. [i \in 0 .. s - 1 |-> c[i] * Modulus(i)]
        = [i \in 0 .. s - 1 |-> ByteAt(n, a + i) * Modulus(i)]
    OBVIOUS
  <2>2. x = SumFunction([i \in 0 .. s - 1 |-> ByteAt(n, a + i) * Modulus(i)])
    BY <2>1
  <2> HIDE DEF x
  <2> QED
    BY <1>3, <2>2, Zenon DEF Read
<1> HIDE DEF x
<1> QED
  BY <1>6, <1>7 DEF IsMachine

(* Four bytes that were written below the end of the RAM are read back.    *)
LEMMA WrittenIsRead ==
  ASSUME NEW k, IsMachine(k), NEW n, IsMachine(n), NEW a \in Word, a + SIZE32 <= RamSize,
         NEW w \in Word, n.mem = Write(k, a, SIZE32, w).mem
  PROVE  Read(n, a, SIZE32).val = w
<1> DEFINE l == Write(k, a, SIZE32, w)
<1>1. SIZE32 \in Size /\ w \in Nat /\ w \in 0 .. Modulus(SIZE32) - 1
  BY Offsets, WordIsNat DEF Word, WordMod
<1>2. \A i \in 0 .. SIZE32 - 1 : ByteAt(l, a + i) = (w \div Modulus(i)) % Modulus(SIZE8)
  BY <1>1, WriteBytes
<1>3. \A y : ByteAt(n, y) = ByteAt(l, y)
  BY SameBytes
<1> HIDE DEF l
<1>4. \A i \in 0 .. SIZE32 - 1 : ByteAt(n, a + i) = (w \div Modulus(i)) % Modulus(SIZE8)
  BY <1>2, <1>3
<1> QED
  BY <1>1, <1>4, BytesRead

-----------------------------------------------------------------------------
(* The specification: types, and where a panic goes.                       *)

(* Types, the frame a panic of vm_resume finds, and the program.           *)
Inv ==
  /\ CpuTypeOK
  /\ PanicsCaught
  /\ mode = "resume" => vm.halted \/ vm.jmp = "resume"
  /\ program \in Seq(SUBSET Instruction)

LEMMA SettledType ==
  ASSUME NEW n, IsMachine(n)
  PROVE  LET s == Settled(n) IN
         /\ IsMachine(s) /\ AtRest(s) /\ Control(s) = Control(n) /\ Data(s) = Data(n)
         /\ FlagsOf(s) = FlagsOf(n) /\ s.instr = n.instr
<1>1. n.instr \in Word /\ 0 \in Word /\ "OK" \in Errors
  BY Fields, Sizes DEF Errors
<1> QED
  BY <1>1 DEF Settled, IsMachine, AtRest, Control, Data, FlagsOf

LEMMA InAnotherFrame ==
  ASSUME NEW m, IsMachine(m), m.err = "OK", NEW f \in Frames
  PROVE  LET n == [m EXCEPT !.jmp = f] IN
         /\ IsMachine(n) /\ n.err = "OK" /\ n.jmp = f /\ n.instr = m.instr
         /\ n.intr = m.intr /\ n.swap = m.swap /\ Data(n) = Data(m) /\ FlagsOf(n) = FlagsOf(m)
BY DEF IsMachine, Data, FlagsOf

LEMMA ProgramGoesOn ==
  ASSUME NEW p \in Seq(SUBSET Instruction), p # <<>>
  PROVE  Head(p) \in SUBSET Instruction /\ Tail(p) \in Seq(SUBSET Instruction) /\ Tail(p) # p
OBVIOUS

(* A pass through vm_execute in a frame that is there: it is back in the   *)
(* frame, and the machine is at rest.                                      *)
LEMMA ExecutesIn ==
  ASSUME NEW m, IsMachine(m), m.err = "OK", NEW frame, m.jmp = frame,
         NEW after, program \in Seq(SUBSET Instruction), ExecuteIn(m, frame, after)
  PROVE  \E i \in Instruction : \E n :
           /\ last' = i /\ status' = n.err
           /\ Ended(n, Begin(m), i) /\ IsMachine(Begin(m)) /\ Same(Begin(m), m)
           /\ vm' = Settled(IF n.err = "OK" THEN n ELSE [n EXCEPT !.halted = TRUE])
           /\ mode' = IF n.err = "OK" THEN after ELSE "host"
           /\ program' \in Seq(SUBSET Instruction)
<1>1. program # <<>> /\ program' = Tail(program)
  BY DEF ExecuteIn
<1> DEFINE x(i, c) == Execute(m, i, c)
<1>2. PICK i \in Head(program) : \E c \in Outcomes(i) :
         /\ vm' = Settled(IF x(i, c).err = "OK" THEN x(i, c)
                          ELSE [x(i, c) EXCEPT !.halted = TRUE])
         /\ status' = x(i, c).err
         /\ mode' = IF x(i, c).err = "OK" THEN after
                    ELSE IF x(i, c).jmp = frame THEN "host" ELSE "wild"
         /\ last' = i
  BY DEF ExecuteIn
<1>3. i \in Instruction /\ program' \in Seq(SUBSET Instruction)
  BY <1>1, <1>2, ProgramGoesOn
<1>4. PICK c \in Outcomes(i) :
         /\ vm' = Settled(IF x(i, c).err = "OK" THEN x(i, c)
                          ELSE [x(i, c) EXCEPT !.halted = TRUE])
         /\ status' = x(i, c).err
         /\ mode' = IF x(i, c).err = "OK" THEN after
                    ELSE IF x(i, c).jmp = frame THEN "host" ELSE "wild"
         /\ last' = i
  BY <1>2
<1> DEFINE n == Execute(m, i, c)
<1>5. IsMachine(Begin(m)) /\ Same(Begin(m), m) /\ Ended(n, Begin(m), i)
  BY <1>2, <1>3, Executes
<1>6. /\ last' = i /\ status' = n.err
      /\ vm' = Settled(IF n.err = "OK" THEN n ELSE [n EXCEPT !.halted = TRUE])
      /\ mode' = IF n.err = "OK" THEN after ELSE IF n.jmp = frame THEN "host" ELSE "wild"
  BY <1>4
<1> HIDE DEF n
<1>7. n.err # "OK" => n.jmp = frame
  BY <1>5 DEF Ended, Precise, Same, Control
<1> QED
  BY <1>3, <1>5, <1>6, <1>7

(* What it leaves.                                                         *)
LEMMA ExecuteLeaves ==
  ASSUME NEW n, NEW b, NEW i, Ended(n, b, i),
         NEW v, v = Settled(IF n.err = "OK" THEN n ELSE [n EXCEPT !.halted = TRUE])
  PROVE  /\ IsMachine(v) /\ AtRest(v) /\ Data(v) = Data(n) /\ FlagsOf(v) = FlagsOf(n)
         /\ v.instr = n.instr /\ v.intr = n.intr /\ v.swap = n.swap
         /\ n.err = "OK" => v.halted = n.halted /\ v.jmp = n.jmp
<1> DEFINE h == [n EXCEPT !.halted = TRUE]
           k == IF n.err = "OK" THEN n ELSE h
<1>1. IsMachine(n)
  BY DEF Ended
<1>2. IsMachine(h) /\ Data(h) = Data(n) /\ FlagsOf(h) = FlagsOf(n)
      /\ h.instr = n.instr /\ h.intr = n.intr /\ h.swap = n.swap
  BY <1>1 DEF IsMachine, Data, FlagsOf
<1> HIDE DEF h
<1>3. IsMachine(k) /\ Data(k) = Data(n) /\ FlagsOf(k) = FlagsOf(n)
      /\ k.instr = n.instr /\ k.intr = n.intr /\ k.swap = n.swap /\ (n.err = "OK" => k = n)
  BY <1>1, <1>2
<1> HIDE DEF k
<1>4. v = Settled(k)
  BY DEF k, h
<1>5. /\ IsMachine(v) /\ AtRest(v) /\ Control(v) = Control(k) /\ Data(v) = Data(k)
      /\ FlagsOf(v) = FlagsOf(k)
  BY <1>3, <1>4, SettledType
<1> QED
  BY <1>3, <1>5 DEF Control

-----------------------------------------------------------------------------
LEMMA RaisedType ==
  ASSUME IsMachine(vm), AtRest(vm), NEW vector \in 0 .. Modulus(SIZE16) - 1, Raised(vector)
  PROVE  IsMachine(vm') /\ AtRest(vm')
<1> DEFINE n == Raise(vm, vector)
<1>1. IsMachine(n)
  BY Raises DEF AtRest
<1>2. vm' = Settled(n)
  BY DEF Raised
<1> HIDE DEF n
<1> QED
  BY <1>1, <1>2, SettledType

LEMMA Vectors ==
  /\ 0 \in 0 .. Modulus(SIZE16) - 1
  /\ EX - 1 \in 0 .. Modulus(SIZE16) - 1
  /\ \A e \in Recoverable : Vector(e) \in 0 .. Modulus(SIZE16) - 1
<1> DEFINE b == Modulus(SIZE8)
           q == Modulus(SIZE16)
<1>1. b \in Nat /\ b >= 16
  BY Sizes
<1>2. q = b * b
  <2>1. Modulus(1 + 1) = Modulus(1) * Modulus(1)
    BY Moduli
  <2>2. SIZE16 = 1 + 1 /\ SIZE8 = 1
    BY DEF SIZE16, SIZE8
  <2> QED
    BY <2>1, <2>2
<1> HIDE DEF b, q
<1>3. q \in Nat /\ q >= b + 5
  <2>1. PICK k \in Nat : b = 16 + k
    <3>1. b - 16 \in Nat /\ b = 16 + (b - 16)
      BY <1>1
    <3> QED
      BY <3>1
  <2>2. b * b = 16 * b + k * b
    BY <1>1, <2>1
  <2>3. k * b \in Nat
    BY <1>1, <2>1
  <2> QED
    BY <1>1, <1>2, <2>2, <2>3
<1>4. EX = b
  BY DEF EX, b
<1>5. \A e \in Recoverable : Vector(e) \in {EX, EX + 1, EX + 2, EX + 4}
  BY DEF Recoverable, Vector
<1> QED
  BY <1>1, <1>3, <1>4, <1>5 DEF q

(* The inductive invariant of cpu.c: types, no longjmp into a call that    *)
(* has returned, and the frame that vm_resume set panic_jmp to unless an   *)
(* interrupt has stopped it.                                               *)
THEOREM Types == Spec => []Inv
<1>1. Init => Inv
  <2> SUFFICES ASSUME Init
               PROVE  Inv
    OBVIOUS
  <2>1. PICK s \in Starts : vm = s.vm /\ program = s.program
    BY DEF Init
  <2>2. IsMachine(s.vm) /\ AtRest(s.vm) /\ s.program \in Seq(SUBSET Instruction)
    BY CpuAssumption
  <2>3. IsMachine(vm) /\ AtRest(vm) /\ program \in Seq(SUBSET Instruction)
    BY <2>1, <2>2
  <2>4. Count \in Nat
    BY CpuAssumption
  <2> QED
    BY <2>3, <2>4 DEF Init, Inv, CpuTypeOK, PanicsCaught
<1>2. Inv /\ [Next]_vars => Inv'
  <2> SUFFICES ASSUME Inv, [Next]_vars
               PROVE  Inv'
    OBVIOUS
  <2>1. /\ IsMachine(vm) /\ AtRest(vm) /\ vm.err = "OK" /\ mode \in {"host", "resume"}
        /\ remaining \in 0 .. Count /\ Count \in Nat
        /\ mode = "resume" => vm.halted \/ vm.jmp = "resume"
        /\ program \in Seq(SUBSET Instruction)
    BY CpuAssumption DEF Inv, CpuTypeOK, PanicsCaught, AtRest
  <2>2. ASSUME IsMachine(vm'), AtRest(vm'), mode' \in {"host", "resume"}, remaining' \in 0 .. Count,
               mode' = "resume" => vm'.halted \/ vm'.jmp = "resume",
               program' \in Seq(SUBSET Instruction)
        PROVE  Inv'
    BY <2>2 DEF Inv, CpuTypeOK, PanicsCaught
  <2>3. CASE UNCHANGED vars
    BY <2>1, <2>2, <2>3 DEF vars
  <2>4. CASE Resume
    <3> DEFINE n == [vm EXCEPT !.halted = FALSE, !.jmp = "resume"]
    <3>1. IsMachine(n) /\ AtRest(n) /\ n.jmp = "resume"
      BY <2>1 DEF IsMachine, AtRest, Frames
    <3>2. vm' = n /\ mode' = "resume" /\ remaining' = Count /\ program' = program
      BY <2>4 DEF Resume
    <3> HIDE DEF n
    <3>3. IsMachine(vm') /\ AtRest(vm') /\ vm'.jmp = "resume"
      BY <3>1, <3>2
    <3> QED
      BY <2>1, <2>2, <3>2, <3>3
  <2>5. CASE ExecuteNext
    <3>1. /\ mode = "resume" /\ ~ vm.halted /\ remaining > 0 /\ remaining' = remaining - 1
          /\ ExecuteIn(vm, "resume", "resume")
      BY <2>5 DEF ExecuteNext
    <3>2. PICK i, n :
            /\ i \in Instruction
            /\ Ended(n, Begin(vm), i) /\ Same(Begin(vm), vm)
            /\ vm' = Settled(IF n.err = "OK" THEN n ELSE [n EXCEPT !.halted = TRUE])
            /\ mode' = IF n.err = "OK" THEN "resume" ELSE "host"
            /\ program' \in Seq(SUBSET Instruction)
      BY <2>1, <3>1, ExecutesIn
    <3>3. /\ IsMachine(vm') /\ AtRest(vm')
          /\ n.err = "OK" => vm'.halted = n.halted /\ vm'.jmp = n.jmp
      BY <3>2, ExecuteLeaves
    <3>4. n.err = "OK" => n.halted \/ n.jmp = "resume"
      BY <2>1, <3>1, <3>2 DEF Ended, Same, Control
    <3>5. remaining' \in 0 .. Count
      BY <2>1, <3>1
    <3> QED
      BY <2>2, <3>2, <3>3, <3>4, <3>5
  <2>6. CASE ResumeReturns
    BY <2>1, <2>2, <2>6 DEF ResumeReturns
  <2>7. CASE Step
    <3> DEFINE m == [vm EXCEPT !.jmp = "step"]
    <3>1. mode = "host" /\ remaining' = remaining /\ ExecuteIn(m, "step", "host")
      BY <2>7 DEF Step, HostCall
    <3>2. IsMachine(m) /\ m.err = "OK" /\ m.jmp = "step"
      BY <2>1, InAnotherFrame DEF Frames
    <3> HIDE DEF m
    <3>3. PICK i, n :
            /\ i \in Instruction
            /\ Ended(n, Begin(m), i)
            /\ vm' = Settled(IF n.err = "OK" THEN n ELSE [n EXCEPT !.halted = TRUE])
            /\ mode' = IF n.err = "OK" THEN "host" ELSE "host"
            /\ program' \in Seq(SUBSET Instruction)
      BY <2>1, <3>1, <3>2, ExecutesIn
    <3>4. IsMachine(vm') /\ AtRest(vm')
      BY <3>3, ExecuteLeaves
    <3> QED
      BY <2>1, <2>2, <3>1, <3>3, <3>4
  <2>8. CASE HostRaise
    <3>1. PICK vector \in {0, EX - 1} : Raised(vector)
      BY <2>8 DEF HostRaise
    <3>2. vector \in 0 .. Modulus(SIZE16) - 1
      BY Vectors
    <3>3. IsMachine(vm') /\ AtRest(vm')
      BY <2>1, <3>1, <3>2, RaisedType
    <3> QED
      BY <2>1, <2>2, <2>8, <3>3 DEF HostRaise, HostCall
  <2>9. CASE Recover
    <3>1. CASE status \in Recoverable
      <4>1. Raised(Vector(status))
        BY <2>9, <3>1 DEF Recover
      <4>2. Vector(status) \in 0 .. Modulus(SIZE16) - 1
        BY <3>1, Vectors
      <4>3. IsMachine(vm') /\ AtRest(vm')
        BY <2>1, <4>1, <4>2, RaisedType
      <4> QED
        BY <2>1, <2>2, <2>9, <4>3 DEF Recover, HostCall
    <3>2. CASE status \notin Recoverable
      BY <2>1, <2>2, <2>9, <3>2 DEF Recover, HostCall
    <3> QED
      BY <3>1, <3>2
  <2>10. CASE HostPush
    <3> DEFINE m == [vm EXCEPT !.jmp = "push"]
               n == Push(m, vm.instr, SIZE32)
    <3>1. IsMachine(m)
      BY <2>1, InAnotherFrame DEF Frames
    <3> HIDE DEF m
    <3>2. IsMachine(n)
      BY <2>1, <3>1, Pushes, Offsets, Fields, WordIsNat
    <3> HIDE DEF n
    <3>3. vm' = Settled(n)
      BY <2>10 DEF HostPush, SafeCall, n, m
    <3>4. IsMachine(vm') /\ AtRest(vm')
      BY <3>2, <3>3, SettledType
    <3> QED
      BY <2>1, <2>2, <2>10, <3>4 DEF HostPush, SafeCall, HostCall
  <2>11. CASE HostPop
    <3> DEFINE m == [vm EXCEPT !.jmp = "pop"]
               n == Pop(m, SIZE32)
    <3>1. IsMachine(m) /\ m.err = "OK"
      BY <2>1, InAnotherFrame DEF Frames
    <3> HIDE DEF m
    <3>2. IsMachine(n)
      BY <3>1, Pops, Offsets
    <3> HIDE DEF n
    <3>3. vm' = Settled(n)
      BY <2>11 DEF HostPop, SafeCall, n, m
    <3>4. IsMachine(vm') /\ AtRest(vm')
      BY <3>2, <3>3, SettledType
    <3> QED
      BY <2>1, <2>2, <2>11, <3>4 DEF HostPop, SafeCall, HostCall
  <2> QED
    BY <2>3, <2>4, <2>5, <2>6, <2>7, <2>8, <2>9, <2>10, <2>11 DEF Next
<1> QED
  BY <1>1, <1>2, PTL DEF Spec

(* Every register, pointer and byte of the machine keeps its width through *)
(* every instruction, interrupt and call of the host, and nothing of an    *)
(* instruction that was broken off is left.                                *)
THEOREM CpuTyped == Spec => []CpuTypeOK
BY Types, PTL DEF Inv

(* vm_panic always finds the call that set panic_jmp still running: no     *)
(* instruction is executed after an int before vm_step or vm_resume sets   *)
(* it again.                                                               *)
THEOREM PanicIsCaught == Spec => []PanicsCaught
BY Types, PTL DEF Inv

-----------------------------------------------------------------------------
(* Faults, and what is skipped.                                            *)

(* An instruction that was executed, in either frame.                      *)
LEMMA ExecutedStep ==
  ASSUME Inv, Next, Executed
  PROVE  \E i \in Instruction : \E n : \E b :
           /\ last' = i /\ status' = n.err /\ Ended(n, b, i)
           /\ IsMachine(vm') /\ Data(vm') = Data(n) /\ FlagsOf(vm') = FlagsOf(n)
           /\ vm'.instr = n.instr /\ vm'.intr = n.intr /\ vm'.swap = n.swap
           /\ IsMachine(b) /\ Data(b) = Data(vm) /\ FlagsOf(b) = FlagsOf(vm)
           /\ b.instr = vm.instr /\ b.intr = vm.intr /\ b.swap = vm.swap
           /\ \A j : After(j) = (b.mut + ParamsSize(j)) % WordMod
<1>1. IsMachine(vm) /\ vm.err = "OK" /\ program \in Seq(SUBSET Instruction)
      /\ (mode = "resume" => vm.halted \/ vm.jmp = "resume")
  BY DEF Inv, CpuTypeOK, AtRest
<1>2. ASSUME NEW m, IsMachine(m), m.err = "OK", NEW frame, m.jmp = frame, NEW after,
             ExecuteIn(m, frame, after),
             m.instr = vm.instr, m.intr = vm.intr, m.swap = vm.swap,
             Data(m) = Data(vm), FlagsOf(m) = FlagsOf(vm),
             Begin(m).mut = Begin(vm).mut
      PROVE  \E i \in Instruction : \E n : \E b :
               /\ last' = i /\ status' = n.err /\ Ended(n, b, i)
               /\ IsMachine(vm') /\ Data(vm') = Data(n) /\ FlagsOf(vm') = FlagsOf(n)
               /\ vm'.instr = n.instr /\ vm'.intr = n.intr /\ vm'.swap = n.swap
               /\ IsMachine(b) /\ Data(b) = Data(vm) /\ FlagsOf(b) = FlagsOf(vm)
               /\ b.instr = vm.instr /\ b.intr = vm.intr /\ b.swap = vm.swap
               /\ \A j : After(j) = (b.mut + ParamsSize(j)) % WordMod
  <2>1. PICK i, n :
          /\ i \in Instruction
          /\ last' = i /\ status' = n.err
          /\ Ended(n, Begin(m), i) /\ IsMachine(Begin(m)) /\ Same(Begin(m), m)
          /\ vm' = Settled(IF n.err = "OK" THEN n ELSE [n EXCEPT !.halted = TRUE])
    BY <1>1, <1>2, ExecutesIn
  <2> DEFINE b == Begin(m)
             v == vm'
  <2>2. /\ IsMachine(v) /\ Data(v) = Data(n) /\ FlagsOf(v) = FlagsOf(n)
        /\ v.instr = n.instr /\ v.intr = n.intr /\ v.swap = n.swap
    BY <2>1, ExecuteLeaves
  <2>3. \A j : After(j) = (b.mut + ParamsSize(j)) % WordMod
    <3> TAKE j
    <3> DEFINE w == (Begin(vm).mut + ParamsSize(j)) % WordMod
    <3>1. After(j) = [Begin(vm) EXCEPT !.mut = w].mut
      BY DEF After, SkipParams
    <3> HIDE DEF w
    <3>2. IsMachine(Begin(vm))
      BY <1>1, BeginReads
    <3>3. [Begin(vm) EXCEPT !.mut = w].mut = w
      BY <3>2 DEF IsMachine
    <3> QED
      BY <1>2, <3>1, <3>3 DEF w
  <2> HIDE DEF b, v
  <2>4. IsMachine(b) /\ Data(b) = Data(vm) /\ FlagsOf(b) = FlagsOf(vm)
        /\ b.instr = vm.instr /\ b.intr = vm.intr /\ b.swap = vm.swap
    BY <1>2, <2>1 DEF b, Same, Control
  <2>5. i \in Instruction /\ last' = i /\ status' = n.err /\ Ended(n, b, i)
    BY <2>1 DEF b
  <2> QED
    BY <2>2, <2>3, <2>4, <2>5 DEF v
<1>3. CASE ExecuteNext
  <2>1. mode = "resume" /\ ~ vm.halted /\ ExecuteIn(vm, "resume", "resume")
    BY <1>3 DEF ExecuteNext
  <2>2. vm.jmp = "resume"
    BY <1>1, <2>1
  <2> QED
    BY <1>1, <1>2, <2>1, <2>2
<1>4. CASE Step
  <2> DEFINE m == [vm EXCEPT !.jmp = "step"]
  <2>1. ExecuteIn(m, "step", "host")
    BY <1>4 DEF Step
  <2>2. "step" \in Frames
    BY DEF Frames
  <2>3. Begin(m).mut = Begin(vm).mut
    BY <1>1, <2>2, BeginInFrame
  <2>4. /\ IsMachine(m) /\ m.err = "OK" /\ m.jmp = "step" /\ m.instr = vm.instr
        /\ m.intr = vm.intr /\ m.swap = vm.swap /\ Data(m) = Data(vm)
        /\ FlagsOf(m) = FlagsOf(vm)
    BY <1>1, <2>2, InAnotherFrame
  <2> HIDE DEF m
  <2> QED
    BY <1>2, <2>1, <2>3, <2>4
<1>5. ~ (Resume \/ ResumeReturns \/ HostRaise \/ Recover \/ HostPush \/ HostPop)
  BY DEF Executed, Resume, ResumeReturns, HostRaise, Recover, HostPush, HostPop, SafeCall
<1> QED
  BY <1>3, <1>4, <1>5 DEF Next

LEMMA StepIsPrecise ==
  ASSUME Inv, Next, Executed, status' # "OK"
  PROVE  /\ \/ vm'.regs = vm.regs
            \/ last'.op \in Loops /\ vm'.regs = Counted(vm.regs)
         /\ <<vm'.mem, vm'.frame, vm'.exstack>> = <<vm.mem, vm.frame, vm.exstack>>
         /\ last'.op # "RETI" => vm'.stack = vm.stack /\ Flags(vm') = Flags(vm)
         /\ vm'.instr = IF status' = "DEBUGGER" THEN After(last') ELSE vm.instr
<1>1. PICK i, n, b :
        /\ i \in Instruction
        /\ last' = i /\ status' = n.err /\ Ended(n, b, i)
        /\ Data(vm') = Data(n) /\ FlagsOf(vm') = FlagsOf(n)
        /\ vm'.instr = n.instr /\ vm'.intr = n.intr /\ vm'.swap = n.swap
        /\ Data(b) = Data(vm) /\ FlagsOf(b) = FlagsOf(vm)
        /\ b.instr = vm.instr /\ b.intr = vm.intr /\ b.swap = vm.swap
        /\ \A j : After(j) = (b.mut + ParamsSize(j)) % WordMod
  BY ExecutedStep
<1>2. Precise(n, b, i)
  BY <1>1 DEF Ended
<1> DEFINE v == vm'
<1>3. /\ Data(v) = Data(n) /\ FlagsOf(v) = FlagsOf(n)
      /\ v.instr = n.instr /\ v.intr = n.intr /\ v.swap = n.swap
  BY <1>1
<1> HIDE DEF v
<1>4. /\ v.regs = vm.regs \/ (i.op \in Loops /\ v.regs = Counted(vm.regs))
      /\ v.mem = vm.mem /\ v.frame = vm.frame /\ v.exstack = vm.exstack
      /\ i.op # "RETI" => /\ v.stack = vm.stack /\ FlagsOf(v) = FlagsOf(vm)
                          /\ v.intr = vm.intr /\ v.swap = vm.swap
  BY <1>1, <1>2, <1>3 DEF Precise, Data
<1>5. i.op # "RETI" => Flags(v) = Flags(vm)
  BY <1>4 DEF Flags, FlagsOf
<1>6. v.instr = IF n.err = "DEBUGGER" THEN After(i) ELSE vm.instr
  BY <1>1, <1>2, <1>3 DEF Precise
<1> QED
  BY <1>1, <1>4, <1>5, <1>6 DEF v

(* An instruction that vm_panic breaks off leaves registers, memory, flags *)
(* and stack as they were, whatever its operands and wherever it was       *)
(* broken off, but for the exceptions that the property names.             *)
THEOREM FaultsPrecise == Spec => FaultsArePrecise
<1>1. Inv /\ [Next]_vars =>
        [Executed /\ status' # "OK" =>
           /\ \/ vm'.regs = vm.regs
              \/ last'.op \in Loops /\ vm'.regs = Counted(vm.regs)
           /\ <<vm'.mem, vm'.frame, vm'.exstack>> = <<vm.mem, vm.frame, vm.exstack>>
           /\ last'.op # "RETI" => vm'.stack = vm.stack /\ Flags(vm') = Flags(vm)
           /\ vm'.instr = IF status' = "DEBUGGER" THEN After(last') ELSE vm.instr]_vars
  BY StepIsPrecise
<1> QED
  BY <1>1, Types, PTL DEF Spec, FaultsArePrecise

LEMMA StepSkipsWhole ==
  ASSUME Inv, Next, Executed, status' = "OK"
  PROVE  /\ last'.op \notin Moving /\ ~InMisread(last') =>
              vm'.instr = After(last')
         /\ last'.op \in Calls /\ vm'.stack # vm.stack /\ vm'.stack + SIZE32 <= RamSize =>
              Read(vm', vm'.stack, SIZE32).val = After(last')
<1>1. PICK i, n, b :
        /\ i \in Instruction
        /\ last' = i /\ status' = n.err /\ Ended(n, b, i)
        /\ IsMachine(vm') /\ Data(vm') = Data(n) /\ vm'.instr = n.instr
        /\ IsMachine(b) /\ Data(b) = Data(vm)
        /\ \A j : After(j) = (b.mut + ParamsSize(j)) % WordMod
  BY ExecutedStep
<1> DEFINE v == vm'
           w == (b.mut + ParamsSize(i)) % WordMod
<1>2. /\ IsMachine(v) /\ v.stack = n.stack /\ v.mem = n.mem /\ v.instr = n.instr
      /\ b.stack = vm.stack /\ After(i) = w
  <2> HIDE DEF v
  <2>1. Data(v) = Data(n) /\ IsMachine(v) /\ v.instr = n.instr
    BY <1>1 DEF v
  <2> QED
    BY <1>1, <2>1 DEF Data
<1> HIDE DEF v
<1>3. /\ i.op \notin Moving /\ ~ InMisread(i) => n.instr = w
      /\ i.op \in Calls => n.stack = b.stack \/ PushedAfter(n, b, i)
  BY <1>1 DEF Ended
<1>4. ASSUME i.op \in Calls, v.stack # vm.stack, v.stack + SIZE32 <= RamSize
      PROVE  Read(v, v.stack, SIZE32).val = w
  <2>1. PushedAfter(n, b, i)
    BY <1>2, <1>3, <1>4
  <2> DEFINE top == (b.stack - SIZE32) % WordMod
  <2>2. PICK k : IsMachine(k) /\ n.mem = Write(k, top, SIZE32, w).mem
    BY <2>1 DEF PushedAfter
  <2>3. v.stack = top
    BY <1>2, <2>1 DEF PushedAfter
  <2>4. v.stack \in Word
    BY <1>2, Fields
  <2>5. w \in Word
    <3>1. i.op \in OneOperand
      BY <1>4, Kinds
    <3>2. ParamsSize(i) \in Nat /\ b.mut \in Int
      BY <1>1, <3>1, ParamsSizes, InstructionType, ParamSizeType, Fields, WordIsNat
    <3>3. b.mut + ParamsSize(i) \in Int
      BY <3>2
    <3> QED
      BY <3>3, Wraps
  <2> HIDE DEF top, w
  <2> QED
    BY <1>2, <1>4, <2>2, <2>3, <2>4, <2>5, WrittenIsRead
<1> HIDE DEF w
<1> QED
  BY <1>1, <1>2, <1>3, <1>4 DEF v

(* What the preludes skip is what the instruction reads, for every opcode, *)
(* size and pair of operands; and a call pushes the address behind it.     *)
THEOREM InstructionsWhole == Spec => SkipsWhole
<1>1. Inv /\ [Next]_vars =>
        [Executed /\ status' = "OK" =>
           /\ last'.op \notin Moving /\ ~InMisread(last') =>
                vm'.instr = After(last')
           /\ last'.op \in Calls /\ vm'.stack # vm.stack /\ vm'.stack + SIZE32 <= RamSize =>
                Read(vm', vm'.stack, SIZE32).val = After(last')]_vars
  BY StepSkipsWhole
<1> QED
  BY <1>1, Types, PTL DEF Spec, SkipsWhole

-----------------------------------------------------------------------------
(* Comparisons.                                                            *)

(* What a plain operand is read as.                                        *)
PlainIn(m, o, s) == Low(IF o.mode = IMM THEN o.val ELSE m.regs[o.reg], s)

LEMMA PlainRead ==
  ASSUME NEW m, IsMachine(m), m.err = "OK", NEW o \in Operands, Plain(o), NEW s \in Size,
         NEW f \in {0, 1}, Source(m, o, s, f).err = "OK"
  PROVE  Source(m, o, s, f).val = PlainIn(m, o, s)
<1> DEFINE n == Source(m, o, s, f)
<1>1. CASE o.mode = IMM
  <2> DEFINE k == Fetch(m, s)
             v == Low(o.val, s)
  <2>1. n = IF k.err = "OK" THEN [k EXCEPT !.val = v] ELSE k
    BY <1>1 DEF Source, Do, REG, REGPTR, IMM, IMMPTR
  <2>2. IsMachine(k)
    BY FetchReads DEF Goes
  <2>3. v = PlainIn(m, o, s)
    BY <1>1 DEF PlainIn
  <2> HIDE DEF k, v
  <2>4. k.err = "OK"
    BY <2>1
  <2>5. n = [k EXCEPT !.val = v]
    BY <2>1, <2>4
  <2> HIDE DEF n
  <2>6. n.val = v
    BY <2>2, <2>5 DEF IsMachine
  <2> QED
    BY <2>3, <2>6 DEF n
<1>2. CASE o.mode = REG /\ o.reg < RegisterCount
  <2> DEFINE k == Fetch(m, SIZE8)
             v == Low(Local(k, o.reg), s)
  <2>1. n = IF k.err = "OK"
            THEN IF o.reg < RegisterCount + 3 THEN [k EXCEPT !.val = v] ELSE Panic(k, "BADREGISTER")
            ELSE k
    BY <1>2 DEF Source, Do, WithLocal, REG, REGPTR, IMM, IMMPTR
  <2>2. IsMachine(k) /\ Same(k, m)
    BY Offsets, FetchReads DEF Goes
  <2>3. v = PlainIn(m, o, s)
    BY <1>2, <2>2 DEF PlainIn, Local, Same, Data, REG, IMM
  <2>4. o.reg < RegisterCount + 3
    <3>1. o.reg \in Int /\ RegisterCount \in Int
      <4>1. o.reg \in Word
        BY OperandType, Sizes
      <4>2. RegisterCount \in Int
        BY CpuAssumption
      <4> QED
        BY <4>1, <4>2, WordIsNat
    <3> QED
      BY <1>2, <3>1
  <2> HIDE DEF k, v
  <2>5. k.err = "OK"
    BY <2>1
  <2>6. n = [k EXCEPT !.val = v]
    BY <2>1, <2>4, <2>5
  <2> HIDE DEF n
  <2>7. n.val = v
    BY <2>2, <2>6 DEF IsMachine
  <2> QED
    BY <2>3, <2>7 DEF n
<1> QED
  BY <1>1, <1>2 DEF Plain

(* A difference is cut exactly if it is negative, and zero only if the     *)
(* numbers are equal.                                                      *)
LEMMA Difference ==
  ASSUME NEW s \in Size, NEW b \in 0 .. Modulus(s) - 1, NEW a \in 0 .. Modulus(s) - 1
  PROVE  /\ Checked("CMP", b, a, s).x = 0 <=> b = a
         /\ Checked("CMP", b, a, s).carry <=> b < a
<1> DEFINE p == Modulus(s)
           e == b - a
           x == e % p
<1>1. p \in Nat \ {0} /\ b \in 0 .. p - 1 /\ a \in 0 .. p - 1
  BY Sizes
<1>2. /\ Checked("CMP", b, a, s).x = x
      /\ Checked("CMP", b, a, s).carry <=> x # e
  BY DEF Checked, Exact, Typed, SignedOps, Low
<1> HIDE DEF p, x
<1>3. CASE b >= a
  <2>1. e \in 0 .. p - 1
    BY <1>1, <1>3
  <2>2. x = e
    BY <1>1, <2>1 DEF x
  <2> QED
    BY <1>1, <1>2, <1>3, <2>2
<1>4. CASE b < a
  <2>1. e + p \in 1 .. p - 1
    BY <1>1, <1>4
  <2>2. x = e + p
    <3>1. p * (-1) + (e + p) = e
      BY <1>1
    <3>2. e + p \in 0 .. p - 1 /\ -1 \in Int
      BY <2>1
    <3>3. (p * (-1) + (e + p)) % p = e + p
      BY <1>1, <3>2, DivisionIsUnique
    <3> QED
      BY <3>1, <3>3 DEF x
  <2> QED
    BY <1>1, <1>2, <1>4, <2>1, <2>2
<1> QED
  BY <1>1, <1>3, <1>4

LEMMA Compares2 ==
  ASSUME NEW m, IsMachine(m), m.err = "OK", NEW i \in Instruction, i.op = "CMP",
         Plain(i.target), Plain(i.source), Compare(m, i).err = "OK"
  PROVE  LET z == Compare(m, i)
             b == PlainIn(m, i.target, i.size)
             a == PlainIn(m, i.source, i.size)
         IN  /\ IsMachine(z)
             /\ z.zero <=> b = a
             /\ z.carry <=> b < a
<1> DEFINE n == Source(m, i.source, i.size, i.offset)
           l == Source(n, i.target, i.size, i.offset)
           c == Checked(i.op, l.val, n.val, i.size)
           k == [l EXCEPT !.carry = c.carry]
           r == SetZero(k, c.x)
           z == Compare(m, i)
           b == PlainIn(m, i.target, i.size)
           a == PlainIn(m, i.source, i.size)
<1>1. /\ i.size \in Size /\ i.offset \in {0, 1} /\ i.target \in Operands /\ i.source \in Operands
      /\ i.op \in Compares
  BY InstructionType DEF Compares
<1>2. z = IF n.err = "OK" THEN IF l.err = "OK" THEN r ELSE l ELSE n
  BY DEF Compare, Do, Src
<1>3. /\ IsMachine(n) /\ Same(n, m)
      /\ n.err = "OK" => /\ n.val \in 0 .. Modulus(i.size) - 1
                         /\ IsMachine(l)
                         /\ l.err = "OK" => l.val \in 0 .. Modulus(i.size) - 1
  BY <1>1, BothRead
<1> HIDE DEF z, n, l
<1>4. n.err = "OK" /\ l.err = "OK" /\ z = r
  <2> HIDE DEF r
  <2> QED
    BY <1>2 DEF z
<1>5. n.val = a
  BY <1>1, <1>4, PlainRead DEF n
<1>6. l.val = b
  <2>1. l.val = PlainIn(n, i.target, i.size)
    BY <1>1, <1>3, <1>4, PlainRead DEF l
  <2>2. n.regs = m.regs
    BY <1>3 DEF Same, Data
  <2> QED
    BY <2>1, <2>2 DEF PlainIn
<1> HIDE DEF a, b
<1>7. (c.x = 0 <=> b = a) /\ (c.carry <=> b < a) /\ c.carry \in BOOLEAN
  <2>1. c = Checked("CMP", b, a, i.size)
    BY <1>5, <1>6
  <2>2. a \in 0 .. Modulus(i.size) - 1 /\ b \in 0 .. Modulus(i.size) - 1
    BY <1>3, <1>4, <1>5, <1>6
  <2>3. c.carry \in BOOLEAN
    BY <1>1, <1>3, <1>4, CheckedType
  <2> HIDE DEF c
  <2> QED
    BY <1>1, <2>1, <2>2, <2>3, Difference
<1> DEFINE t == (c.x = 0)
<1>8. t \in BOOLEAN
  OBVIOUS
<1>9. z = [k EXCEPT !.zero = t]
  BY <1>4 DEF SetZero
<1> HIDE DEF c
<1>10. IsMachine(k) /\ k.carry = c.carry
  BY <1>3, <1>4, <1>7 DEF IsMachine
<1> HIDE DEF k, t
<1>11. IsMachine(z) /\ z.zero = t /\ z.carry = k.carry
  BY <1>8, <1>9, <1>10 DEF IsMachine
<1> QED
  BY <1>7, <1>10, <1>11 DEF z, a, b, t

(* The same of the whole pass.                                             *)
LEMMA ExecutesCompare ==
  ASSUME NEW m, IsMachine(m), m.err = "OK", NEW i \in Instruction, i.op = "CMP",
         NEW c, Plain(i.target), Plain(i.source), Execute(m, i, c).err = "OK", ~ Skips(m, i.cond)
  PROVE  LET z == Execute(m, i, c)
             b == PlainIn(m, i.target, i.size)
             a == PlainIn(m, i.source, i.size)
         IN  /\ z.zero <=> b = a
             /\ z.carry <=> b < a
<1> DEFINE o == Begin(m)
           unknown == Panic([o EXCEPT !.operand = o.val], "BADOPCODE")
           condition == Panic(o, "BADCONDITION")
           compared == Compare(o, i)
           n == IF o.err # "OK" THEN o
                ELSE IF ~ Known(i) THEN unknown
                ELSE IF i.cond = 7 THEN condition
                ELSE compared
           z == Execute(m, i, c)
<1>1. IsMachine(o) /\ Same(o, m) /\ o.err \in {"OK", "FAULT_RD"}
  BY BeginReads
<1>2. ~ Skips(o, i.cond)
  BY <1>1 DEF Skips, Same, FlagsOf
<1>3. Perform(o, i, c) = compared
  BY DEF Perform, Jumps, Loops, Calls, Steps, Moves, Sums, Quotients, Logicals, Compares, Shifts
<1>4. z = IF n.err = "OK" THEN [n EXCEPT !.instr = n.mut] ELSE n
  BY <1>2, <1>3 DEF Execute, Do
<1> HIDE DEF o, z
<1>5. unknown.err = "BADOPCODE" /\ condition.err = "BADCONDITION"
  <2>1. IsMachine([o EXCEPT !.operand = o.val])
    BY <1>1 DEF IsMachine
  <2> QED
    BY <1>1, <2>1 DEF Panic, IsMachine
<1> HIDE DEF unknown, condition, compared
<1>6. n.err = "OK"
  <2> HIDE DEF n
  <2> QED
    BY <1>4 DEF z
<1>7. o.err = "OK" /\ n = compared
  BY <1>5, <1>6
<1> HIDE DEF n
<1>8. /\ IsMachine(compared)
      /\ compared.zero <=> PlainIn(o, i.target, i.size) = PlainIn(o, i.source, i.size)
      /\ compared.carry <=> PlainIn(o, i.target, i.size) < PlainIn(o, i.source, i.size)
  BY <1>1, <1>6, <1>7, Compares2 DEF compared
<1>9. \A w \in Operands : PlainIn(o, w, i.size) = PlainIn(m, w, i.size)
  BY <1>1 DEF PlainIn, Same, Data
<1>10. i.target \in Operands /\ i.source \in Operands
  BY InstructionType
<1>11. z = [compared EXCEPT !.instr = compared.mut]
  BY <1>4, <1>6, <1>7
<1>12. z.zero = compared.zero /\ z.carry = compared.carry
  BY <1>8, <1>11 DEF IsMachine
<1> QED
  BY <1>8, <1>9, <1>10, <1>12 DEF z

-----------------------------------------------------------------------------
LEMMA StepComparesOrder ==
  ASSUME Inv, Next, Executed, status' = "OK", last'.op = "CMP", ~ Skips(vm, last'.cond),
         Plain(last'.target), Plain(last'.source)
  PROVE  LET b == Plainly(last'.target, last'.size)
             a == Plainly(last'.source, last'.size)
         IN  /\ b \in Nat /\ a \in Nat
             /\ vm'.zero <=> b = a
             /\ vm'.carry <=> b < a
<1>1. IsMachine(vm) /\ vm.err = "OK" /\ program \in Seq(SUBSET Instruction)
  BY DEF Inv, CpuTypeOK, AtRest
<1>2. ASSUME NEW m, IsMachine(m), m.err = "OK", NEW frame, NEW after,
             ExecuteIn(m, frame, after), Data(m) = Data(vm), FlagsOf(m) = FlagsOf(vm)
      PROVE  LET b == Plainly(last'.target, last'.size)
                 a == Plainly(last'.source, last'.size)
             IN  /\ b \in Nat /\ a \in Nat
                 /\ vm'.zero <=> b = a
                 /\ vm'.carry <=> b < a
  <2> DEFINE x(i, c) == Execute(m, i, c)
  <2>1. PICK i \in Head(program) : \E c \in Outcomes(i) :
           /\ vm' = Settled(IF x(i, c).err = "OK" THEN x(i, c)
                            ELSE [x(i, c) EXCEPT !.halted = TRUE])
           /\ status' = x(i, c).err
           /\ last' = i
    BY <1>2 DEF ExecuteIn
  <2>2. PICK c \in Outcomes(i) :
           /\ vm' = Settled(IF x(i, c).err = "OK" THEN x(i, c)
                            ELSE [x(i, c) EXCEPT !.halted = TRUE])
           /\ status' = x(i, c).err
    BY <2>1
  <2> DEFINE n == Execute(m, i, c)
             v == vm'
             b == PlainIn(m, i.target, i.size)
             a == PlainIn(m, i.source, i.size)
  <2>3. n.err = "OK" /\ v = Settled(n)
    BY <2>2
  <2>4. i \in Instruction
    <3>1. program # <<>>
      BY <1>2 DEF ExecuteIn
    <3> QED
      BY <1>1, <2>1, <3>1, ProgramGoesOn
  <2>5. i.op = "CMP" /\ Plain(i.target) /\ Plain(i.source) /\ ~ Skips(vm, i.cond)
    BY <2>1
  <2>6. ~ Skips(m, i.cond)
    BY <1>2, <2>5 DEF Skips, FlagsOf
  <2>7. (n.zero <=> b = a) /\ (n.carry <=> b < a)
    BY <1>2, <2>3, <2>4, <2>5, <2>6, ExecutesCompare
  <2>8. IsMachine(n)
    BY <1>2, <2>2, <2>4, Executes DEF Ended
  <2> HIDE DEF n
  <2>9. v.zero = n.zero /\ v.carry = n.carry
    BY <2>3, <2>8, SettledType DEF FlagsOf
  <2>10. b = Plainly(i.target, i.size) /\ a = Plainly(i.source, i.size)
    BY <1>2 DEF Plainly, PlainIn, Data
  <2>11. b \in Nat /\ a \in Nat
    <3>1. i.size \in Size /\ i.target \in Operands /\ i.source \in Operands
      BY <2>4, InstructionType
    <3>2. ASSUME NEW w \in Operands, Plain(w)
          PROVE  PlainIn(m, w, i.size) \in Nat
      <4> DEFINE u == IF w.mode = IMM THEN w.val ELSE m.regs[w.reg]
      <4>1. u \in Int
        <5>1. CASE w.mode = IMM
          BY <5>1, OperandType
        <5>2. CASE w.mode # IMM
          <6>1. w.reg \in 0 .. RegisterCount - 1
            <7>1. w.reg < RegisterCount /\ w.reg \in Nat /\ RegisterCount \in Nat
              BY <3>2, <5>2, OperandType, CpuAssumption, Sizes DEF Plain
            <7> QED
              BY <7>1
          <6>2. m.regs[w.reg] \in Word
            BY <1>2, <6>1, Fields
          <6> QED
            BY <5>2, <6>2, WordIsNat
        <5> QED
          BY <5>1, <5>2
      <4>2. PlainIn(m, w, i.size) = Low(u, i.size)
        BY DEF PlainIn
      <4> HIDE DEF u
      <4>3. Low(u, i.size) \in Word
        BY <3>1, <4>1, LowFits
      <4> QED
        BY <4>2, <4>3, WordIsNat
    <3> QED
      BY <2>5, <3>1, <3>2
  <2> HIDE DEF a, b, v
  <2> QED
    BY <2>1, <2>7, <2>9, <2>10, <2>11 DEF v
<1>3. CASE ExecuteNext
  BY <1>1, <1>2, <1>3 DEF ExecuteNext
<1>4. CASE Step
  <2> DEFINE m == [vm EXCEPT !.jmp = "step"]
  <2>1. ExecuteIn(m, "step", "host")
    BY <1>4 DEF Step
  <2>2. "step" \in Frames
    BY DEF Frames
  <2>3. IsMachine(m) /\ m.err = "OK" /\ Data(m) = Data(vm) /\ FlagsOf(m) = FlagsOf(vm)
    BY <1>1, <2>2, InAnotherFrame
  <2> HIDE DEF m
  <2> QED
    BY <1>2, <2>1, <2>3
<1>5. ~ (Resume \/ ResumeReturns \/ HostRaise \/ Recover \/ HostPush \/ HostPop)
  BY DEF Executed, Resume, ResumeReturns, HostRaise, Recover, HostPush, HostPop, SafeCall
<1> QED
  BY <1>3, <1>4, <1>5 DEF Next

LEMMA ConditionsRead ==
  ASSUME NEW m
  PROVE  /\ ~ Skips(m, 1) <=> m.zero
         /\ ~ Skips(m, 2) <=> ~ m.zero
         /\ ~ Skips(m, 3) <=> m.carry
         /\ ~ Skips(m, 4) <=> ~ m.carry
         /\ ~ Skips(m, IFGT) <=> ~ m.zero /\ ~ m.carry
         /\ ~ Skips(m, IFLTEQ) <=> m.zero \/ m.carry
BY DEF Skips, IFGT, IFLTEQ

(* After cmp the six conditions order any two operands of any size as      *)
(* unsigned numbers.                                                       *)
THEOREM ConditionsOrder == Spec => ComparesOrder
<1>1. Inv /\ [Next]_vars =>
        [Executed /\ status' = "OK" /\ last'.op = "CMP" /\ ~Skips(vm, last'.cond)
         /\ Plain(last'.target) /\ Plain(last'.source) =>
           LET b == Plainly(last'.target, last'.size)
               a == Plainly(last'.source, last'.size)
               when(cond) == ~Skips(vm', cond)
           IN  /\ when(1) <=> b = a
               /\ when(2) <=> b # a
               /\ when(3) <=> b < a
               /\ when(4) <=> b >= a
               /\ when(IFGT) <=> b > a
               /\ when(IFLTEQ) <=> b <= a]_vars
  <2> SUFFICES ASSUME Inv, Next, Executed, status' = "OK", last'.op = "CMP",
                      ~ Skips(vm, last'.cond), Plain(last'.target), Plain(last'.source)
               PROVE  LET b == Plainly(last'.target, last'.size)
                          a == Plainly(last'.source, last'.size)
                          when(cond) == ~Skips(vm', cond)
                      IN  /\ when(1) <=> b = a
                          /\ when(2) <=> b # a
                          /\ when(3) <=> b < a
                          /\ when(4) <=> b >= a
                          /\ when(IFGT) <=> b > a
                          /\ when(IFLTEQ) <=> b <= a
    OBVIOUS
  <2> DEFINE b == Plainly(last'.target, last'.size)
             a == Plainly(last'.source, last'.size)
             v == vm'
  <2>1. b \in Nat /\ a \in Nat /\ (v.zero <=> b = a) /\ (v.carry <=> b < a)
    BY StepComparesOrder
  <2>2. /\ ~ Skips(v, 1) <=> v.zero
        /\ ~ Skips(v, 2) <=> ~ v.zero
        /\ ~ Skips(v, 3) <=> v.carry
        /\ ~ Skips(v, 4) <=> ~ v.carry
        /\ ~ Skips(v, IFGT) <=> ~ v.zero /\ ~ v.carry
        /\ ~ Skips(v, IFLTEQ) <=> v.zero \/ v.carry
    BY ConditionsRead
  <2> HIDE DEF b, a, v
  <2>3. /\ ~ Skips(v, 1) <=> b = a
        /\ ~ Skips(v, 2) <=> b # a
        /\ ~ Skips(v, 3) <=> b < a
        /\ ~ Skips(v, 4) <=> b >= a
        /\ ~ Skips(v, IFGT) <=> b > a
        /\ ~ Skips(v, IFLTEQ) <=> b <= a
    BY <2>1, <2>2
  <2> QED
    BY <2>3 DEF b, a, v
<1> QED
  BY <1>1, Types, PTL DEF Spec, ComparesOrder

-----------------------------------------------------------------------------
(* What vm_raise saves, and reti reads.                                    *)

ByteOf(v, i) == (v \div Modulus(i)) % Modulus(SIZE8)

(* What vm_raise saved of c is still in place in m.                        *)
Holds(m, c) ==
  /\ c.instr \in Word /\ c.flags \in 0 .. 15 /\ c.stack \in Word /\ c.top \in Word
  /\ c.top + SavedSize(c) <= RamSize =>
       /\ ByteAt(m, c.top) = c.flags
       /\ \A i \in 0 .. 3 : ByteAt(m, c.top + 1 + i) = ByteOf(c.instr, i)
       /\ IF 3 \in BitsOf(c.flags, SIZE8)
          THEN \A i \in 0 .. 3 : ByteAt(m, c.top + 5 + i) = ByteOf(c.stack, i)
          ELSE c.stack = (c.top + 5) % WordMod

LEMMA RamIsLarge ==
  RamSize \in Nat /\ RamSize >= 64 /\ RamSize < WordMod /\ WordMod \in Nat \ {0}
<1>1. RamSize \in Nat /\ WordMod \in Nat \ {0} /\ SIZE16 \in Size /\ SIZE32 = 4
  BY Sizes
<1>2. RamSize < WordMod
  BY <1>1, CpuAssumption
<1> DEFINE q == Modulus(SIZE16)
<1>3. q \in Nat /\ q >= 16
  BY <1>1, AtLeastByte
<1>4. 4 * q <= RamSize
  BY <1>1, CpuAssumption
<1> HIDE DEF q
<1> QED
  BY <1>1, <1>2, <1>3, <1>4

LEMMA StackDown ==
  ASSUME NEW u \in Word, NEW s \in 0 .. 16
  PROVE  LET t == (u - s) % WordMod IN
         /\ t \in Word /\ (t + s) % WordMod = u
         /\ t + s < WordMod => u = t + s
         /\ t = u - s \/ t = u - s + WordMod
<1> DEFINE t == (u - s) % WordMod
<1>1. u \in Int /\ u - s \in Int /\ s \in Int
  BY WordIsNat
<1>2. t \in Word
  BY <1>1, Wraps
<1>3. (t + s) % WordMod = u
  <2>1. ((u - s) + s) % WordMod = (t + s) % WordMod
    BY <1>1, WrapsOnce
  <2>2. (u - s) + s = u
    BY <1>1
  <2> QED
    BY <2>1, <2>2, WordIsSmall
<1>4. t + s < WordMod => (t + s) % WordMod = t + s
  <2>1. t \in Nat /\ s \in Nat /\ WordMod \in Nat
    BY <1>2, WordIsNat, RamIsLarge
  <2> HIDE DEF t
  <2>2. t + s < WordMod => t + s \in Word
    BY <2>1 DEF Word
  <2> QED
    BY <2>2, WordIsSmall
<1>5. t = u - s \/ t = u - s + WordMod
  <2>1. WordMod \in Nat \ {0} /\ WordMod >= 16 /\ u \in 0 .. WordMod - 1
    BY Sizes DEF Word
  <2>2. CASE u >= s
    <3>1. u - s \in 0 .. WordMod - 1
      BY <2>1, <2>2
    <3> QED
      BY <2>1, <3>1
  <2>3. CASE u < s
    <3>1. u - s + WordMod \in 0 .. WordMod - 1 /\ u - s = WordMod * (-1) + (u - s + WordMod)
      BY <2>1, <2>3
    <3>2. -1 \in Int
      OBVIOUS
    <3>3. (WordMod * (-1) + (u - s + WordMod)) % WordMod = u - s + WordMod
      BY <2>1, <3>1, <3>2, DivisionIsUnique
    <3> QED
      BY <3>1, <3>3
  <2> QED
    BY <2>1, <2>2, <2>3
<1> HIDE DEF t
<1> QED
  BY <1>2, <1>3, <1>4, <1>5 DEF t

(* A push leaves what lies above the stack pointer.                        *)
LEMMA PushedBytes ==
  ASSUME NEW m, IsMachine(m), NEW s \in Size, NEW v \in Nat
  PROVE  LET p == Push(m, v, s) IN
         /\ p.stack + s <= RamSize => \A i \in 0 .. s - 1 : ByteAt(p, p.stack + i) = ByteOf(v, i)
         /\ \A y \in 0 .. RamSize - 1 :
              m.stack <= y /\ y + s < m.stack + RamSize => ByteAt(p, y) = ByteAt(m, y)
<1> DEFINE p == Push(m, v, s)
           u == m.stack
           t == (u - s) % WordMod
           n == Write(m, t, s, v)
<1>1. u \in Word /\ u \in Nat /\ s \in 0 .. 16 /\ s \in Nat
  <2>1. s \in {1, 2, 4}
    BY Sizes
  <2>2. u \in Word
    BY Fields
  <2> QED
    BY <2>1, <2>2, WordIsNat
<1>2. t \in Word /\ (t = u - s \/ t = u - s + WordMod)
  BY <1>1, StackDown
<1>3. p.stack = t /\ p.mem = n.mem
  BY Pushes
<1> HIDE DEF p
<1>4. \A y : ByteAt(p, y) = ByteAt(n, y)
  BY <1>3, SameBytes
<1>5. t + s <= RamSize => \A i \in 0 .. s - 1 : ByteAt(n, t + i) = ByteOf(v, i)
  BY <1>2, WriteBytes DEF ByteOf
<1>6. ASSUME NEW y \in 0 .. RamSize - 1, u <= y, y + s < u + RamSize
      PROVE  ByteAt(n, y) = ByteAt(m, y)
  <2>1. ASSUME NEW i \in 0 .. s - 1
        PROVE  (t + i) % RamSize # y
    <3> DEFINE x == u - s + i
    <3>1. RamSize \in Nat \ {0} /\ x \in Int /\ x < y /\ y < x + RamSize /\ x >= -16
          /\ RamSize >= 64
      BY <1>1, <1>6, RamIsLarge
    <3>2. (t + i) % RamSize = x % RamSize
      <4>1. PICK e \in Int : WordMod = RamSize * e
        <5>1. WordMod % RamSize = 0 /\ WordMod \in Int
          BY CpuAssumption, RamIsLarge
        <5>2. WordMod \div RamSize \in Int
              /\ WordMod = RamSize * (WordMod \div RamSize) + (WordMod % RamSize)
          BY <3>1, <5>1, Division
        <5> DEFINE e == WordMod \div RamSize
        <5>3. e \in Int /\ WordMod = RamSize * e + 0
          BY <5>1, <5>2
        <5> HIDE DEF e
        <5>4. WordMod = RamSize * e
          BY <3>1, <5>3
        <5> QED
          BY <5>3, <5>4
      <4>2. (RamSize * e + x) % RamSize = x % RamSize
        BY <3>1, Remainders
      <4>3. t + i = x \/ t + i = RamSize * e + x
        <5>1. t = u - s \/ t = u - s + RamSize * e
          BY <1>2, <4>1
        <5> HIDE DEF t
        <5>2. RamSize * e \in Int
          BY <3>1
        <5> QED
          BY <1>1, <5>1, <5>2
      <4> QED
        BY <4>2, <4>3
    <3> HIDE DEF x
    <3>3. CASE x >= 0
      <4>1. x \in 0 .. RamSize - 1
        BY <3>1, <3>3
      <4>2. x % RamSize = x
        BY <3>1, <4>1
      <4> QED
        BY <3>1, <3>2, <4>2
    <3>4. CASE x < 0
      <4>1. x + RamSize \in 0 .. RamSize - 1 /\ x = RamSize * (-1) + (x + RamSize)
        BY <3>1, <3>4
      <4>2. x % RamSize = x + RamSize
        BY <3>1, <4>1, DivisionIsUnique
      <4> QED
        BY <3>1, <3>2, <4>2
    <3> QED
      BY <3>1, <3>3, <3>4
  <2> HIDE DEF t
  <2> QED
    BY <1>2, <2>1, WriteBytes
<1> HIDE DEF n, t
<1> QED
  BY <1>3, <1>4, <1>5, <1>6 DEF p

-----------------------------------------------------------------------------
LEMMA FlagValues ==
  ASSUME NEW m, IsMachine(m)
  PROVE  Flags(m) \in 0 .. 15 /\ (3 \in BitsOf(Flags(m), SIZE8) <=> m.swap)
<1>1. 2 ^ 0 = 1 /\ 2 ^ 1 = 2 /\ 2 ^ 2 = 4 /\ 2 ^ 3 = 8
  BY Powers
<1>2. /\ Bit(m.swap, 3) = (IF m.swap THEN 8 ELSE 0) /\ Bit(m.intr, 2) = (IF m.intr THEN 4 ELSE 0)
      /\ Bit(m.carry, 1) = (IF m.carry THEN 2 ELSE 0) /\ Bit(m.zero, 0) = (IF m.zero THEN 1 ELSE 0)
  BY <1>1 DEF Bit
<1> DEFINE l == (IF m.intr THEN 4 ELSE 0) + (IF m.carry THEN 2 ELSE 0) + (IF m.zero THEN 1 ELSE 0)
<1>3. Flags(m) = (IF m.swap THEN 8 ELSE 0) + l /\ l \in 0 .. 7
  BY <1>2 DEF Flags
<1> HIDE DEF l
<1>4. 3 \in 0 .. Width(SIZE8) - 1
  BY Powers DEF Width, SIZE8
<1>5. 3 \in BitsOf(Flags(m), SIZE8) <=> (Flags(m) \div 8) % 2 = 1
  BY <1>1, <1>4 DEF BitsOf
<1> DEFINE f == Flags(m)
<1> HIDE DEF f
<1>6. f = (IF m.swap THEN 8 ELSE 0) + l
  BY <1>3 DEF f
<1>7. f \in 0 .. 15 /\ ((f \div 8) % 2 = 1 <=> m.swap)
  BY <1>3, <1>6
<1> QED
  BY <1>5, <1>7 DEF f

LEMMA FlagsAreSet ==
  ASSUME NEW m, IsMachine(m), NEW f \in 0 .. 15
  PROVE  LET n == SetFlags(m, f) IN
         Flags(n) = f /\ (n.swap <=> 3 \in BitsOf(f, SIZE8))
<1>1. 2 ^ 0 = 1 /\ 2 ^ 1 = 2 /\ 2 ^ 2 = 4 /\ 2 ^ 3 = 8
  BY Powers
<1> DEFINE set == BitsOf(f, SIZE8)
           z == 0 \in set
           c == 1 \in set
           t == 2 \in set
           w == 3 \in set
           n == SetFlags(m, f)
<1>2. \A k \in {0, 1, 2, 3} : k \in 0 .. Width(SIZE8) - 1
  <2>1. ByteBits \in Nat /\ ByteBits >= 4
    BY Powers
  <2>2. Width(SIZE8) = ByteBits
    BY <2>1 DEF Width, SIZE8
  <2> QED
    BY <2>1, <2>2
<1>3. /\ z <=> (f \div 1) % 2 = 1
      /\ c <=> (f \div 2) % 2 = 1
      /\ t <=> (f \div 4) % 2 = 1
      /\ w <=> (f \div 8) % 2 = 1
  BY <1>1, <1>2 DEF BitsOf
<1>4. n = [m EXCEPT !.zero = z, !.carry = c, !.intr = t, !.swap = w]
  BY DEF SetFlags
<1>5. z \in BOOLEAN /\ c \in BOOLEAN /\ t \in BOOLEAN /\ w \in BOOLEAN
  OBVIOUS
<1> HIDE DEF z, c, t, w, n
<1>6. n.zero = z /\ n.carry = c /\ n.intr = t /\ n.swap = w
  BY <1>4 DEF IsMachine
<1>7. Flags(n) = (IF w THEN 8 ELSE 0) + (IF t THEN 4 ELSE 0) + (IF c THEN 2 ELSE 0)
                 + (IF z THEN 1 ELSE 0)
  BY <1>1, <1>6 DEF Flags, Bit
<1>8. (IF w THEN 8 ELSE 0) + (IF t THEN 4 ELSE 0) + (IF c THEN 2 ELSE 0)
      + (IF z THEN 1 ELSE 0) = f
  BY <1>3
<1>9. n.swap <=> 3 \in BitsOf(f, SIZE8)
  BY <1>6 DEF w
<1>10. Flags(n) = f
  BY <1>7, <1>8
<1> QED
  BY <1>9, <1>10 DEF n

(* The address and the flags that vm_raise pushes.                         *)
LEMMA SavedBytes ==
  ASSUME NEW m, IsMachine(m), Saved(m).stack + 5 <= RamSize
  PROVE  LET p == Saved(m)
             t == p.stack
         IN  /\ t \in Word /\ m.stack = t + 5
             /\ ByteAt(p, t) = Flags(m)
             /\ \A i \in 0 .. 3 : ByteAt(p, t + 1 + i) = ByteOf(m.instr, i)
             /\ \A y \in 0 .. RamSize - 1 : t + 5 <= y => ByteAt(p, y) = ByteAt(m, y)
<1> DEFINE k == Push(m, m.instr, SIZE32)
           f == Flags(m)
           p == Push(k, f, SIZE8)
           t == p.stack
<1>1. /\ SIZE32 = 4 /\ SIZE8 = 1 /\ SIZE32 \in Size /\ SIZE8 \in Size
      /\ RamSize \in Nat /\ RamSize >= 64 /\ RamSize < WordMod /\ WordMod \in Nat
  BY RamIsLarge, Sizes
<1>2. m.instr \in Word /\ m.instr \in Nat /\ m.stack \in Word /\ f \in 0 .. 15 /\ f \in Nat
  BY Fields, WordIsNat, FlagValues
<1>3. Saved(m) = p
  BY DEF Saved
<1> HIDE DEF f
<1>4. IsMachine(k) /\ k.stack = (m.stack - 4) % WordMod
  BY <1>1, <1>2, Pushes
<1>5. \A y \in 0 .. RamSize - 1 :
        m.stack <= y /\ y + 4 < m.stack + RamSize => ByteAt(k, y) = ByteAt(m, y)
  BY <1>1, <1>2, PushedBytes
<1>6. k.stack + 4 <= RamSize => \A i \in 0 .. 3 : ByteAt(k, k.stack + i) = ByteOf(m.instr, i)
  BY <1>1, <1>2, PushedBytes
<1> HIDE DEF k
<1>7. IsMachine(p) /\ t = (k.stack - 1) % WordMod
  BY <1>1, <1>2, <1>4, Pushes
<1>8. \A y \in 0 .. RamSize - 1 :
        k.stack <= y /\ y + 1 < k.stack + RamSize => ByteAt(p, y) = ByteAt(k, y)
  BY <1>1, <1>2, <1>4, PushedBytes
<1>9. t + 1 <= RamSize => \A i \in 0 .. 0 : ByteAt(p, t + i) = ByteOf(f, i)
  BY <1>1, <1>2, <1>4, PushedBytes
<1>10. t + 5 <= RamSize
  BY <1>3
<1> HIDE DEF p
<1>11. t \in Word /\ t \in Nat /\ k.stack \in Word
  BY <1>4, <1>7, Fields, WordIsNat
<1> HIDE DEF t
<1>12. k.stack = t + 1 /\ m.stack = t + 5
  <2>1. t + 1 < WordMod => k.stack = t + 1
    <3>1. 1 \in 0 .. 16 /\ t = (k.stack - 1) % WordMod
      BY <1>7
    <3> QED
      BY <1>11, <3>1, StackDown
  <2>2. k.stack = t + 1
    BY <1>1, <1>10, <1>11, <2>1
  <2>3. k.stack + 4 < WordMod => m.stack = k.stack + 4
    BY <1>2, <1>4, StackDown
  <2> QED
    BY <1>1, <1>10, <1>11, <2>2, <2>3
<1>13. ByteAt(p, t) = f
  <2>1. ByteAt(p, t + 0) = ByteOf(f, 0)
    BY <1>1, <1>9, <1>10, <1>11
  <2>2. ByteOf(f, 0) = f
    <3>1. Modulus(0) = 1 /\ Modulus(SIZE8) \in Nat /\ Modulus(SIZE8) >= 16
      BY Moduli, Sizes
    <3> QED
      BY <1>2, <3>1 DEF ByteOf
  <2>3. t + 0 = t
    BY <1>11
  <2> QED
    BY <2>1, <2>2, <2>3
<1>14. \A i \in 0 .. 3 : ByteAt(p, t + 1 + i) = ByteOf(m.instr, i)
  <2> TAKE i \in 0 .. 3
  <2>1. ByteAt(k, t + 1 + i) = ByteOf(m.instr, i)
    BY <1>1, <1>6, <1>10, <1>11, <1>12
  <2>2. t + 1 + i \in 0 .. RamSize - 1 /\ k.stack <= t + 1 + i /\ t + 1 + i + 1 < k.stack + RamSize
    BY <1>1, <1>10, <1>11, <1>12
  <2> QED
    BY <1>8, <2>1, <2>2
<1>15. \A y \in 0 .. RamSize - 1 : t + 5 <= y => ByteAt(p, y) = ByteAt(m, y)
  <2> SUFFICES ASSUME NEW y \in 0 .. RamSize - 1, t + 5 <= y
               PROVE  ByteAt(p, y) = ByteAt(m, y)
    OBVIOUS
  <2>1. /\ m.stack <= y /\ y + 4 < m.stack + RamSize
        /\ k.stack <= y /\ y + 1 < k.stack + RamSize
    BY <1>1, <1>11, <1>12
  <2> QED
    BY <1>5, <1>8, <2>1
<1> QED
  BY <1>3, <1>11, <1>12, <1>13, <1>14, <1>15 DEF t, f

LEMMA SavedMoves ==
  ASSUME NEW m, IsMachine(m)
  PROVE  /\ Saved(m).stack \in Word
         /\ (Saved(m).stack + 5) % WordMod = m.stack
<1> DEFINE k == Push(m, m.instr, SIZE32)
           p == Push(k, Flags(m), SIZE8)
<1>1. SIZE32 = 4 /\ SIZE8 = 1 /\ SIZE32 \in Size /\ SIZE8 \in Size
  BY Sizes
<1>2. m.instr \in Nat /\ m.stack \in Word /\ Flags(m) \in Nat
  BY Fields, WordIsNat, FlagsAreNat
<1>3. IsMachine(k) /\ k.stack = (m.stack - 4) % WordMod
  BY <1>1, <1>2, Pushes
<1> HIDE DEF k
<1>4. IsMachine(p) /\ p.stack = (k.stack - 1) % WordMod
  BY <1>1, <1>2, <1>3, Pushes
<1>5. Saved(m) = p
  BY DEF Saved, k
<1> HIDE DEF p
<1>6. p.stack \in Word /\ p.stack \in Int /\ k.stack \in Word
  BY <1>3, <1>4, Fields, WordIsNat
<1>7. (p.stack + 1) % WordMod = k.stack /\ (k.stack + 4) % WordMod = m.stack
  <2>1. 1 \in 0 .. 16 /\ 4 \in 0 .. 16
    OBVIOUS
  <2>2. (p.stack + 1) % WordMod = k.stack
    BY <1>4, <1>6, <2>1, StackDown
  <2>3. (k.stack + 4) % WordMod = m.stack
    BY <1>2, <1>3, <2>1, StackDown
  <2> QED
    BY <2>2, <2>3
<1>8. (((p.stack + 1) % WordMod) + 4) % WordMod = ((p.stack + 1) + 4) % WordMod
  <2>1. p.stack + 1 \in Int /\ 4 \in Int
    BY <1>6
  <2> QED
    BY <2>1, WrapsOnce
<1>9. (p.stack + 1) + 4 = p.stack + 5
  BY <1>6
<1> QED
  BY <1>5, <1>6, <1>7, <1>8, <1>9

(* The stack after the old stack pointer, the address and the flags.       *)
LEMMA StackHolds ==
  ASSUME NEW m, IsMachine(m),
         NEW c, c = [instr |-> m.instr, flags |-> Flags(m), stack |-> m.stack,
                     top |-> OnExceptionStack(m).stack]
  PROVE  Holds(OnExceptionStack(m), c)
<1> DEFINE o == OnExceptionStack(m)
           t == o.stack
<1>1. IsMachine(o)
  BY OnExceptionStackType
<1>2. /\ c.instr = m.instr /\ c.flags = Flags(m) /\ c.stack = m.stack /\ c.top = t
      /\ m.instr \in Word /\ m.stack \in Word /\ t \in Word /\ t \in Nat /\ Flags(m) \in 0 .. 15
      /\ (3 \in BitsOf(Flags(m), SIZE8) <=> m.swap)
  BY <1>1, Fields, FlagValues, WordIsNat
<1>3. RamSize \in Nat /\ RamSize >= 64 /\ RamSize < WordMod /\ WordMod \in Nat
  BY RamIsLarge
<1>4. SavedSize(c) = IF m.swap THEN 9 ELSE 5
  BY <1>2 DEF SavedSize, SIZE32, SIZE8
<1>5. CASE ~ m.swap
  <2>1. o = Saved(m)
    BY <1>5 DEF OnExceptionStack
  <2>2. (t + 5) % WordMod = m.stack
    BY <2>1, SavedMoves
  <2>3. t + 5 <= RamSize =>
          /\ ByteAt(o, t) = Flags(m)
          /\ \A i \in 0 .. 3 : ByteAt(o, t + 1 + i) = ByteOf(m.instr, i)
    BY <2>1, SavedBytes
  <2> HIDE DEF o, t
  <2>4. Holds(o, c)
    BY <1>2, <1>4, <1>5, <2>2, <2>3 DEF Holds
  <2> QED
    BY <2>4 DEF o
<1>6. CASE m.swap
  <2> DEFINE e == [m EXCEPT !.stack = m.exstack]
             p == Push(e, m.stack, SIZE32)
             s == Saved(p)
  <2>1. o = [s EXCEPT !.swap = FALSE]
    BY <1>6 DEF OnExceptionStack
  <2>2. m.exstack \in Word /\ m.stack \in Nat /\ SIZE32 \in Size /\ SIZE32 = 4
    BY Fields, WordIsNat, Sizes
  <2>3. IsMachine(e) /\ Control(e) = Control(m) /\ FlagsOf(e) = FlagsOf(m)
    BY <2>2, NewStack
  <2> HIDE DEF e, o
  <2>4. IsMachine(p) /\ Control(p) = Control(e) /\ FlagsOf(p) = FlagsOf(e)
    BY <2>2, <2>3, Pushes
  <2>5. p.stack + 4 <= RamSize =>
          \A i \in 0 .. 3 : ByteAt(p, p.stack + i) = ByteOf(m.stack, i)
    BY <2>2, <2>3, PushedBytes
  <2> HIDE DEF p
  <2>6. IsMachine(s)
    BY <2>4, SavedType
  <2>7. s.stack + 5 <= RamSize =>
          /\ p.stack = s.stack + 5
          /\ ByteAt(s, s.stack) = Flags(p)
          /\ \A i \in 0 .. 3 : ByteAt(s, s.stack + 1 + i) = ByteOf(p.instr, i)
          /\ \A y \in 0 .. RamSize - 1 : s.stack + 5 <= y => ByteAt(s, y) = ByteAt(p, y)
    BY <2>4, SavedBytes
  <2> HIDE DEF s
  <2>8. o.stack = s.stack /\ o.mem = s.mem
    BY <2>1, <2>6 DEF IsMachine
  <2>9. \A y : ByteAt(o, y) = ByteAt(s, y)
    BY <2>8, SameBytes
  <2>10. p.instr = m.instr /\ Flags(p) = Flags(m)
    BY <2>3, <2>4 DEF Control, FlagsOf, Flags
  <2>11. t = s.stack
    BY <2>8
  <2> HIDE DEF t
  <2>12. ASSUME t + 9 <= RamSize
         PROVE  /\ ByteAt(o, t) = Flags(m)
                /\ \A i \in 0 .. 3 : ByteAt(o, t + 1 + i) = ByteOf(m.instr, i)
                /\ \A i \in 0 .. 3 : ByteAt(o, t + 5 + i) = ByteOf(m.stack, i)
    <3>1. t + 5 <= RamSize /\ p.stack = t + 5 /\ p.stack + 4 <= RamSize
      BY <1>2, <1>3, <2>7, <2>11, <2>12
    <3>2. \A i \in 0 .. 3 : ByteAt(o, t + 5 + i) = ByteOf(m.stack, i)
      <4> TAKE i \in 0 .. 3
      <4>1. t + 5 + i \in 0 .. RamSize - 1 /\ t + 5 <= t + 5 + i
        BY <1>2, <1>3, <2>12
      <4>2. ByteAt(p, t + 5 + i) = ByteOf(m.stack, i)
        BY <2>5, <3>1
      <4> QED
        BY <2>7, <2>9, <2>11, <3>1, <4>1, <4>2
    <3> QED
      BY <2>7, <2>9, <2>10, <2>11, <3>1, <3>2
  <2>13. Holds(o, c)
    BY <1>2, <1>4, <1>6, <2>12 DEF Holds
  <2> QED
    BY <2>13 DEF o
<1> QED
  BY <1>5, <1>6

(* What is saved is still in place if its bytes are.                       *)
LEMMA HoldsAgain ==
  ASSUME NEW m, NEW n, NEW c, Holds(m, c),
         c.top + SavedSize(c) <= RamSize =>
           \A j \in 0 .. SavedSize(c) - 1 : ByteAt(n, c.top + j) = ByteAt(m, c.top + j)
  PROVE  Holds(n, c)
<1> SUFFICES ASSUME c.top + SavedSize(c) <= RamSize
             PROVE  /\ ByteAt(n, c.top) = c.flags
                    /\ \A i \in 0 .. 3 : ByteAt(n, c.top + 1 + i) = ByteOf(c.instr, i)
                    /\ IF 3 \in BitsOf(c.flags, SIZE8)
                       THEN \A i \in 0 .. 3 : ByteAt(n, c.top + 5 + i) = ByteOf(c.stack, i)
                       ELSE c.stack = (c.top + 5) % WordMod
  BY DEF Holds
<1>1. /\ ByteAt(m, c.top) = c.flags
      /\ \A i \in 0 .. 3 : ByteAt(m, c.top + 1 + i) = ByteOf(c.instr, i)
      /\ IF 3 \in BitsOf(c.flags, SIZE8)
         THEN \A i \in 0 .. 3 : ByteAt(m, c.top + 5 + i) = ByteOf(c.stack, i)
         ELSE c.stack = (c.top + 5) % WordMod
  BY DEF Holds
<1>2. c.top \in Nat
  BY WordIsNat DEF Holds
<1>3. SavedSize(c) \in {5, 9} /\ (3 \in BitsOf(c.flags, SIZE8) => SavedSize(c) = 9)
  BY DEF SavedSize, SIZE32, SIZE8
<1>4. ByteAt(n, c.top) = ByteAt(m, c.top)
  <2>1. 0 \in 0 .. SavedSize(c) - 1
    BY <1>3
  <2>2. ByteAt(n, c.top + 0) = ByteAt(m, c.top + 0)
    BY <2>1
  <2>3. c.top + 0 = c.top
    BY <1>2
  <2> QED
    BY <2>2, <2>3
<1>5. \A i \in 0 .. 3 : ByteAt(n, c.top + 1 + i) = ByteAt(m, c.top + 1 + i)
  <2> TAKE i \in 0 .. 3
  <2>1. 1 + i \in 0 .. SavedSize(c) - 1
    BY <1>3
  <2>2. ByteAt(n, c.top + (1 + i)) = ByteAt(m, c.top + (1 + i))
    BY <2>1
  <2>3. c.top + (1 + i) = c.top + 1 + i
    BY <1>2
  <2> QED
    BY <2>2, <2>3
<1>6. ASSUME 3 \in BitsOf(c.flags, SIZE8)
      PROVE  \A i \in 0 .. 3 : ByteAt(n, c.top + 5 + i) = ByteAt(m, c.top + 5 + i)
  <2> TAKE i \in 0 .. 3
  <2>1. 5 + i \in 0 .. SavedSize(c) - 1
    BY <1>3, <1>6
  <2>2. ByteAt(n, c.top + (5 + i)) = ByteAt(m, c.top + (5 + i))
    BY <2>1
  <2>3. c.top + (5 + i) = c.top + 5 + i
    BY <1>2
  <2> QED
    BY <2>2, <2>3
<1> QED
  BY <1>1, <1>4, <1>5, <1>6

(* The value pushed for the handler does not reach what is saved.          *)
LEMMA ToldHolds ==
  ASSUME NEW m, IsMachine(m), NEW vector \in Nat, NEW c, Holds(m, c), c.top = m.stack
  PROVE  /\ Holds(Told(m, vector), c)
         /\ (Told(m, vector).stack + SIZE32) % WordMod = m.stack
<1> DEFINE v == IF vector >= EX THEN m.operand ELSE vector
           p == Push(m, v, SIZE32)
           n == Told(m, vector)
<1>1. SIZE32 \in Size /\ SIZE32 = 4 /\ m.operand \in Nat /\ m.stack \in Word /\ m.stack \in Nat
  BY Fields, WordIsNat, Sizes
<1>2. n = IF vector >= EX THEN [p EXCEPT !.operand = 0] ELSE p
  BY DEF Told
<1>3. v \in Nat
  BY <1>1
<1> HIDE DEF v, n
<1>4. IsMachine(p) /\ p.stack = (m.stack - 4) % WordMod
  BY <1>1, <1>3, Pushes
<1>5. \A y \in 0 .. RamSize - 1 :
        m.stack <= y /\ y + 4 < m.stack + RamSize => ByteAt(p, y) = ByteAt(m, y)
  BY <1>1, <1>3, PushedBytes
<1> HIDE DEF p
<1>6. n.stack = p.stack /\ n.mem = p.mem
  BY <1>2, <1>4 DEF IsMachine
<1>7. \A y : ByteAt(n, y) = ByteAt(p, y)
  BY <1>6, SameBytes
<1>8. (n.stack + 4) % WordMod = m.stack
  <2>1. 4 \in 0 .. 16
    OBVIOUS
  <2> QED
    BY <1>1, <1>4, <1>6, <2>1, StackDown
<1>9. RamSize \in Nat /\ RamSize >= 64
  BY RamIsLarge
<1>10. SavedSize(c) \in {5, 9} /\ (3 \in BitsOf(c.flags, SIZE8) => SavedSize(c) = 9)
  BY DEF SavedSize, SIZE32, SIZE8
<1>11. ASSUME c.top + SavedSize(c) <= RamSize, NEW j \in 0 .. SavedSize(c) - 1
       PROVE  ByteAt(n, c.top + j) = ByteAt(m, c.top + j)
  <2> DEFINE y == c.top + j
  <2>1. y \in 0 .. RamSize - 1 /\ m.stack <= y /\ y + 4 < m.stack + RamSize
    BY <1>1, <1>9, <1>10, <1>11
  <2> HIDE DEF y
  <2>2. ByteAt(n, y) = ByteAt(m, y)
    BY <1>5, <1>7, <2>1
  <2> QED
    BY <2>2 DEF y
<1>12. Holds(n, c)
  BY <1>11, HoldsAgain
<1> QED
  BY <1>1, <1>8, <1>12 DEF n

LEMMA RaiseHolds ==
  ASSUME NEW m, IsMachine(m), m.err = "OK", NEW vector \in 0 .. Modulus(SIZE16) - 1,
         Raise(m, vector).err = "OK",
         NEW c, c = Interrupted(m, Raise(m, vector), m.instr)
  PROVE  Holds(Raise(m, vector), c)
<1> DEFINE f == [m EXCEPT !.jmp = "raise"]
           r == Read(f, SIZE32 * vector, SIZE32)
           s == OnExceptionStack(r)
           t == Told(s, vector)
           e == Enter(t, r.val)
           n == Raise(m, vector)
<1>1. "raise" \in Frames
  BY DEF Frames
<1>2. /\ IsMachine(f) /\ f.err = "OK" /\ f.instr = m.instr
      /\ f.intr = m.intr /\ f.swap = m.swap /\ Data(f) = Data(m) /\ FlagsOf(f) = FlagsOf(m)
  BY <1>1, InAnotherFrame
<1>3. n = e
  <2>1. ~ (~ m.intr /\ vector < EX)
    <3> SUFFICES ASSUME ~ m.intr /\ vector < EX
                 PROVE  FALSE
      OBVIOUS
    <3>1. n = Panic(m, "NOINTERRUPTS") /\ "NOINTERRUPTS" \in Errors
      BY DEF Raise, Errors
    <3>2. n.err = "NOINTERRUPTS"
      <4> HIDE DEF n
      <4> QED
        BY <3>1, NewErr
    <3> QED
      BY <3>2
  <2>2. n = IF r.err = "OK" THEN e ELSE r
    BY <2>1 DEF Raise, Do
  <2>3. r.err = "OK"
    BY <1>2, VectorRead
  <2> QED
    BY <2>2, <2>3
<1> HIDE DEF f, n
<1>4. IsMachine(r) /\ Same(r, f)
  BY <1>2, VectorRead
<1> HIDE DEF r
<1>5. r.instr = m.instr /\ r.stack = m.stack /\ Flags(r) = Flags(m)
  BY <1>2, <1>4 DEF Same, Control, Data, FlagsOf, Flags
<1> DEFINE d == [instr |-> r.instr, flags |-> Flags(r), stack |-> r.stack, top |-> s.stack]
<1>6. Holds(s, d) /\ IsMachine(s)
  BY <1>4, StackHolds, OnExceptionStackType
<1> HIDE DEF s
<1>7. d.top = s.stack
  OBVIOUS
<1> HIDE DEF d
<1>8. Holds(t, d) /\ (t.stack + SIZE32) % WordMod = s.stack /\ IsMachine(t)
  BY <1>6, <1>7, ToldHolds, ToldType
<1> HIDE DEF t
<1>9. e.stack = t.stack /\ e.mem = t.mem
  BY <1>8 DEF Enter, IsMachine
<1> HIDE DEF e
<1>10. \A y : ByteAt(e, y) = ByteAt(t, y)
  BY <1>9, SameBytes
<1>11. Holds(e, d)
  BY <1>8, <1>10 DEF Holds
<1>12. c = d
  BY <1>3, <1>5, <1>8, <1>9 DEF Interrupted, d, n
<1> QED
  BY <1>3, <1>11, <1>12 DEF n

(* Where a handler's reti finds what was saved.                            *)
LEMMA ReturnsTo ==
  ASSUME NEW m, IsMachine(m), m.err = "OK", NEW c, Holds(m, c), c.top = m.stack,
         c.top + SavedSize(c) <= RamSize, ReturnInterrupt(m).err = "OK"
  PROVE  LET z == ReturnInterrupt(m) IN
         z.mut = c.instr /\ Flags(z) = c.flags /\ z.stack = c.stack
<1> DEFINE f == Pop(m, SIZE8)
           g == SetFlags(f, f.val)
           n == Return(g)
           k == Pop(n, SIZE32)
           l == [k EXCEPT !.stack = k.val]
           z == ReturnInterrupt(m)
           t == m.stack
           swap == 3 \in BitsOf(c.flags, SIZE8)
<1>1. z = IF f.err # "OK" THEN f
          ELSE IF n.err # "OK" THEN n
          ELSE IF ~ n.swap THEN n
          ELSE IF k.err # "OK" THEN k ELSE l
  BY DEF ReturnInterrupt, Do
<1>2. /\ SIZE32 = 4 /\ SIZE8 = 1 /\ SIZE32 \in Size /\ SIZE8 \in Size
      /\ RamSize \in Nat /\ RamSize < WordMod /\ WordMod \in Nat
      /\ t \in Word /\ t \in Nat
  BY Fields, RamIsLarge, Sizes, WordIsNat
<1>3. /\ c.instr \in Word /\ c.flags \in 0 .. 15 /\ c.stack \in Word
      /\ ByteAt(m, t) = c.flags
      /\ \A i \in 0 .. 3 : ByteAt(m, t + 1 + i) = ByteOf(c.instr, i)
      /\ swap => \A i \in 0 .. 3 : ByteAt(m, t + 5 + i) = ByteOf(c.stack, i)
      /\ ~ swap => c.stack = (t + 5) % WordMod
      /\ t + 5 <= RamSize
      /\ swap => t + 9 <= RamSize
  <2>1. SavedSize(c) = IF swap THEN 9 ELSE 5
    BY DEF SavedSize, SIZE32, SIZE8
  <2> HIDE DEF swap
  <2>2. t + 5 <= RamSize /\ (swap => t + 9 <= RamSize)
    BY <1>2, <2>1
  <2> QED
    BY <2>2 DEF Holds, swap
<1> HIDE DEF z, swap
<1>4. \A v \in Word : v \in 0 .. Modulus(SIZE32) - 1
  BY DEF Word, WordMod
<1>5. f.err = "OK"
  BY <1>1 DEF z
<1>6. /\ IsMachine(f) /\ f.stack = (t + 1) % WordMod /\ f.val = c.flags
      /\ f.mem = m.mem
  <2>1. c.flags \in 0 .. Modulus(SIZE8) - 1
    BY <1>3, Sizes
  <2>2. \A i \in 0 .. SIZE8 - 1 : ByteAt(m, t + i) = (c.flags \div Modulus(i)) % Modulus(SIZE8)
    <3>1. Modulus(0) = 1 /\ Modulus(SIZE8) \in Nat
      BY Moduli, Sizes
    <3>2. t + 0 = t
      BY <1>2
    <3>3. (c.flags \div 1) % Modulus(SIZE8) = c.flags
      BY <1>3, <2>1, <3>1
    <3> QED
      BY <1>2, <1>3, <3>1, <3>2, <3>3
  <2>3. t + SIZE8 <= RamSize
    BY <1>2, <1>3
  <2>4. Read(m, t, SIZE8).val = c.flags
    BY <1>2, <2>1, <2>2, <2>3, BytesRead
  <2> QED
    BY <1>2, <1>5, <2>4, Pops
<1> HIDE DEF f
<1>7. f.stack = t + 1
  <2>1. t + 1 \in Word
    BY <1>2, <1>3 DEF Word
  <2> QED
    BY <1>6, <2>1, WordIsSmall
<1>8. /\ IsMachine(g) /\ g.err = "OK" /\ g.stack = t + 1 /\ g.mem = m.mem
      /\ Flags(g) = c.flags /\ (g.swap <=> swap)
  BY <1>3, <1>5, <1>6, <1>7, SetFlagsType, FlagsAreSet DEF Data, swap
<1> HIDE DEF g
<1>9. \A y : ByteAt(g, y) = ByteAt(m, y)
  BY <1>8, SameBytes
<1>10. n.err = "OK"
  BY <1>1, <1>5 DEF z
<1>11. /\ IsMachine(n) /\ n.stack = (t + 1 + 4) % WordMod /\ n.mut = c.instr
       /\ Flags(n) = c.flags /\ (n.swap <=> swap) /\ n.mem = m.mem
  <2>1. t + 1 \in Word /\ t + 1 + SIZE32 <= RamSize
    BY <1>2, <1>3 DEF Word
  <2>2. Read(g, t + 1, SIZE32).val = c.instr
    <3>1. \A i \in 0 .. SIZE32 - 1 :
            ByteAt(g, t + 1 + i) = (c.instr \div Modulus(i)) % Modulus(SIZE8)
      BY <1>2, <1>3, <1>9 DEF ByteOf
    <3>2. c.instr \in 0 .. Modulus(SIZE32) - 1
      BY <1>3, <1>4
    <3> QED
      BY <1>2, <1>8, <2>1, <3>1, <3>2, BytesRead
  <2>3. /\ IsMachine(n) /\ Control(n) = Control(g) /\ FlagsOf(n) = FlagsOf(g)
        /\ n.mem = g.mem /\ n.stack = (g.stack + SIZE32) % WordMod
        /\ n.mut = Read(g, g.stack, SIZE32).val
    BY <1>8, <1>10, ReturnGoes
  <2> HIDE DEF n
  <2>4. Flags(n) = Flags(g) /\ n.swap = g.swap
    BY <2>3 DEF Control, FlagsOf, Flags
  <2> QED
    BY <1>2, <1>8, <2>2, <2>3, <2>4
<1> HIDE DEF n
<1>12. CASE ~ swap
  <2>1. z = n
    BY <1>1, <1>5, <1>10, <1>11, <1>12
  <2>2. t + 1 + 4 = t + 5
    BY <1>2
  <2> QED
    BY <1>3, <1>11, <1>12, <2>1, <2>2 DEF z
<1>13. CASE swap
  <2>1. z = IF k.err # "OK" THEN k ELSE l
    BY <1>1, <1>5, <1>10, <1>11, <1>13
  <2>2. k.err = "OK"
    BY <2>1 DEF z
  <2>3. n.stack = t + 5
    <3>1. t + 1 + 4 = t + 5 /\ t + 5 \in Word
      BY <1>2, <1>3, <1>13 DEF Word
    <3> QED
      BY <1>11, <3>1, WordIsSmall
  <2>4. \A y : ByteAt(n, y) = ByteAt(m, y)
    BY <1>11, SameBytes
  <2>5. Read(n, t + 5, SIZE32).val = c.stack
    <3>1. \A i \in 0 .. SIZE32 - 1 :
            ByteAt(n, t + 5 + i) = (c.stack \div Modulus(i)) % Modulus(SIZE8)
      BY <1>2, <1>3, <1>13, <2>4 DEF ByteOf
    <3>2. c.stack \in 0 .. Modulus(SIZE32) - 1
      BY <1>3, <1>4
    <3>3. t + 5 \in Word /\ t + 5 + SIZE32 <= RamSize
      BY <1>2, <1>3, <1>13 DEF Word
    <3> DEFINE a == t + 5
    <3> HIDE DEF a
    <3>4. /\ \A i \in 0 .. SIZE32 - 1 :
               ByteAt(n, a + i) = (c.stack \div Modulus(i)) % Modulus(SIZE8)
          /\ a \in Word /\ a + SIZE32 <= RamSize
      BY <3>1, <3>3 DEF a
    <3>5. IsMachine(n) /\ SIZE32 \in Size
      BY <1>2, <1>11
    <3>6. Read(n, a, SIZE32).val = c.stack
      BY <3>2, <3>4, <3>5, BytesRead
    <3> QED
      BY <3>6 DEF a
  <2>6. /\ IsMachine(k) /\ Control(k) = Control(n) /\ FlagsOf(k) = FlagsOf(n)
        /\ k.mut = n.mut /\ k.val = Read(n, n.stack, SIZE32).val
    BY <1>2, <1>10, <1>11, <2>2, Pops
  <2> HIDE DEF k
  <2>7. k.val = c.stack /\ k.mut = c.instr /\ Flags(k) = c.flags
    BY <1>11, <2>3, <2>5, <2>6 DEF Control, FlagsOf, Flags
  <2>8. k.val \in Word
    BY <2>6, Fields
  <2>9. l.stack = k.val /\ l.mut = k.mut /\ Control(l) = Control(k) /\ FlagsOf(l) = FlagsOf(k)
    BY <2>6, <2>8, NewStack
  <2> HIDE DEF l
  <2>10. Flags(l) = Flags(k)
    BY <2>9 DEF Control, FlagsOf, Flags
  <2>11. z = l
    BY <2>1, <2>2
  <2> QED
    BY <2>7, <2>9, <2>10, <2>11 DEF z
<1> QED
  BY <1>12, <1>13

(* How a pass through vm_execute ends well.                                *)
LEMMA ExecutedOk ==
  ASSUME NEW m, IsMachine(m), m.err = "OK", NEW i \in Instruction, NEW c \in Outcomes(i),
         Execute(m, i, c).err = "OK"
  PROVE  LET b == Begin(m)
             p == Perform(b, i, c)
             z == Execute(m, i, c)
         IN  /\ b.err = "OK" /\ Known(i)
             /\ \/ /\ i.op = "NOP" \/ Skips(b, i.cond)
                   /\ z.jmp = m.jmp
                \/ /\ i.op # "NOP" /\ ~ Skips(b, i.cond)
                   /\ IsMachine(p) /\ p.err = "OK" /\ z = [p EXCEPT !.instr = p.mut]
<1> DEFINE b == Begin(m)
           unknown == Panic([b EXCEPT !.operand = b.val], "BADOPCODE")
           condition == Panic(b, "BADCONDITION")
           skipped == SkipParams(b, i)
           p == Perform(b, i, c)
           n == IF b.err # "OK" THEN b
                ELSE IF ~ Known(i) THEN unknown
                ELSE IF i.op = "NOP" THEN b
                ELSE IF i.cond = 7 THEN condition
                ELSE IF Skips(b, i.cond) THEN skipped
                ELSE p
           z == Execute(m, i, c)
<1>1. IsMachine(b) /\ Same(b, m)
  BY BeginReads
<1>2. z = IF n.err = "OK" THEN [n EXCEPT !.instr = n.mut] ELSE n
  BY DEF Execute, Do
<1> HIDE DEF b, z
<1>3. unknown.err = "BADOPCODE" /\ condition.err = "BADCONDITION"
  <2>1. IsMachine([b EXCEPT !.operand = b.val])
    BY <1>1 DEF IsMachine
  <2> QED
    BY <1>1, <2>1 DEF Panic, IsMachine
<1>4. b.err = "OK" /\ Known(i) /\ i.op # "NOP" /\ i.cond # 7 /\ ~ Skips(b, i.cond) => IsMachine(p)
  BY <1>1, PerformPerforms DEF Performed
<1>5. IsMachine(b) => [b EXCEPT !.instr = b.mut].jmp = b.jmp
  BY DEF IsMachine
<1>6. [skipped EXCEPT !.instr = skipped.mut].jmp = b.jmp
  BY <1>1 DEF SkipParams, IsMachine
<1>7. b.jmp = m.jmp
  BY <1>1 DEF Same, Control
<1> HIDE DEF unknown, condition, skipped, p
<1>8. n.err = "OK"
  <2> HIDE DEF n
  <2> QED
    BY <1>2 DEF z
<1>9. z = [n EXCEPT !.instr = n.mut]
  <2> HIDE DEF n
  <2> QED
    BY <1>2, <1>8
<1>10. b.err = "OK" /\ Known(i) /\ (i.op # "NOP" => i.cond # 7)
  BY <1>3, <1>8
<1>11. CASE i.op = "NOP"
  BY <1>1, <1>5, <1>7, <1>9, <1>10, <1>11 DEF z, b
<1>12. CASE i.op # "NOP" /\ Skips(b, i.cond)
  <2>1. n = skipped
    BY <1>10, <1>12
  <2> HIDE DEF n
  <2> QED
    BY <1>6, <1>7, <1>9, <1>10, <1>12, <2>1 DEF z, b
<1>13. CASE i.op # "NOP" /\ ~ Skips(b, i.cond)
  <2>1. n = p
    BY <1>10, <1>13
  <2> HIDE DEF n
  <2> QED
    BY <1>4, <1>8, <1>9, <1>10, <1>13, <2>1 DEF z, b, p
<1> QED
  BY <1>11, <1>12, <1>13

(* An int that raised has saved where the next instruction begins.         *)
LEMMA ExecutesInterrupt ==
  ASSUME NEW m, IsMachine(m), m.err = "OK", m.jmp # "raise", NEW i \in Instruction, i.op = "INT",
         NEW c \in Outcomes(i), Execute(m, i, c).err = "OK", Execute(m, i, c).jmp = "raise"
  PROVE  LET z == Execute(m, i, c) IN
         Holds(z, Interrupted(m, z, (Begin(m).mut + ParamsSize(i)) % WordMod))
<1> DEFINE b == Begin(m)
           k == Source(b, i.source, i.size, i.offset)
           d == ParamSize(i.source, i.size, i.offset)
           j == [k EXCEPT !.instr = k.mut]
           v == Low(k.val, SIZE16)
           r == Raise(j, v)
           e == [r EXCEPT !.err = "OK", !.mut = r.instr]
           p == Perform(b, i, c)
           z == Execute(m, i, c)
           h == Interrupted(m, z, (b.mut + ParamsSize(i)) % WordMod)
<1>1. i.size \in Size /\ i.source \in Operands /\ i.offset \in {0, 1} /\ SIZE16 \in Size
  BY InstructionType, Offsets
<1>2. p = IF k.err = "OK" THEN e ELSE k
  <2>1. p = Interrupt(b, i)
    BY DEF Perform, Jumps, Loops, Calls, Steps, Moves, Sums, Quotients, Logicals, Compares, Shifts
  <2> HIDE DEF p
  <2> QED
    BY <2>1 DEF Interrupt, Src, Do
<1>3. /\ IsMachine(b) /\ Same(b, m) /\ b.err = "OK"
      /\ IsMachine(p) /\ p.err = "OK" /\ z = [p EXCEPT !.instr = p.mut]
  BY BeginReads, ExecutedOk
<1>4. ParamsSize(i) = d
  BY ParamsSizes DEF OneOperand
<1> HIDE DEF b, p, z
<1>5. Reads(k, b, d, i.size)
  BY <1>1, <1>3, SourceReads
<1> HIDE DEF k, d
<1>6. k.err = "OK" /\ p = e
  BY <1>2, <1>3
<1>7. IsMachine(k) /\ Same(k, b) /\ k.mut = (b.mut + d) % WordMod
  BY <1>5, <1>6 DEF Reads, Goes
<1>8. IsMachine(j) /\ j.err = "OK" /\ j.instr = k.mut /\ j.jmp = k.jmp /\ j.stack = k.stack
      /\ Flags(j) = Flags(k)
  <2>1. k.mut \in Word
    BY <1>7, Fields
  <2> QED
    BY <1>6, <1>7, <2>1 DEF IsMachine, Flags
<1> HIDE DEF j
<1>9. v \in 0 .. Modulus(SIZE16) - 1
  BY <1>1, <1>7, Fields, WordIsNat, LowFits
<1> HIDE DEF v
<1>10. IsMachine(r) /\ (r.err # "OK" => Same(r, j))
  BY <1>8, <1>9, Raises
<1> DEFINE g == Interrupted(j, r, j.instr)
<1>11. r.err = "OK" => Holds(r, g)
  BY <1>8, <1>9, RaiseHolds
<1> HIDE DEF r, g
<1>12. e.jmp = r.jmp /\ e.stack = r.stack /\ e.mem = r.mem
  BY <1>10 DEF IsMachine
<1> HIDE DEF e
<1>13. z.jmp = r.jmp /\ z.stack = r.stack /\ z.mem = r.mem
  BY <1>3, <1>6, <1>12 DEF IsMachine
<1>14. k.jmp = m.jmp /\ k.stack = m.stack /\ Flags(k) = Flags(m)
  BY <1>3, <1>7 DEF Same, Control, Data, FlagsOf, Flags
<1>15. r.err = "OK"
  <2>1. r.jmp = "raise"
    BY <1>13 DEF z
  <2> QED
    BY <1>8, <1>10, <1>14, <2>1 DEF Same, Control
<1>16. h = g
  BY <1>4, <1>7, <1>8, <1>13, <1>14 DEF Interrupted, g
<1> HIDE DEF h
<1>17. \A y : ByteAt(z, y) = ByteAt(r, y)
  BY <1>13, SameBytes
<1>18. Holds(z, h)
  BY <1>11, <1>15, <1>16, <1>17 DEF Holds
<1> QED
  BY <1>18 DEF h, z, b

(* All that is open is saved.                                              *)
AllHeld == \A c \in open : Holds(vm, c)

LEMMA KeptHolds ==
  ASSUME AllHeld, NEW n, NEW v, v.mem = n.mem, NEW c \in StillSaved(n)
  PROVE  Holds(v, c)
<1>1. Holds(vm, c) /\ c \in open
  BY DEF AllHeld, StillSaved
<1>2. \A j \in 0 .. SavedSize(c) - 1 :
        ByteAt(n, (c.top + j) % RamSize) = ByteAt(vm, (c.top + j) % RamSize)
  BY DEF StillSaved
<1>3. ASSUME c.top + SavedSize(c) <= RamSize, NEW j \in 0 .. SavedSize(c) - 1
      PROVE  ByteAt(v, c.top + j) = ByteAt(vm, c.top + j)
  <2>1. c.top \in Nat /\ RamSize \in Nat /\ RamSize >= 64 /\ SavedSize(c) \in {5, 9}
    <3>1. c.top \in Nat
      BY <1>1, WordIsNat DEF Holds
    <3>2. SavedSize(c) \in {5, 9}
      BY DEF SavedSize, SIZE32, SIZE8
    <3> QED
      BY <3>1, <3>2, RamIsLarge
  <2>2. c.top + j \in 0 .. RamSize - 1
    BY <1>3, <2>1
  <2>3. (c.top + j) % RamSize = c.top + j
    BY <2>1, <2>2
  <2>4. ByteAt(n, c.top + j) = ByteAt(vm, c.top + j)
    BY <1>2, <2>3
  <2>5. ByteAt(v, c.top + j) = ByteAt(n, c.top + j)
    BY SameBytes
  <2> QED
    BY <2>4, <2>5
<1> QED
  BY <1>1, <1>3, HoldsAgain

(* What is open after an instruction.                                     *)
LEMMA OpenCases ==
  ASSUME NEW i, NEW n, NEW d \in OpenAfter(i, n)
  PROVE  \/ d \in StillSaved(n)
         \/ n.err = "OK" /\ i.op = "INT" /\ n.jmp = "raise" /\ d = Interrupted(vm, n, After(i))
<1> DEFINE h == Interrupted(vm, n, After(i))
           kept == StillSaved(n)
<1>1. OpenAfter(i, n) = IF n.err # "OK" THEN kept
                ELSE IF i.op = "RETI" THEN {c \in kept : c.top # vm.stack}
                ELSE IF i.op = "INT" /\ n.jmp = "raise" THEN kept \cup {h}
                ELSE kept
  BY DEF OpenAfter
<1> HIDE DEF kept, h
<1>2. CASE n.err # "OK"
  BY <1>1, <1>2 DEF kept
<1>3. CASE n.err = "OK" /\ i.op = "RETI"
  <2>1. d \in {c \in kept : c.top # vm.stack}
    BY <1>1, <1>3
  <2> QED
    BY <2>1 DEF kept
<1>4. CASE n.err = "OK" /\ i.op # "RETI" /\ i.op = "INT" /\ n.jmp = "raise"
  <2>1. d \in kept \cup {h}
    BY <1>1, <1>4
  <2> QED
    BY <1>4, <2>1 DEF kept, h
<1>5. CASE n.err = "OK" /\ i.op # "RETI" /\ ~ (i.op = "INT" /\ n.jmp = "raise")
  BY <1>1, <1>5 DEF kept
<1> QED
  BY <1>2, <1>3, <1>4, <1>5

LEMMA ExecuteHolds ==
  ASSUME AllHeld, IsMachine(vm), vm.err = "OK", program \in Seq(SUBSET Instruction),
         NEW m, IsMachine(m), m.err = "OK", m.jmp # "raise",
         m.stack = vm.stack, Flags(m) = Flags(vm), Begin(m).mut = Begin(vm).mut,
         NEW frame, NEW after, ExecuteIn(m, frame, after)
  PROVE  AllHeld'
<1> DEFINE x(i, c) == Execute(m, i, c)
<1>1. PICK i \in Head(program) : \E c \in Outcomes(i) :
         /\ vm' = Settled(IF x(i, c).err = "OK" THEN x(i, c)
                          ELSE [x(i, c) EXCEPT !.halted = TRUE])
         /\ open' = OpenAfter(i, x(i, c))
  BY DEF ExecuteIn
<1>2. PICK c \in Outcomes(i) :
         /\ vm' = Settled(IF x(i, c).err = "OK" THEN x(i, c)
                          ELSE [x(i, c) EXCEPT !.halted = TRUE])
         /\ open' = OpenAfter(i, x(i, c))
  BY <1>1
<1> DEFINE n == Execute(m, i, c)
           v == vm'
           h == Interrupted(m, n, (Begin(m).mut + ParamsSize(i)) % WordMod)
<1>3. i \in Instruction
  <2>1. program # <<>>
    BY DEF ExecuteIn
  <2> QED
    BY <1>1, <2>1, ProgramGoesOn
<1>4. Ended(n, Begin(m), i)
  BY <1>3, Executes
<1>5. v = Settled(IF n.err = "OK" THEN n ELSE [n EXCEPT !.halted = TRUE]) /\ open' = OpenAfter(i, n)
  BY <1>2
<1>6. n.err = "OK" /\ i.op = "INT" /\ n.jmp = "raise" => Holds(n, h)
  BY <1>3, ExecutesInterrupt
<1>7. h = Interrupted(vm, n, After(i))
  <2>1. IsMachine(Begin(vm))
    BY BeginReads
  <2>2. After(i) = (Begin(vm).mut + ParamsSize(i)) % WordMod
    BY <2>1 DEF After, SkipParams, IsMachine
  <2> HIDE DEF n
  <2> QED
    BY <2>2 DEF Interrupted
<1> HIDE DEF n, h
<1>8. v.mem = n.mem
  <2>1. Data(v) = Data(n)
    BY <1>4, <1>5, ExecuteLeaves
  <2> QED
    BY <2>1 DEF Data
<1>9. \A d \in StillSaved(n) : Holds(v, d)
  BY <1>8, KeptHolds
<1>10. \A d \in open' :
         \/ d \in StillSaved(n)
         \/ n.err = "OK" /\ i.op = "INT" /\ n.jmp = "raise" /\ d = h
  BY <1>5, <1>7, OpenCases
<1>11. \A y : ByteAt(v, y) = ByteAt(n, y)
  BY <1>8, SameBytes
<1>12. Holds(n, h) => Holds(v, h)
  BY <1>11 DEF Holds
<1>13. \A d \in open' : Holds(v, d)
  BY <1>6, <1>9, <1>10, <1>12
<1> QED
  BY <1>13 DEF AllHeld, v

LEMMA RaisedHolds ==
  ASSUME AllHeld, IsMachine(vm), AtRest(vm), NEW vector \in 0 .. Modulus(SIZE16) - 1,
         Raised(vector)
  PROVE  AllHeld'
<1> DEFINE n == Raise(vm, vector)
           v == vm'
           h == Interrupted(vm, n, vm.instr)
<1>1. IsMachine(n)
  BY Raises DEF AtRest
<1>2. n.err = "OK" => Holds(n, h)
  BY RaiseHolds DEF AtRest
<1>3. /\ v = Settled(n)
      /\ open' = StillSaved(n) \cup IF n.err # "OK" THEN {} ELSE {h}
  BY DEF Raised
<1> HIDE DEF n, h
<1>4. v.mem = n.mem
  <2>1. Data(v) = Data(n)
    BY <1>1, <1>3, SettledType
  <2> QED
    BY <2>1 DEF Data
<1>5. \A y : ByteAt(v, y) = ByteAt(n, y)
  BY <1>4, SameBytes
<1>6. Holds(n, h) => Holds(v, h)
  BY <1>5 DEF Holds
<1>7. \A d \in StillSaved(n) : Holds(v, d)
  BY <1>4, KeptHolds
<1>8. \A d \in open' : Holds(v, d)
  BY <1>2, <1>3, <1>6, <1>7
<1> QED
  BY <1>8 DEF AllHeld, v

LEMMA SafeCallHolds ==
  ASSUME AllHeld, NEW n, IsMachine(n), SafeCall(n)
  PROVE  AllHeld'
<1> DEFINE v == vm'
<1>1. v = Settled(n) /\ open' = StillSaved(n)
  BY DEF SafeCall
<1>2. v.mem = n.mem
  <2>1. Data(v) = Data(n)
    BY <1>1, SettledType
  <2> QED
    BY <2>1 DEF Data
<1>3. \A d \in open' : Holds(v, d)
  BY <1>1, <1>2, KeptHolds
<1> QED
  BY <1>3 DEF AllHeld, v

LEMMA Held == Spec => []AllHeld
<1>1. Init => AllHeld
  BY DEF Init, AllHeld
<1>2. Inv /\ AllHeld /\ [Next]_vars => AllHeld'
  <2> SUFFICES ASSUME Inv, AllHeld, [Next]_vars
               PROVE  AllHeld'
    OBVIOUS
  <2>1. /\ IsMachine(vm) /\ AtRest(vm) /\ vm.err = "OK"
        /\ mode = "resume" => vm.halted \/ vm.jmp = "resume"
        /\ program \in Seq(SUBSET Instruction)
    BY DEF Inv, CpuTypeOK, AtRest
  <2>2. ASSUME open' = open, vm'.mem = vm.mem
        PROVE  AllHeld'
    <3> DEFINE v == vm'
    <3>1. \A y : ByteAt(v, y) = ByteAt(vm, y)
      BY <2>2, SameBytes
    <3>2. \A d \in open' : Holds(v, d)
      BY <2>2, <3>1 DEF AllHeld, Holds
    <3> QED
      BY <3>2 DEF AllHeld, v
  <2>3. CASE UNCHANGED vars
    BY <2>2, <2>3 DEF vars
  <2>4. CASE Resume
    <3> DEFINE n == [vm EXCEPT !.halted = FALSE, !.jmp = "resume"]
               v == vm'
    <3>1. n.mem = vm.mem
      BY <2>1 DEF IsMachine
    <3>2. v = n /\ open' = open
      BY <2>4 DEF Resume
    <3> HIDE DEF n
    <3>3. v.mem = vm.mem
      BY <3>1, <3>2
    <3> QED
      BY <2>2, <3>2, <3>3
  <2>5. CASE ExecuteNext
    <3>1. mode = "resume" /\ ~ vm.halted /\ ExecuteIn(vm, "resume", "resume")
      BY <2>5 DEF ExecuteNext
    <3> QED
      BY <2>1, <3>1, ExecuteHolds
  <2>6. CASE ResumeReturns
    BY <2>2, <2>6 DEF ResumeReturns
  <2>7. CASE Step
    <3> DEFINE m == [vm EXCEPT !.jmp = "step"]
    <3>1. ExecuteIn(m, "step", "host")
      BY <2>7 DEF Step
    <3>2. "step" \in Frames
      BY DEF Frames
    <3>3. /\ IsMachine(m) /\ m.err = "OK" /\ m.jmp = "step" /\ m.intr = vm.intr /\ m.swap = vm.swap
          /\ Data(m) = Data(vm) /\ FlagsOf(m) = FlagsOf(vm)
      BY <2>1, <3>2, InAnotherFrame
    <3>4. Begin(m).mut = Begin(vm).mut
      BY <2>1, <3>2, BeginInFrame
    <3> HIDE DEF m
    <3>5. m.stack = vm.stack /\ Flags(m) = Flags(vm)
      BY <3>3 DEF Data, FlagsOf, Flags
    <3> QED
      BY <2>1, <3>1, <3>3, <3>4, <3>5, ExecuteHolds
  <2>8. CASE HostRaise
    <3>1. PICK vector \in {0, EX - 1} : Raised(vector)
      BY <2>8 DEF HostRaise
    <3>2. vector \in 0 .. Modulus(SIZE16) - 1
      BY Vectors
    <3> QED
      BY <2>1, <3>1, <3>2, RaisedHolds
  <2>9. CASE Recover
    <3>1. CASE status \in Recoverable
      <4>1. Raised(Vector(status)) /\ Vector(status) \in 0 .. Modulus(SIZE16) - 1
        BY <2>9, <3>1, Vectors DEF Recover
      <4> QED
        BY <2>1, <4>1, RaisedHolds
    <3>2. CASE status \notin Recoverable
      BY <2>2, <2>9, <3>2 DEF Recover
    <3> QED
      BY <3>1, <3>2
  <2>10. CASE HostPush
    <3> DEFINE m == [vm EXCEPT !.jmp = "push"]
               n == Push(m, vm.instr, SIZE32)
    <3>1. IsMachine(m)
      BY <2>1, InAnotherFrame DEF Frames
    <3> HIDE DEF m
    <3>2. IsMachine(n)
      BY <2>1, <3>1, Pushes, Offsets, Fields, WordIsNat
    <3>3. SafeCall(n)
      BY <2>10 DEF HostPush, m
    <3> HIDE DEF n
    <3> QED
      BY <3>2, <3>3, SafeCallHolds
  <2>11. CASE HostPop
    <3> DEFINE m == [vm EXCEPT !.jmp = "pop"]
               n == Pop(m, SIZE32)
    <3>1. IsMachine(m) /\ m.err = "OK"
      BY <2>1, InAnotherFrame DEF Frames
    <3> HIDE DEF m
    <3>2. IsMachine(n)
      BY <3>1, Pops, Offsets
    <3>3. SafeCall(n)
      BY <2>11 DEF HostPop, m
    <3> HIDE DEF n
    <3> QED
      BY <3>2, <3>3, SafeCallHolds
  <2> QED
    BY <2>3, <2>4, <2>5, <2>6, <2>7, <2>8, <2>9, <2>10, <2>11 DEF Next
<1> QED
  BY <1>1, <1>2, Types, PTL DEF Spec

-----------------------------------------------------------------------------
LEMMA StepReturns ==
  ASSUME Inv, AllHeld, Next, Executed, status' = "OK", last'.op = "RETI",
         ~ Skips(vm, last'.cond), NEW d \in open, d.top = vm.stack,
         d.top + SavedSize(d) <= RamSize
  PROVE  vm'.instr = d.instr /\ Flags(vm') = d.flags /\ vm'.stack = d.stack
<1>1. /\ IsMachine(vm) /\ vm.err = "OK" /\ program \in Seq(SUBSET Instruction)
      /\ Holds(vm, d)
  BY DEF Inv, CpuTypeOK, AtRest, AllHeld
<1>2. ASSUME NEW m, IsMachine(m), m.err = "OK", NEW frame, NEW after,
             ExecuteIn(m, frame, after), Data(m) = Data(vm), FlagsOf(m) = FlagsOf(vm)
      PROVE  vm'.instr = d.instr /\ Flags(vm') = d.flags /\ vm'.stack = d.stack
  <2> DEFINE x(i, c) == Execute(m, i, c)
  <2>1. PICK i \in Head(program) : \E c \in Outcomes(i) :
           /\ vm' = Settled(IF x(i, c).err = "OK" THEN x(i, c)
                            ELSE [x(i, c) EXCEPT !.halted = TRUE])
           /\ status' = x(i, c).err
           /\ last' = i
    BY <1>2 DEF ExecuteIn
  <2>2. PICK c \in Outcomes(i) :
           /\ vm' = Settled(IF x(i, c).err = "OK" THEN x(i, c)
                            ELSE [x(i, c) EXCEPT !.halted = TRUE])
           /\ status' = x(i, c).err
    BY <2>1
  <2> DEFINE n == Execute(m, i, c)
             v == vm'
             b == Begin(m)
             p == Perform(b, i, c)
  <2>3. n.err = "OK" /\ v = Settled(n)
    BY <2>2
  <2>4. i \in Instruction
    <3>1. program # <<>>
      BY <1>2 DEF ExecuteIn
    <3> QED
      BY <1>1, <2>1, <3>1, ProgramGoesOn
  <2>5. i.op = "RETI" /\ i.op # "NOP" /\ ~ Skips(vm, i.cond)
    BY <2>1
  <2>6. IsMachine(b) /\ Same(b, m) /\ b.err = "OK"
    BY <1>2, <2>2, <2>3, <2>4, BeginReads, ExecutedOk
  <2>7. ~ Skips(b, i.cond)
    <3> HIDE DEF b
    <3> QED
      BY <1>2, <2>5, <2>6 DEF Skips, Same, FlagsOf
  <2>8. IsMachine(p) /\ p.err = "OK" /\ n = [p EXCEPT !.instr = p.mut]
    BY <1>2, <2>2, <2>3, <2>4, <2>5, <2>7, ExecutedOk
  <2>9. p = ReturnInterrupt(b)
    BY <2>5 DEF Perform, Jumps, Loops, Calls, Steps, Moves, Sums, Quotients, Logicals, Compares,
                Shifts
  <2> HIDE DEF n, b, p
  <2>10. b.mem = vm.mem /\ b.stack = vm.stack
    BY <1>2, <2>6 DEF Same, Data
  <2>11. Holds(b, d)
    <3>1. \A y : ByteAt(b, y) = ByteAt(vm, y)
      BY <2>10, SameBytes
    <3> QED
      BY <1>1, <3>1 DEF Holds
  <2>12. p.mut = d.instr /\ Flags(p) = d.flags /\ p.stack = d.stack
    BY <2>6, <2>8, <2>9, <2>10, <2>11, ReturnsTo
  <2>13. IsMachine(n) /\ n.instr = p.mut /\ n.stack = p.stack /\ Flags(n) = Flags(p)
    <3>1. p.mut \in Word
      BY <2>8, Fields
    <3> QED
      BY <2>8, <3>1 DEF IsMachine, Flags
  <2>14. /\ v.instr = n.instr
         /\ Data(v) = Data(n) /\ FlagsOf(v) = FlagsOf(n) /\ Control(v) = Control(n)
    BY <2>3, <2>13, SettledType
  <2> HIDE DEF v
  <2>15. v.stack = n.stack /\ Flags(v) = Flags(n)
    BY <2>14 DEF Data, FlagsOf, Flags, Control
  <2> QED
    BY <2>12, <2>13, <2>14, <2>15 DEF v
<1>3. CASE ExecuteNext
  BY <1>1, <1>2, <1>3 DEF ExecuteNext
<1>4. CASE Step
  <2> DEFINE m == [vm EXCEPT !.jmp = "step"]
  <2>1. ExecuteIn(m, "step", "host")
    BY <1>4 DEF Step
  <2>2. "step" \in Frames
    BY DEF Frames
  <2>3. IsMachine(m) /\ m.err = "OK" /\ Data(m) = Data(vm) /\ FlagsOf(m) = FlagsOf(vm)
    BY <1>1, <2>2, InAnotherFrame
  <2> HIDE DEF m
  <2> QED
    BY <1>2, <2>1, <2>3
<1>5. ~ (Resume \/ ResumeReturns \/ HostRaise \/ Recover \/ HostPush \/ HostPop)
  BY DEF Executed, Resume, ResumeReturns, HostRaise, Recover, HostPush, HostPop, SafeCall
<1> QED
  BY <1>3, <1>4, <1>5 DEF Next

(* However interrupts and exceptions are nested, a reti that finds the     *)
(* stack pointer where vm_raise had put it goes on with the instruction,   *)
(* the flags and the stack pointer that were interrupted.                  *)
THEOREM InterruptsReturn == Spec => ReturnsWhereInterrupted
<1>1. Inv /\ AllHeld /\ [Next]_vars =>
        [Executed /\ status' = "OK" /\ last'.op = "RETI" /\ ~Skips(vm, last'.cond) =>
           \A c \in open :
             c.top = vm.stack /\ c.top + SavedSize(c) <= RamSize =>
               vm'.instr = c.instr /\ Flags(vm') = c.flags /\ vm'.stack = c.stack]_vars
  BY StepReturns
<1> QED
  BY <1>1, Types, Held, PTL DEF Spec, ReturnsWhereInterrupted

-----------------------------------------------------------------------------
(* The laws of Alu, from the bits of a value.                              *)

(* A quotient is divided again.                                            *)
LEMMA TwoDivisions ==
  ASSUME NEW p \in Nat \ {0}, NEW e \in Nat \ {0}, NEW v \in Int
  PROVE  v \div (p * e) = (v \div p) \div e
<1> DEFINE q == v \div p
           r == v % p
           t == q \div e
           c == q % e
<1>1. q \in Int /\ r \in 0 .. p - 1 /\ v = p * q + r
  BY Division, Zenon
<1> HIDE DEF q, r
<1>2. t \in Int /\ c \in 0 .. e - 1 /\ q = e * t + c
  BY <1>1, Division, Zenon
<1> HIDE DEF t, c
<1>3. v = (p * e) * t + (c * p + r)
  <2>1. p * (e * t + c) = (p * e) * t + c * p
    BY <1>2
  <2> QED
    BY <1>1, <1>2, <2>1
<1> DEFINE d == p * e
           z == c * p + r
<1>4. d \in Nat \ {0} /\ z \in 0 .. d - 1
  BY <1>1, <1>2, ByteFits
<1>5. v = d * t + z
  BY <1>3
<1> HIDE DEF d, z
<1>6. v \div d = t
  BY <1>2, <1>4, <1>5, DivisionIsUnique
<1> QED
  BY <1>6 DEF d, q, t

(* The bit of value 2^n, of a number of bits in front of it and w bits.    *)
LEMMA BitBelow ==
  ASSUME NEW w \in 0 .. 4 * ByteBits, NEW n \in 0 .. w - 1, NEW c \in Int, NEW r \in Int
  PROVE  ((2 ^ w * c + r) \div 2 ^ n) % 2 = (r \div 2 ^ n) % 2
<1> DEFINE p == 2 ^ n
           e == 2 ^ (w - n)
           g == 2 ^ (w - n - 1)
<1>1. /\ n \in 0 .. w /\ w - n \in 0 .. 4 * ByteBits /\ n \in 0 .. 4 * ByteBits
      /\ w - n - 1 \in 0 .. 4 * ByteBits - 1 /\ w - n - 1 \in 0 .. 4 * ByteBits
      /\ (w - n - 1) + 1 = w - n
  <2> DEFINE b == 4 * ByteBits
  <2>1. b \in Nat
    BY Powers
  <2> HIDE DEF b
  <2> SUFFICES ASSUME NEW l \in 0 .. b, NEW k \in 0 .. l - 1
               PROVE  /\ k \in 0 .. l /\ l - k \in 0 .. b /\ k \in 0 .. b
                      /\ l - k - 1 \in 0 .. b - 1 /\ l - k - 1 \in 0 .. b
                      /\ (l - k - 1) + 1 = l - k
    BY DEF b
  <2> QED
    BY <2>1
<1>2. 2 ^ w = p * e
  BY <1>1, Powers, Zenon
<1>3. p \in Nat \ {0} /\ e \in Nat \ {0} /\ g \in Nat \ {0}
  BY <1>1, Powers, Zenon
<1>4. e = 2 * g
  <2>1. 2 ^ ((w - n - 1) + 1) = 2 * g
    BY <1>1, Powers, Zenon
  <2> QED
    BY <1>1, <2>1, Zenon
<1> HIDE DEF p, e, g
<1>5. 2 ^ w * c + r = p * (e * c) + r /\ e * c \in Int
  BY <1>2, <1>3
<1>6. (p * (e * c) + r) \div p = e * c + (r \div p)
  BY <1>3, <1>5, Remainders, Zenon
<1>7. e * c = 2 * (g * c) /\ g * c \in Int
  BY <1>3, <1>4
<1> DEFINE k == g * c
           q == r \div p
<1>8. q \in Int
  BY <1>3
<1> HIDE DEF k, q
<1>9. (2 * k + q) % 2 = q % 2
  BY <1>7, <1>8, Remainders DEF k
<1>10. (2 ^ w * c + r) \div p = 2 * k + q
  BY <1>5, <1>6, <1>7 DEF k, q
<1> QED
  BY <1>9, <1>10 DEF q, p

(* The bits of v below w.                                                  *)
Bits(v, w) == {n \in 0 .. w - 1 : (v \div 2 ^ n) % 2 = 1}

LEMMA BitsMore ==
  ASSUME NEW w \in 0 .. 4 * ByteBits - 1, NEW r \in 0 .. 2 ^ w - 1, NEW c \in {0, 1}
  PROVE  Bits(2 ^ w * c + r, w + 1) = Bits(r, w) \cup (IF c = 1 THEN {w} ELSE {})
<1> DEFINE v == 2 ^ w * c + r
           p == 2 ^ w
<1>1. w \in 0 .. 4 * ByteBits /\ (w + 1) - 1 = w /\ c \in Int /\ w \in Nat
  BY Powers
<1>2. p \in Nat \ {0}
  BY <1>1, Powers, Zenon
<1>3. r \in Int /\ r \in 0 .. p - 1
  BY <1>2
<1>4. \A n \in 0 .. w - 1 : (v \div 2 ^ n) % 2 = (r \div 2 ^ n) % 2
  BY <1>1, <1>3, BitBelow
<1>5. (v \div 2 ^ w) % 2 = c
  <2>1. v = p * c + r
    OBVIOUS
  <2> HIDE DEF p, v
  <2>2. v \div p = c
    BY <1>1, <1>2, <1>3, <2>1, DivisionIsUnique
  <2>3. c % 2 = c
    OBVIOUS
  <2> QED
    BY <2>2, <2>3 DEF p
<1>6. 0 .. w = (0 .. w - 1) \cup {w}
  BY <1>1
<1>7. Bits(v, w + 1) = {n \in 0 .. w : (v \div 2 ^ n) % 2 = 1}
  BY <1>1 DEF Bits
<1> DEFINE On(n) == (v \div 2 ^ n) % 2 = 1
           Low2(n) == (r \div 2 ^ n) % 2 = 1
<1>8. \A n \in 0 .. w - 1 : On(n) <=> Low2(n)
  BY <1>4
<1>9. On(w) <=> c = 1
  BY <1>5
<1>10. Bits(v, w + 1) = {n \in 0 .. w : On(n)} /\ Bits(r, w) = {n \in 0 .. w - 1 : Low2(n)}
  BY <1>7, Zenon DEF Bits
<1> HIDE DEF On, Low2, v
<1>11. Bits(v, w + 1) = Bits(r, w) \cup (IF c = 1 THEN {w} ELSE {})
  BY <1>6, <1>8, <1>9, <1>10
<1> QED
  BY <1>11 DEF v

(* Sums of powers.                                                         *)
LEMMA ValueSplits ==
  \A E \in SUBSET (0 .. 4 * ByteBits) :
    /\ ValueOf({}) = 0 /\ ValueOf(E) \in Nat
    /\ \A x \in E : ValueOf(E) = 2 ^ x + ValueOf(E \ {x})
<1> DEFINE B == 4 * ByteBits + 1
<1>1. B \in Nat /\ PowersOf2 \in [0 .. B - 1 -> Nat] /\ B - 1 = 4 * ByteBits
  <2>1. 4 * ByteBits \in Nat /\ PowersOf2 \in [0 .. 4 * ByteBits -> Nat]
    BY Powers
  <2>2. B \in Nat /\ B - 1 = 4 * ByteBits
    BY <2>1
  <2> QED
    BY <2>1, <2>2
<1> HIDE DEF B
<1>2. \A E \in SUBSET (0 .. B - 1) :
        /\ ValueOf({}) = 0 /\ ValueOf(E) \in Nat
        /\ \A x \in E : ValueOf(E) = PowersOf2[x] + ValueOf(E \ {x})
  BY <1>1, SumSplits DEF ValueOf
<1>3. \A x \in 0 .. 4 * ByteBits : PowersOf2[x] = 2 ^ x
  BY Powers
<1> QED
  BY <1>1, <1>2, <1>3

(* A value is made of its bits, and bits are those of their value.         *)
LEMMA BitsAndValues ==
  \A w \in 0 .. 4 * ByteBits :
    /\ \A v \in 0 .. 2 ^ w - 1 : ValueOf(Bits(v, w)) = v
    /\ \A E \in SUBSET (0 .. w - 1) : Bits(ValueOf(E), w) = E
<1> DEFINE Back(w) == \A v \in 0 .. 2 ^ w - 1 : ValueOf(Bits(v, w)) = v
           Forth(w) == \A E \in SUBSET (0 .. w - 1) : Bits(ValueOf(E), w) = E
           S == {w \in Nat : w <= 4 * ByteBits => Back(w) /\ Forth(w)}
<1>1. 4 * ByteBits \in Nat /\ 2 ^ 0 = 1
  BY Powers
<1>2. 0 \in S
  <2>1. 0 .. 0 - 1 = {} /\ 0 .. 1 - 1 = {0}
    OBVIOUS
  <2>2. \A v : Bits(v, 0) = {}
    BY <2>1 DEF Bits
  <2>3. ValueOf({}) = 0
    BY ValueSplits
  <2>4. Back(0)
    BY <1>1, <2>1, <2>2, <2>3
  <2>5. Forth(0)
    BY <2>1, <2>2
  <2> QED
    BY <2>4, <2>5
<1>3. ASSUME NEW w \in Nat, w \in S
      PROVE  w + 1 \in S
  <2> SUFFICES ASSUME w + 1 <= 4 * ByteBits
               PROVE  Back(w + 1) /\ Forth(w + 1)
    OBVIOUS
  <2> DEFINE p == 2 ^ w
  <2>1. /\ w \in 0 .. 4 * ByteBits - 1 /\ w \in 0 .. 4 * ByteBits /\ w <= 4 * ByteBits
        /\ (w + 1) - 1 = w /\ w \in 0 .. w
    BY <1>1
  <2>2. 2 ^ (w + 1) = 2 * p /\ p \in Nat \ {0}
    BY <2>1, Powers
  <2>3. Back(w) /\ Forth(w)
    BY <1>3, <2>1
  <2>4. \A E \in SUBSET (0 .. w) : /\ E \in SUBSET (0 .. 4 * ByteBits)
                                   /\ E \ {w} \in SUBSET (0 .. w - 1)
                                   /\ ValueOf(E \ {w}) \in 0 .. p - 1
    <3> SUFFICES ASSUME NEW E \in SUBSET (0 .. w)
                 PROVE  /\ E \in SUBSET (0 .. 4 * ByteBits)
                        /\ E \ {w} \in SUBSET (0 .. w - 1)
                        /\ ValueOf(E \ {w}) \in 0 .. p - 1
      OBVIOUS
    <3>1. 0 .. w \subseteq 0 .. 4 * ByteBits /\ \A n \in 0 .. w : n # w => n \in 0 .. w - 1
      BY <1>1, <2>1
    <3>2. E \ {w} \in SUBSET (0 .. w - 1)
      BY <3>1
    <3> QED
      BY <2>1, <3>1, <3>2, ValueFits
  <2>5. ASSUME NEW E \in SUBSET (0 .. w)
        PROVE  \E c \in {0, 1} : /\ ValueOf(E) = p * c + ValueOf(E \ {w})
                                 /\ E = (E \ {w}) \cup (IF c = 1 THEN {w} ELSE {})
    <3>1. ValueOf(E \ {w}) \in Nat
      BY <2>2, <2>4
    <3>2. CASE w \in E
      <4>1. ValueOf(E) = p + ValueOf(E \ {w})
        BY <2>4, <3>2, ValueSplits
      <4>2. p * 1 = p
        BY <2>2
      <4>3. ValueOf(E) = p * 1 + ValueOf(E \ {w})
        BY <4>1, <4>2, Zenon
      <4>4. E = (E \ {w}) \cup (IF 1 = 1 THEN {w} ELSE {})
        BY <3>2
      <4> QED
        BY <4>3, <4>4
    <3>3. CASE w \notin E
      <4>1. E \ {w} = E
        BY <3>3
      <4>2. p * 0 = 0
        BY <2>2
      <4>3. ValueOf(E) = p * 0 + ValueOf(E \ {w})
        BY <3>1, <4>1, <4>2
      <4>4. E = (E \ {w}) \cup (IF 0 = 1 THEN {w} ELSE {})
        BY <4>1
      <4> QED
        BY <4>3, <4>4
    <3> QED
      BY <3>2, <3>3
  <2> HIDE DEF p
  <2>6. Forth(w + 1)
    <3> SUFFICES ASSUME NEW E \in SUBSET (0 .. w)
                 PROVE  Bits(ValueOf(E), w + 1) = E
      BY <2>1
    <3>1. PICK c \in {0, 1} : /\ ValueOf(E) = p * c + ValueOf(E \ {w})
                              /\ E = (E \ {w}) \cup (IF c = 1 THEN {w} ELSE {})
      BY <2>5
    <3> DEFINE r == ValueOf(E \ {w})
    <3>2. r \in 0 .. p - 1 /\ Bits(r, w) = E \ {w}
      BY <2>3, <2>4
    <3> HIDE DEF r
    <3>3. Bits(p * c + r, w + 1) = Bits(r, w) \cup (IF c = 1 THEN {w} ELSE {})
      BY <2>1, <3>2, BitsMore DEF p
    <3> QED
      BY <3>1, <3>2, <3>3, Zenon DEF r
  <2>7. Back(w + 1)
    <3> SUFFICES ASSUME NEW v \in 0 .. 2 ^ (w + 1) - 1
                 PROVE  ValueOf(Bits(v, w + 1)) = v
      OBVIOUS
    <3> DEFINE c == v \div p
               r == v % p
    <3>1. v \in Nat /\ v < 2 * p
      BY <2>2
    <3>2. r \in 0 .. p - 1 /\ v = p * c + r /\ c \in Int /\ c >= 0
      <4>1. v \in Int /\ v >= 0
        BY <3>1
      <4> QED
        BY <2>2, <4>1, Division, Zenon
    <3> HIDE DEF c, r
    <3>3. c \in {0, 1}
      <4>1. ASSUME c >= 2
            PROVE  FALSE
        <5>1. PICK k \in Nat : c = 2 + k
          <6>1. c - 2 \in Nat /\ c = 2 + (c - 2)
            BY <3>2, <4>1
          <6> QED
            BY <6>1
        <5>2. p * (2 + k) = 2 * p + p * k /\ p * k \in Nat
          BY <2>2
        <5>3. v = 2 * p + p * k + r
          BY <3>2, <5>1, <5>2
        <5> QED
          BY <2>2, <3>1, <3>2, <5>2, <5>3
      <4> QED
        BY <3>2, <4>1
    <3> DEFINE E == Bits(v, w + 1)
    <3>4. E = Bits(r, w) \cup (IF c = 1 THEN {w} ELSE {})
      <4>1. Bits(p * c + r, w + 1) = Bits(r, w) \cup (IF c = 1 THEN {w} ELSE {})
        BY <2>1, <3>2, <3>3, BitsMore DEF p
      <4> QED
        BY <3>2, <4>1, Zenon
    <3>5. Bits(r, w) \in SUBSET (0 .. w - 1) /\ E \in SUBSET (0 .. w)
      BY <2>1 DEF Bits
    <3>6. ValueOf(Bits(r, w)) = r
      BY <2>3, <3>2 DEF p
    <3>7. w \notin Bits(r, w)
      BY <2>1, <3>5
    <3> HIDE DEF E
    <3>8. E \ {w} = Bits(r, w)
      BY <3>4, <3>7
    <3>9. CASE c = 1
      <4>1. w \in E
        BY <3>4, <3>9
      <4>2. ValueOf(E) = p + ValueOf(E \ {w})
        BY <2>4, <3>5, <4>1, ValueSplits DEF p
      <4>3. v = p + r
        BY <2>2, <3>2, <3>9
      <4> QED
        BY <3>6, <3>8, <4>2, <4>3, Zenon DEF E
    <3>10. CASE c = 0
      <4>1. E = Bits(r, w)
        BY <3>4, <3>10
      <4>2. v = r
        BY <2>2, <3>2, <3>10
      <4> QED
        BY <3>6, <4>1, <4>2, Zenon DEF E
    <3> QED
      BY <3>3, <3>9, <3>10
  <2> QED
    BY <2>6, <2>7
<1>4. Nat \subseteq S
  <2> HIDE DEF S
  <2> QED
    BY <1>2, <1>3, SetInduction
<1> QED
  BY <1>1, <1>4
LEMMA BitsOfIs ==
  ASSUME NEW s \in Size
  PROVE  /\ \A v : BitsOf(v, s) = Bits(v, Width(s)) /\ BitsOf(v, s) \in SUBSET (0 .. Width(s) - 1)
         /\ \A v \in 0 .. Modulus(s) - 1 : ValueOf(BitsOf(v, s)) = v
         /\ \A E \in SUBSET (0 .. Width(s) - 1) : /\ BitsOf(ValueOf(E), s) = E
                                                  /\ ValueOf(E) \in 0 .. Modulus(s) - 1
<1>1. \A v : BitsOf(v, s) = Bits(v, Width(s)) /\ BitsOf(v, s) \in SUBSET (0 .. Width(s) - 1)
  BY DEF BitsOf, Bits
<1>2. Width(s) \in 0 .. 4 * ByteBits
  BY WidthType
<1>3. \A v \in 0 .. Modulus(s) - 1 : ValueOf(BitsOf(v, s)) = v
  BY <1>1, <1>2, BitsAndValues, Zenon DEF Modulus
<1>4. \A E \in SUBSET (0 .. Width(s) - 1) : BitsOf(ValueOf(E), s) = E
  BY <1>1, <1>2, BitsAndValues, Zenon
<1>5. \A E \in SUBSET (0 .. Width(s) - 1) : ValueOf(E) \in 0 .. Modulus(s) - 1
  BY ValueBelow
<1> QED
  BY <1>1, <1>3, <1>4, <1>5

(* Shifts move bits.                                                       *)
MovedUp(E, n, w) == {j \in 0 .. w - 1 : j - n \in E}
MovedDown(E, n, w) == {j \in 0 .. w - 1 : j + n \in E}

(* A number below 2^w has no bits from w on.                               *)
LEMMA NoneAbove ==
  ASSUME NEW w \in 0 .. 4 * ByteBits, NEW v \in 0 .. 2 ^ w - 1,
         NEW k \in 0 .. 4 * ByteBits, k >= w
  PROVE  v \div 2 ^ k = 0
<1> DEFINE p == 2 ^ w
           q == 2 ^ k
<1>1. w \in 0 .. k
  BY Powers
<1>2. p <= q /\ p \in Nat \ {0} /\ q \in Nat \ {0}
  BY <1>1, Powers, Zenon
<1>3. v \in 0 .. p - 1
  OBVIOUS
<1> HIDE DEF p, q
<1>4. v \in 0 .. q - 1 /\ q * 0 + v = v
  BY <1>2, <1>3
<1>5. (q * 0 + v) \div q = 0
  BY <1>2, <1>4, DivisionIsUnique
<1> QED
  BY <1>4, <1>5 DEF q

LEMMA ShiftsDown ==
  ASSUME NEW w \in 0 .. 4 * ByteBits, NEW v \in 0 .. 2 ^ w - 1, NEW n \in 0 .. w
  PROVE  Bits(v \div 2 ^ n, w) = MovedDown(Bits(v, w), n, w)
<1> DEFINE b == 4 * ByteBits
<1>1. b \in Nat
  BY Powers
<1>2. n \in 0 .. b /\ w \in 0 .. b /\ w \in Nat /\ n \in Nat
  <2> HIDE DEF b
  <2>1. w \in 0 .. b
    BY DEF b
  <2> QED
    BY <1>1, <2>1
<1>3. v \in Int /\ 2 ^ n \in Nat \ {0} /\ v \in Nat
  <2>1. 2 ^ w \in Nat \ {0} /\ 2 ^ n \in Nat \ {0}
    BY <1>2, Powers
  <2> QED
    BY <2>1
<1>4. ASSUME NEW j \in 0 .. w - 1, j + n < w
      PROVE  ((v \div 2 ^ n) \div 2 ^ j) = v \div 2 ^ (j + n)
  <2>1. /\ j + n \in 0 .. b /\ n \in 0 .. j + n /\ (j + n) - n = j /\ j \in 0 .. b
        /\ j + n \in 0 .. w - 1
    <3> HIDE DEF b
    <3> QED
      BY <1>1, <1>2, <1>4
  <2>2. 2 ^ (j + n) = 2 ^ n * 2 ^ ((j + n) - n) /\ 2 ^ j \in Nat \ {0}
    BY <2>1, Powers, Zenon
  <2>3. 2 ^ (j + n) = 2 ^ n * 2 ^ j
    BY <2>1, <2>2, Zenon
  <2> DEFINE p == 2 ^ n
             e == 2 ^ j
  <2>4. p \in Nat \ {0} /\ e \in Nat \ {0}
    BY <1>3, <2>2
  <2> HIDE DEF p, e
  <2>5. v \div (p * e) = (v \div p) \div e
    BY <1>3, <2>4, TwoDivisions
  <2> QED
    BY <2>3, <2>5 DEF p, e
<1>5. ASSUME NEW j \in 0 .. w - 1, j + n >= w
      PROVE  ((v \div 2 ^ n) \div 2 ^ j) = 0
  <2> DEFINE p == 2 ^ n
             e == 2 ^ (w - n)
             q == v \div p
  <2>1. w - n \in 0 .. b /\ j \in 0 .. b /\ j >= w - n
    <3> HIDE DEF b
    <3> QED
      BY <1>1, <1>2, <1>5
  <2>2. 2 ^ w = p * e /\ e \in Nat \ {0} /\ p \in Nat \ {0}
    BY <1>2, <2>1, Powers, Zenon
  <2>3. v < p * e
    <3> DEFINE g == 2 ^ w
    <3>1. g \in Nat /\ v \in 0 .. g - 1
      BY <1>2, Powers
    <3> HIDE DEF g
    <3>2. v < g
      BY <3>1
    <3> QED
      BY <2>2, <3>2 DEF g
  <2> HIDE DEF p, e
  <2>4. q \in Int /\ q >= 0 /\ v % p \in 0 .. p - 1 /\ v = p * q + (v % p)
    <3>1. v >= 0
      BY <1>3
    <3> QED
      BY <1>3, <2>2, <3>1, Division, Zenon
  <2> HIDE DEF q
  <2>5. q < e
    <3>1. ASSUME NEW r \in Nat, q >= e, v = p * q + r
          PROVE  FALSE
      <4>1. PICK k \in Nat : q = e + k
        <5>1. q - e \in Nat /\ q = e + (q - e)
          BY <2>2, <2>4, <3>1
        <5> QED
          BY <5>1
      <4>2. p * (e + k) = p * e + p * k /\ p * k \in Nat /\ p * e \in Nat
        BY <2>2
      <4> QED
        BY <1>3, <2>3, <3>1, <4>1, <4>2
    <3> QED
      BY <2>2, <2>4, <3>1
  <2>6. q \in 0 .. e - 1
    BY <2>2, <2>4, <2>5
  <2>7. q \div 2 ^ j = 0
    BY <2>1, <2>6, NoneAbove DEF e
  <2> QED
    BY <2>7 DEF q, p
<1>6. ASSUME NEW j \in 0 .. w - 1
      PROVE  j \in Bits(v \div 2 ^ n, w) <=> j + n \in Bits(v, w)
  <2>1. CASE j + n < w
    <3>1. j + n \in 0 .. w - 1
      BY <1>2, <2>1
    <3> QED
      BY <1>4, <2>1, <3>1 DEF Bits
  <2>2. CASE j + n >= w
    <3>1. j + n \notin 0 .. w - 1
      BY <1>2, <2>2
    <3>2. (v \div 2 ^ n) \div 2 ^ j = 0 /\ 0 % 2 # 1
      BY <1>5, <2>2
    <3>3. j + n \notin Bits(v, w)
      BY <3>1 DEF Bits
    <3>4. j \notin Bits(v \div 2 ^ n, w)
      BY <3>2 DEF Bits
    <3> QED
      BY <3>3, <3>4
  <2> QED
    BY <1>2, <2>1, <2>2
<1>7. Bits(v \div 2 ^ n, w) \subseteq 0 .. w - 1
  BY DEF Bits
<1> QED
  BY <1>6, <1>7 DEF MovedDown

LEMMA ShiftsUp ==
  ASSUME NEW w \in 0 .. 4 * ByteBits, NEW v \in 0 .. 2 ^ w - 1, NEW n \in 0 .. w - 1
  PROVE  Bits((v % 2 ^ (w - n)) * 2 ^ n, w) = MovedUp(Bits(v, w), n, w)
<1> DEFINE b == 4 * ByteBits
           p == 2 ^ n
           e == 2 ^ (w - n)
           m == v % e
           x == m * p
<1>1. b \in Nat
  BY Powers
<1>2. n \in 0 .. b /\ w \in 0 .. b /\ w \in Nat /\ n \in Nat /\ w - n \in 0 .. b /\ n \in 0 .. w
  <2> HIDE DEF b
  <2>1. w \in 0 .. b
    BY DEF b
  <2> QED
    BY <1>1, <2>1
<1>3. p \in Nat \ {0} /\ e \in Nat \ {0} /\ 2 ^ w \in Nat \ {0}
  BY <1>2, Powers, Zenon
<1>4. v \in Int /\ v \in Nat
  BY <1>3
<1>5. m \in 0 .. e - 1 /\ m \in Int /\ v \div e \in Int /\ v = e * (v \div e) + m
  <2> HIDE DEF e
  <2>1. m \in 0 .. e - 1 /\ v \div e \in Int /\ v = e * (v \div e) + m
    BY <1>3, <1>4, Division, Zenon
  <2> QED
    BY <1>3, <2>1
<1>6. ASSUME NEW j \in 0 .. w - 1, j < n
      PROVE  (x \div 2 ^ j) % 2 = 0
  <2>1. j \in 0 .. n - 1
    BY <1>2, <1>6
  <2>2. ((2 ^ n * m + 0) \div 2 ^ j) % 2 = (0 \div 2 ^ j) % 2
    <3> HIDE DEF m
    <3>1. n \in 0 .. 4 * ByteBits
      BY <1>2
    <3>2. m \in Int /\ 0 \in Int
      BY <1>5
    <3> QED
      BY <2>1, <3>1, <3>2, BitBelow, Zenon
  <2>3. 2 ^ n * m + 0 = x
    <3> HIDE DEF p, m
    <3>1. p * m + 0 = m * p
      BY <1>3, <1>5
    <3> QED
      BY <3>1 DEF p
  <2>4. 0 \div 2 ^ j = 0
    <3>1. 0 \in 0 .. b /\ 0 \in 0 .. 2 ^ 0 - 1 /\ j \in 0 .. b /\ j >= 0
      <4>1. 2 ^ 0 = 1
        BY Powers
      <4>2. 0 \in 0 .. 1 - 1
        OBVIOUS
      <4> HIDE DEF b
      <4> QED
        BY <1>1, <1>2, <4>1, <4>2
    <3> QED
      BY <3>1, NoneAbove
  <2>5. 0 % 2 = 0
    OBVIOUS
  <2> HIDE DEF x
  <2> QED
    BY <2>2, <2>3, <2>4, <2>5
<1>7. ASSUME NEW j \in 0 .. w - 1, j >= n
      PROVE  (x \div 2 ^ j) % 2 = (v \div 2 ^ (j - n)) % 2
  <2>1. /\ j - n \in 0 .. (w - n) - 1 /\ n \in 0 .. j /\ j \in 0 .. b /\ j - n \in 0 .. b
    <3> HIDE DEF b
    <3> QED
      BY <1>1, <1>2, <1>7
  <2> DEFINE g == 2 ^ (j - n)
  <2>2. 2 ^ j = p * g /\ g \in Nat \ {0}
    BY <2>1, Powers, Zenon
  <2>3. x \div (p * g) = (x \div p) \div g
    <3> HIDE DEF p, g, m
    <3>1. x \in Int
      BY <1>3, <1>5
    <3> HIDE DEF x
    <3> QED
      BY <1>3, <2>2, <3>1, TwoDivisions
  <2>4. x \div p = m
    <3> HIDE DEF p, m
    <3>1. x = p * m + 0 /\ 0 \in 0 .. p - 1
      BY <1>3, <1>5
    <3>2. (p * m + 0) \div p = m
      BY <1>3, <1>5, <3>1, DivisionIsUnique
    <3> QED
      BY <3>1, <3>2
  <2>5. ((e * (v \div e) + m) \div g) % 2 = (m \div g) % 2
    <3> DEFINE c == v \div e
    <3>1. c \in Int /\ m \in Int
      BY <1>5
    <3> HIDE DEF m, c
    <3>2. ((2 ^ (w - n) * c + m) \div 2 ^ (j - n)) % 2 = (m \div 2 ^ (j - n)) % 2
      BY <1>2, <2>1, <3>1, BitBelow
    <3> QED
      BY <3>2 DEF c
  <2> HIDE DEF x, m, p, e, g
  <2>6. (v \div g) % 2 = (m \div g) % 2
    BY <1>5, <2>5
  <2> QED
    BY <2>2, <2>3, <2>4, <2>6 DEF g
<1> HIDE DEF x
<1>8. ASSUME NEW j \in 0 .. w - 1
      PROVE  j \in Bits(x, w) <=> j - n \in Bits(v, w)
  <2>1. CASE j < n
    <3>1. j - n \notin 0 .. w - 1
      BY <1>2, <2>1
    <3>2. (x \div 2 ^ j) % 2 = 0
      BY <1>6, <2>1
    <3>3. j - n \notin Bits(v, w)
      BY <3>1 DEF Bits
    <3>4. j \notin Bits(x, w)
      BY <3>2 DEF Bits
    <3> QED
      BY <3>3, <3>4
  <2>2. CASE j >= n
    <3>1. j - n \in 0 .. w - 1
      BY <1>2, <2>2
    <3> QED
      BY <1>7, <2>2, <3>1 DEF Bits
  <2> QED
    BY <1>2, <2>1, <2>2
<1>9. Bits(x, w) \subseteq 0 .. w - 1
  BY DEF Bits
<1>10. Bits(x, w) = MovedUp(Bits(v, w), n, w)
  BY <1>8, <1>9 DEF MovedUp
<1> QED
  BY <1>10 DEF x, m, e, p
LEMMA LeftBits ==
  ASSUME NEW s \in Size, NEW v \in 0 .. Modulus(s) - 1, NEW n \in 0 .. Width(s)
  PROVE  BitsOf(ShiftedLeft(v, n, s), s) = MovedUp(BitsOf(v, s), n, Width(s))
<1> DEFINE w == Width(s)
<1>1. w \in 0 .. 4 * ByteBits /\ w \in Nat
  BY WidthType
<1>2. \A x : BitsOf(x, s) = Bits(x, w)
  BY BitsOfIs
<1>3. v \in 0 .. 2 ^ w - 1
  BY DEF Modulus
<1> HIDE DEF w
<1>4. CASE n < w
  <2>1. ShiftedLeft(v, n, s) = (v % 2 ^ (w - n)) * 2 ^ n /\ n \in 0 .. w - 1
    BY <1>1, <1>4 DEF ShiftedLeft, w
  <2>2. Bits((v % 2 ^ (w - n)) * 2 ^ n, w) = MovedUp(Bits(v, w), n, w)
    BY <1>1, <1>3, <2>1, ShiftsUp
  <2> QED
    BY <1>2, <2>1, <2>2, Zenon DEF w
<1>5. CASE n = w
  <2>1. ShiftedLeft(v, n, s) = 0
    BY <1>1, <1>5 DEF ShiftedLeft, w
  <2>2. Bits(0, w) = {}
    <3>1. ValueOf({}) = 0 /\ Bits(ValueOf({}), w) = {}
      BY <1>1, ValueSplits, BitsAndValues
    <3> QED
      BY <3>1
  <2>3. MovedUp(Bits(v, w), n, w) = {}
    <3>1. \A j \in 0 .. w - 1 : j - n \notin 0 .. w - 1
      BY <1>1, <1>5
    <3> QED
      BY <3>1 DEF MovedUp, Bits
  <2> QED
    BY <1>2, <2>1, <2>2, <2>3 DEF w
<1>6. n < w \/ n = w
  BY <1>1 DEF w
<1> QED
  BY <1>4, <1>5, <1>6

LEMMA RightBits ==
  ASSUME NEW s \in Size, NEW v \in 0 .. Modulus(s) - 1, NEW n \in 0 .. Width(s)
  PROVE  BitsOf(ShiftedRight(v, n), s) = MovedDown(BitsOf(v, s), n, Width(s))
<1> DEFINE w == Width(s)
<1>1. w \in 0 .. 4 * ByteBits /\ w \in Nat /\ n \in 0 .. w
  BY WidthType
<1>2. \A x : BitsOf(x, s) = Bits(x, w)
  BY BitsOfIs
<1>3. v \in 0 .. 2 ^ w - 1
  BY DEF Modulus
<1> HIDE DEF w
<1>4. ShiftedRight(v, n) = v \div 2 ^ n
  <2>1. n <= 4 * ByteBits
    BY <1>1, Powers
  <2> QED
    BY <2>1 DEF ShiftedRight
<1>5. Bits(v \div 2 ^ n, w) = MovedDown(Bits(v, w), n, w)
  BY <1>1, <1>3, ShiftsDown
<1> QED
  BY <1>2, <1>4, <1>5, Zenon DEF w

(* A rotation moves bits round; moved on by the rest of the way they are   *)
(* where they were.                                                        *)
Turned(E, n, w) == MovedUp(E, n, w) \cup MovedDown(E, w - n, w)

LEMMA TurnedRound ==
  ASSUME NEW w \in Nat, NEW n \in 0 .. w, NEW E \in SUBSET (0 .. w - 1)
  PROVE  Turned(Turned(E, n, w), w - n, w) = E
<1> DEFINE T == Turned(E, n, w)
<1>1. \A k : k \in T <=> k \in 0 .. w - 1 /\ (k - n \in E \/ k + (w - n) \in E)
  BY DEF Turned, MovedUp, MovedDown
<1> HIDE DEF T
<1>2. w - (w - n) = n
  OBVIOUS
<1>3. \A j : j \in Turned(T, w - n, w) <=> j \in 0 .. w - 1 /\ (j - (w - n) \in T \/ j + n \in T)
  BY <1>2 DEF Turned, MovedUp, MovedDown
<1>4. ASSUME NEW j \in 0 .. w - 1
      PROVE  (j - (w - n) \in T \/ j + n \in T) <=> j \in E
  <2>1. j + w \notin E /\ j - w \notin E
    OBVIOUS
  <2>2. j + n \in T <=> j + n < w /\ j \in E
    <3>1. (j + n) - n = j /\ (j + n) + (w - n) = j + w
      OBVIOUS
    <3>2. j + n \in 0 .. w - 1 <=> j + n < w
      OBVIOUS
    <3> QED
      BY <1>1, <2>1, <3>1, <3>2
  <2>3. j - (w - n) \in T <=> j + n >= w /\ j \in E
    <3>1. (j - (w - n)) - n = j - w /\ (j - (w - n)) + (w - n) = j
      OBVIOUS
    <3>2. j - (w - n) \in 0 .. w - 1 <=> j + n >= w
      OBVIOUS
    <3> QED
      BY <1>1, <2>1, <3>1, <3>2
  <2> QED
    BY <2>2, <2>3
<1> QED
  BY <1>3, <1>4 DEF T

LEMMA Rotates ==
  ASSUME NEW s \in Size, NEW v \in 0 .. Modulus(s) - 1, NEW n \in 0 .. Width(s)
  PROVE  /\ RotatedLeft(v, n, s) = ValueOf(Turned(BitsOf(v, s), n, Width(s)))
         /\ RotatedRight(v, n, s) = ValueOf(Turned(BitsOf(v, s), Width(s) - n, Width(s)))
<1> DEFINE w == Width(s)
           k == w - n
<1>1. w \in Nat /\ n \in 0 .. w /\ k \in 0 .. w /\ w - k = n /\ ~ (n > w)
  BY WidthType
<1>2. /\ BitsOf(ShiftedLeft(v, n, s), s) = MovedUp(BitsOf(v, s), n, w)
      /\ BitsOf(ShiftedRight(v, n), s) = MovedDown(BitsOf(v, s), n, w)
  BY LeftBits, RightBits
<1>3. /\ BitsOf(ShiftedLeft(v, k, s), s) = MovedUp(BitsOf(v, s), k, w)
      /\ BitsOf(ShiftedRight(v, k), s) = MovedDown(BitsOf(v, s), k, w)
  <2>1. k \in 0 .. Width(s)
    BY <1>1
  <2> HIDE DEF k
  <2> QED
    BY <2>1, LeftBits, RightBits
<1>4. RotatedLeft(v, n, s) = ValueOf(MovedUp(BitsOf(v, s), n, w) \cup MovedDown(BitsOf(v, s), k, w))
  BY <1>1, <1>2, <1>3 DEF RotatedLeft
<1>5. RotatedRight(v, n, s) = ValueOf(MovedDown(BitsOf(v, s), n, w) \cup MovedUp(BitsOf(v, s), k, w))
  BY <1>1, <1>2, <1>3 DEF RotatedRight
<1>6. Turned(BitsOf(v, s), k, w) = MovedUp(BitsOf(v, s), k, w) \cup MovedDown(BitsOf(v, s), n, w)
  <2> HIDE DEF w, k
  <2> QED
    BY <1>1, Zenon DEF Turned
<1>7. \A A, B : A \cup B = B \cup A
  OBVIOUS
<1>8. RotatedRight(v, n, s) = ValueOf(Turned(BitsOf(v, s), k, w))
  BY <1>5, <1>6, <1>7, Zenon
<1> QED
  BY <1>4, <1>8, Zenon DEF Turned

LEMMA RotationsLaw ==
  ASSUME NEW s \in Size, NEW b \in 0 .. Modulus(s) - 1
  PROVE  RotateLaw(b, s)
<1> SUFFICES ASSUME NEW n \in 0 .. Width(s)
             PROVE  /\ RotatedRight(RotatedLeft(b, n, s), n, s) = b
                    /\ RotatedLeft(b, n, s) = RotatedRight(b, Width(s) - n, s)
  BY DEF RotateLaw, Shifted
<1> DEFINE w == Width(s)
           E == BitsOf(b, s)
           T == Turned(E, n, w)
           x == RotatedLeft(b, n, s)
           k == w - n
<1>1. w \in Nat /\ n \in 0 .. w /\ k \in 0 .. w /\ w - k = n
  BY WidthType
<1>2. E \in SUBSET (0 .. w - 1) /\ T \in SUBSET (0 .. w - 1)
  BY BitsOfIs DEF Turned, MovedUp, MovedDown
<1>3. x = ValueOf(T)
  BY Rotates
<1>4. x \in 0 .. Modulus(s) - 1 /\ BitsOf(x, s) = T
  <2> HIDE DEF x, T
  <2> QED
    BY <1>2, <1>3, BitsOfIs
<1> HIDE DEF x, T
<1>5. RotatedRight(x, n, s) = ValueOf(Turned(T, k, w))
  <2>1. RotatedRight(x, n, s) = ValueOf(Turned(BitsOf(x, s), w - n, w))
    BY <1>4, Rotates
  <2> QED
    BY <1>4, <2>1
<1>6. Turned(T, k, w) = E
  <2> HIDE DEF E, w
  <2> QED
    BY <1>1, <1>2, TurnedRound DEF T, k
<1>7. ValueOf(E) = b
  BY BitsOfIs
<1>8. RotatedRight(b, k, s) = x
  <2>1. k \in 0 .. Width(s)
    BY <1>1
  <2>2. RotatedRight(b, k, s) = ValueOf(Turned(E, w - k, w))
    <3> HIDE DEF k
    <3> QED
      BY <2>1, Rotates
  <2>3. Turned(E, w - k, w) = T
    <3> HIDE DEF k, w, E
    <3> QED
      BY <1>1, Zenon DEF T
  <2> QED
    BY <1>3, <2>2, <2>3, Zenon
<1> QED
  BY <1>5, <1>6, <1>7, <1>8, Zenon DEF x, k, w

LEMMA BitsLaw ==
  ASSUME NEW s \in Size, NEW b \in 0 .. Modulus(s) - 1
  PROVE  BitLaw(b, s)
<1> SUFFICES ASSUME NEW n \in 0 .. Width(s) - 1, n < IntBits - 1
             PROVE  LET x == ValueOf(BitsOf(b, s) \cup OneShifted(n, s)) IN
                    /\ BitsOf(x, s) = BitsOf(b, s) \cup {n}
                    /\ OneShifted(n, s) \cap BitsOf(x, s) # {}
                    /\ BitsOf(ValueOf(BitsOf(x, s) \ OneShifted(n, s)), s) = BitsOf(b, s) \ {n}
  BY DEF BitLaw, Shifted
<1> DEFINE E == BitsOf(b, s)
           x == ValueOf(E \cup OneShifted(n, s))
           w == Width(s)
<1>1. OneShifted(n, s) = {n}
  BY DEF OneShifted
<1>2. E \cup {n} \in SUBSET (0 .. w - 1) /\ (E \cup {n}) \ {n} \in SUBSET (0 .. w - 1)
  BY BitsOfIs
<1>3. \A F \in SUBSET (0 .. w - 1) : BitsOf(ValueOf(F), s) = F
  BY BitsOfIs
<1>4. x = ValueOf(E \cup {n})
  BY <1>1
<1> HIDE DEF E, x, w
<1>5. BitsOf(x, s) = E \cup {n}
  BY <1>2, <1>3, <1>4
<1>6. BitsOf(ValueOf((E \cup {n}) \ {n}), s) = (E \cup {n}) \ {n}
  BY <1>2, <1>3
<1>7. (E \cup {n}) \ {n} = E \ {n} /\ {n} \cap (E \cup {n}) # {}
  OBVIOUS
<1>8. /\ OneShifted(n, s) \cap BitsOf(x, s) # {}
      /\ BitsOf(ValueOf(BitsOf(x, s) \ OneShifted(n, s)), s) = E \ {n}
  BY <1>1, <1>5, <1>6, <1>7
<1> QED
  BY <1>5, <1>8 DEF x, E

LEMMA SumsLaw ==
  ASSUME NEW s \in Size, NEW b \in 0 .. Modulus(s) - 1, NEW a \in 0 .. Modulus(s) - 1
  PROVE  AddLaw(b, a, s)
<1> DEFINE p == Modulus(s)
           e == b + a
           x == e % p
           y == x - a
<1>1. p \in Nat \ {0} /\ b \in 0 .. p - 1 /\ a \in 0 .. p - 1
  BY Sizes
<1>2. Checked("ADD", b, a, s) = [x |-> x, carry |-> x # e]
  BY DEF Checked, Exact, Typed, SignedOps, Low
<1>3. Checked("SUB", x, a, s) = [x |-> y % p, carry |-> y % p # y]
  BY DEF Checked, Exact, Typed, SignedOps, Low
<1> HIDE DEF p
<1>4. x \in 0 .. p - 1 /\ e \in Nat
  BY <1>1
<1>5. y % p = b
  <2> DEFINE k == e \div p
  <2>1. k \in Int /\ e = p * k + x
    <3> HIDE DEF x
    <3>1. e \in Int
      BY <1>4
    <3> HIDE DEF e
    <3> QED
      BY <1>1, <3>1, Division, Zenon DEF x
  <2> HIDE DEF k, x
  <2>2. p * (-k) + b = y /\ -k \in Int /\ b \in 0 .. p - 1
    BY <1>1, <1>4, <2>1
  <2>3. (p * (-k) + b) % p = b
    BY <1>1, <2>2, DivisionIsUnique
  <2> QED
    BY <2>2, <2>3
<1>6. x # e <=> b # y
  <2> HIDE DEF x
  <2> QED
    BY <1>1, <1>4
<1>7. AddLaw(b, a, s) <=>
        Checked("SUB", Checked("ADD", b, a, s).x, a, s)
          = [x |-> b, carry |-> Checked("ADD", b, a, s).carry]
  BY DEF AddLaw
<1> HIDE DEF x, e, y
<1>8. Checked("ADD", b, a, s).x = x /\ Checked("ADD", b, a, s).carry = (x # e)
  BY <1>2
<1> DEFINE borrow == y % p # y
           carry == x # e
<1>9. borrow = carry
  BY <1>5, <1>6
<1> HIDE DEF borrow, carry
<1>10. Checked("SUB", x, a, s) = [x |-> b, carry |-> carry]
  BY <1>3, <1>5, <1>9 DEF borrow
<1> QED
  BY <1>7, <1>8, <1>10, Zenon DEF carry
LEMMA Halves ==
  ASSUME NEW s \in Size
  PROVE  \E h \in Nat \ {0} : Modulus(s) = 2 * h /\ Modulus(s) \div 2 = h
<1> DEFINE k == Width(s) - 1
           h == 2 ^ k
<1>1. k \in 0 .. 4 * ByteBits - 1 /\ k \in 0 .. 4 * ByteBits /\ k + 1 = Width(s)
  <2> DEFINE c == 4 * ByteBits
  <2>1. c \in Nat /\ Width(s) \in 1 .. c
    BY Powers, WidthType
  <2> HIDE DEF c
  <2>2. k \in 0 .. c - 1 /\ k \in 0 .. c /\ k + 1 = Width(s)
    BY <2>1
  <2> QED
    BY <2>2 DEF c
<1> HIDE DEF k
<1>2. h \in Nat \ {0} /\ 2 ^ (k + 1) = 2 * h
  BY <1>1, Powers, Zenon
<1>3. Modulus(s) = 2 * h
  BY <1>1, <1>2, Zenon DEF Modulus
<1> HIDE DEF h
<1>4. (2 * h) \div 2 = h
  BY <1>2
<1> QED
  BY <1>2, <1>3, <1>4

(* A signed number is the one of its half of the range that differs from   *)
(* the value by a multiple of the modulus.                                 *)
LEMMA SignedIs ==
  ASSUME NEW s \in Size, NEW h \in Nat \ {0}, Modulus(s) = 2 * h, Modulus(s) \div 2 = h
  PROVE  /\ \A v \in 0 .. Modulus(s) - 1 :
              /\ Signed(v, s) \in -h .. h - 1
              /\ \E c \in {0, 1} : Signed(v, s) = v - Modulus(s) * c
         /\ \A z \in -h .. h - 1 : Signed(z % Modulus(s), s) = z
<1> DEFINE p == Modulus(s)
<1>1. p = 2 * h /\ p \in Nat \ {0}
  OBVIOUS
<1>2. \A v : Signed(v, s) = IF v < h THEN v ELSE v - p
  BY DEF Signed
<1> HIDE DEF p
<1>3. ASSUME NEW v \in 0 .. p - 1
      PROVE  /\ Signed(v, s) \in -h .. h - 1
             /\ \E c \in {0, 1} : Signed(v, s) = v - p * c
  <2>1. CASE v < h
    <3>1. Signed(v, s) = v /\ v = v - p * 0
      BY <1>1, <1>2, <2>1
    <3> QED
      BY <1>1, <2>1, <3>1
  <2>2. CASE ~ (v < h)
    <3>1. Signed(v, s) = v - p /\ v - p = v - p * 1
      BY <1>1, <1>2, <2>2
    <3> QED
      BY <1>1, <2>2, <3>1
  <2> QED
    BY <2>1, <2>2
<1>4. ASSUME NEW z \in -h .. h - 1
      PROVE  Signed(z % p, s) = z
  <2>1. CASE z >= 0
    <3>1. z \in 0 .. p - 1
      BY <1>1, <2>1
    <3>2. z % p = z
      BY <1>1, <3>1
    <3> QED
      BY <1>2, <2>1, <3>2
  <2>2. CASE z < 0
    <3>1. z + p \in 0 .. p - 1 /\ p * (-1) + (z + p) = z /\ -1 \in Int /\ ~ (z + p < h)
      BY <1>1, <2>2
    <3>2. (p * (-1) + (z + p)) % p = z + p
      BY <1>1, <3>1, DivisionIsUnique
    <3>3. z % p = z + p /\ (z + p) - p = z
      BY <1>1, <3>1, <3>2
    <3> QED
      BY <1>2, <3>1, <3>3
  <2> QED
    BY <2>1, <2>2
<1> QED
  BY <1>3, <1>4 DEF p

LEMMA UnsignedDivision ==
  ASSUME NEW s \in Size, NEW b \in 0 .. Modulus(s) - 1, NEW a \in 0 .. Modulus(s) - 1, a # 0
  PROVE  /\ Divided("DIV", b, a, s) = b \div a
         /\ Divided("REM", b, a, s) = b % a
         /\ b \div a \in Nat /\ b % a \in 0 .. a - 1 /\ b = a * (b \div a) + (b % a)
<1> DEFINE p == Modulus(s)
           q == b \div a
           r == b % a
<1>1. p \in Nat \ {0} /\ b \in 0 .. p - 1 /\ a \in 1 .. p - 1 /\ b \in Int /\ a \in Nat \ {0} /\ b >= 0
  BY Sizes
<1>2. r \in 0 .. a - 1 /\ b = a * q + r /\ q \in Int /\ q >= 0 /\ q <= b
  BY <1>1, Division, Zenon
<1>3. Magnitude(b) = b /\ Magnitude(a) = a /\ (b < 0) = (a < 0)
  BY <1>1 DEF Magnitude
<1>4. Toward0(b, a) = q
  BY <1>3 DEF Toward0
<1> HIDE DEF p, q, r
<1>5. q * a = a * q /\ b - q * a = r
  BY <1>1, <1>2
<1>6. Divided("DIV", b, a, s) = q % p /\ Divided("REM", b, a, s) = (b - q * a) % p
  BY <1>4 DEF Divided, Typed, SignedOps, Low, p
<1>7. q % p = q /\ r % p = r
  <2>1. q \in 0 .. p - 1 /\ r \in 0 .. p - 1
    BY <1>1, <1>2
  <2> QED
    BY <1>1, <2>1
<1> QED
  BY <1>1, <1>2, <1>5, <1>6, <1>7 DEF q, r

LEMMA ProductsLaw ==
  ASSUME NEW s \in Size, NEW b \in 0 .. Modulus(s) - 1, NEW a \in 0 .. Modulus(s) - 1
  PROVE  MultiplyLaw(b, a, s)
<1> DEFINE p == Modulus(s)
           x == (b * a) % p
           m == Checked("MUL", b, a, s)
<1>1. p \in Nat \ {0} /\ b \in 0 .. p - 1 /\ a \in 0 .. p - 1
  BY Sizes
<1>2. m.x = x /\ m.carry = (x # b * a)
  BY DEF Checked, Exact, Typed, SignedOps, Low
<1>3. Checked("IMUL", b, a, s).x = (Signed(b, s) * Signed(a, s)) % p
  BY DEF Checked, Exact, Typed, SignedOps, Low
<1>4. PICK c \in {0, 1}, d \in {0, 1} : Signed(b, s) = b - p * c /\ Signed(a, s) = a - p * d
  <2>1. PICK h \in Nat \ {0} : Modulus(s) = 2 * h /\ Modulus(s) \div 2 = h
    BY Halves
  <2> QED
    BY <2>1, SignedIs
<1>5. x \in 0 .. p - 1 /\ b * a \in Int /\ b * a \in Nat
  <2> HIDE DEF p
  <2>1. b * a \in Nat
    BY <1>1
  <2> DEFINE y == b * a
  <2> HIDE DEF y
  <2> QED
    BY <1>1, <2>1 DEF y
<1> HIDE DEF p, x, m
<1>6. (Signed(b, s) * Signed(a, s)) % p = x
  <2>1. \E k \in Int : Signed(b, s) * Signed(a, s) = p * k + b * a
    <3>1. CASE c = 0 /\ d = 0
      <4>1. Signed(b, s) = b /\ Signed(a, s) = a /\ b * a = p * 0 + b * a
        BY <1>1, <1>4, <1>5, <3>1
      <4> QED
        BY <4>1
    <3>2. CASE c = 1 /\ d = 0
      <4>1. Signed(b, s) = b - p /\ Signed(a, s) = a
        BY <1>1, <1>4, <3>2
      <4>2. (b - p) * a = p * (-a) + b * a /\ -a \in Int
        BY <1>1
      <4> QED
        BY <4>1, <4>2
    <3>3. CASE c = 0 /\ d = 1
      <4>1. Signed(b, s) = b /\ Signed(a, s) = a - p
        BY <1>1, <1>4, <3>3
      <4>2. b * (a - p) = p * (-b) + b * a /\ -b \in Int
        BY <1>1
      <4> QED
        BY <4>1, <4>2
    <3>4. CASE c = 1 /\ d = 1
      <4>1. Signed(b, s) = b - p /\ Signed(a, s) = a - p
        BY <1>1, <1>4, <3>4
      <4>2. (b - p) * (a - p) = p * (p - a - b) + b * a /\ p - a - b \in Int
        BY <1>1
      <4> QED
        BY <4>1, <4>2
    <3> QED
      BY <3>1, <3>2, <3>3, <3>4
  <2>2. PICK k \in Int : Signed(b, s) * Signed(a, s) = p * k + b * a
    BY <2>1
  <2> DEFINE y == b * a
  <2>3. y \in Int
    BY <1>5
  <2> HIDE DEF y
  <2>4. (p * k + y) % p = y % p
    BY <1>1, <2>3, Remainders
  <2> QED
    BY <2>2, <2>4 DEF x, y
<1>7. ASSUME a # 0
      PROVE  x # b * a <=> Divided("DIV", x, a, s) # b \/ Divided("REM", x, a, s) # 0
  <2>1. /\ Divided("DIV", x, a, s) = x \div a /\ Divided("REM", x, a, s) = x % a
        /\ x \div a \in Nat /\ x % a \in 0 .. a - 1 /\ x = a * (x \div a) + (x % a)
    <3>1. x \in 0 .. Modulus(s) - 1
      BY <1>5 DEF p
    <3> QED
      BY <1>7, <3>1, UnsignedDivision
  <2>2. ASSUME x = b * a
        PROVE  x \div a = b /\ x % a = 0
    <3>1. x = a * b + 0 /\ 0 \in 0 .. a - 1 /\ a \in Nat \ {0} /\ b \in Int
      BY <1>1, <1>7, <2>2
    <3>2. (a * b + 0) \div a = b /\ (a * b + 0) % a = 0
      BY <3>1, DivisionIsUnique
    <3> QED
      BY <3>1, <3>2
  <2>3. ASSUME x \div a = b, x % a = 0
        PROVE  x = b * a
    <3>1. x = a * b + 0
      BY <2>1, <2>3
    <3> QED
      BY <1>1, <3>1
  <2> QED
    BY <2>1, <2>2, <2>3
<1> QED
  BY <1>2, <1>3, <1>6, <1>7 DEF MultiplyLaw, m

(* C rounds towards zero: the remainder is smaller than the divisor.       *)
LEMMA RemainderSmaller ==
  ASSUME NEW b \in Int, NEW a \in Int \ {0}
  PROVE  /\ Toward0(b, a) \in Int
         /\ b - Toward0(b, a) * a \in Int
         /\ Magnitude(b - Toward0(b, a) * a) < Magnitude(a)
<1> DEFINE m == Magnitude(b)
           n == Magnitude(a)
           q == m \div n
           r == m % n
           t == Toward0(b, a)
<1>1. /\ m \in Nat /\ n \in Nat \ {0}
      /\ m = IF b < 0 THEN -b ELSE b
      /\ n = IF a < 0 THEN -a ELSE a
  BY DEF Magnitude
<1>2. t = IF (b < 0) = (a < 0) THEN q ELSE -q
  BY DEF Toward0
<1> HIDE DEF m, n, t
<1>3. q \in Int /\ r \in 0 .. n - 1 /\ m = n * q + r
  BY <1>1, Division, m \in Int, Zenon
<1> HIDE DEF q, r
<1>4. t \in Int
  BY <1>2, <1>3
<1>5. b - t * a = r \/ b - t * a = -r
  <2>1. CASE ~ (b < 0) /\ ~ (a < 0)
    <3>1. t = q /\ m = b /\ n = a
      BY <1>1, <1>2, <2>1
    <3>2. b = a * q + r
      BY <1>3, <3>1
    <3>3. b - q * a = r
      BY <1>3, <3>2
    <3> QED
      BY <3>1, <3>3
  <2>2. CASE b < 0 /\ a < 0
    <3>1. t = q /\ m = -b /\ n = -a
      BY <1>1, <1>2, <2>2
    <3>2. -b = (-a) * q + r
      BY <1>3, <3>1
    <3>3. b - q * a = -r
      BY <1>3, <3>2
    <3> QED
      BY <3>1, <3>3
  <2>3. CASE ~ (b < 0) /\ a < 0
    <3>1. t = -q /\ m = b /\ n = -a
      BY <1>1, <1>2, <2>3
    <3>2. b = (-a) * q + r
      BY <1>3, <3>1
    <3>3. b - (-q) * a = r
      BY <1>3, <3>2
    <3> QED
      BY <3>1, <3>3
  <2>4. CASE b < 0 /\ ~ (a < 0)
    <3>1. t = -q /\ m = -b /\ n = a
      BY <1>1, <1>2, <2>4
    <3>2. -b = a * q + r
      BY <1>3, <3>1
    <3>3. b - (-q) * a = -r
      BY <1>3, <3>2
    <3> QED
      BY <3>1, <3>3
  <2> QED
    BY <2>1, <2>2, <2>3, <2>4
<1>6. b - t * a \in Int /\ Magnitude(b - t * a) = r
  <2> DEFINE z == b - t * a
  <2>1. z = r \/ z = -r
    BY <1>5
  <2> HIDE DEF z
  <2>2. z \in Int /\ Magnitude(z) = r
    BY <1>1, <1>3, <2>1 DEF Magnitude
  <2> QED
    BY <2>2 DEF z
<1> QED
  BY <1>1, <1>3, <1>4, <1>6 DEF t, n

LEMMA SignedDivision ==
  ASSUME NEW s \in Size, NEW b \in 0 .. Modulus(s) - 1, NEW a \in 0 .. Modulus(s) - 1, a # 0
  PROVE  LET q == Divided("IDIV", b, a, s)
             r == Divided("IREM", b, a, s)
         IN  /\ Low(Signed(q, s) * Signed(a, s) + r, s) = b
             /\ Magnitude(Signed(r, s)) < Magnitude(Signed(a, s))
<1> DEFINE p == Modulus(s)
           tb == Signed(b, s)
           ta == Signed(a, s)
           t == Toward0(tb, ta)
           z == tb - t * ta
           q == Divided("IDIV", b, a, s)
           r == Divided("IREM", b, a, s)
<1>1. PICK h \in Nat \ {0} : p = 2 * h /\ p \div 2 = h
  BY Halves
<1>2. q = t % p /\ r = z % p
  BY DEF Divided, Typed, SignedOps, Low
<1>3. p \in Nat \ {0} /\ b \in 0 .. p - 1 /\ a \in 0 .. p - 1
  BY Sizes
<1>4. /\ tb \in -h .. h - 1 /\ ta \in -h .. h - 1
      /\ \E c \in {0, 1} : tb = b - p * c
  BY <1>1, <1>3, SignedIs
<1>5. ta \in Int \ {0} /\ tb \in Int
  <2>1. ta # 0
    <3>1. Typed("IDIV", a, s) # 0
      BY TypedType
    <3> QED
      BY <3>1 DEF Typed, SignedOps
  <2> QED
    BY <1>1, <1>4, <2>1
<1>6. t \in Int /\ z \in Int /\ Magnitude(z) < Magnitude(ta)
  <2> HIDE DEF tb, ta
  <2> QED
    BY <1>5, RemainderSmaller
<1>7. z \in -h .. h - 1
  <2> HIDE DEF z, ta
  <2> QED
    BY <1>1, <1>4, <1>5, <1>6 DEF Magnitude
<1>8. Signed(r, s) = z
  <2>1. \A y \in -h .. h - 1 : Signed(y % p, s) = y
    BY <1>1, SignedIs
  <2> HIDE DEF z, r
  <2> QED
    BY <1>2, <1>7, <2>1
<1>9. q \in 0 .. p - 1 /\ \E k \in Int : t = p * k + q
  <2> HIDE DEF t, p, q
  <2>1. t % p \in 0 .. p - 1 /\ t = p * (t \div p) + (t % p) /\ t \div p \in Int
    BY <1>3, <1>6, Division, Zenon
  <2> QED
    BY <1>2, <2>1
<1>10. PICK k \in Int : t = p * k + q
  BY <1>9
<1>11. \E l \in Int : z = p * l + r
  <2> HIDE DEF z, p, r
  <2>1. z = p * (z \div p) + (z % p) /\ z \div p \in Int
    BY <1>3, <1>6, Division, Zenon
  <2> QED
    BY <1>2, <2>1
<1>12. PICK l \in Int : z = p * l + r
  BY <1>11
<1>13. \E c \in {0, 1} : Signed(q, s) = q - p * c
  BY <1>1, <1>9, SignedIs
<1>14. PICK c \in {0, 1} : Signed(q, s) = q - p * c
  BY <1>13
<1>15. PICK d \in {0, 1} : tb = b - p * d
  BY <1>4
<1>16. r \in Int /\ q \in Int
  <2>1. r \in 0 .. p - 1
    <3> HIDE DEF z, p, r
    <3> QED
      BY <1>2, <1>3, <1>6
  <2> HIDE DEF p, r, q
  <2> QED
    BY <1>3, <1>9, <2>1
<1> DEFINE y == Signed(q, s)
           n == -((k + c) * ta) - l - d
<1>17. n \in Int
  <2> HIDE DEF ta
  <2>1. c \in Int /\ d \in Int
    OBVIOUS
  <2> QED
    BY <1>5, <2>1
<1>18. y * ta + r = p * n + b
  <2>1. y = t - p * (k + c)
    <3> HIDE DEF t, q, p
    <3>1. c \in Int
      OBVIOUS
    <3> QED
      BY <1>3, <1>6, <1>10, <1>14, <1>16, <3>1
  <2>2. z = tb - t * ta
    OBVIOUS
  <2> HIDE DEF y, t, z, tb, ta, p, r, q
  <2>3. c \in Int /\ d \in Int
    OBVIOUS
  <2> DEFINE j == k + c
  <2>4. j \in Int /\ y = t - p * j
    BY <2>1, <2>3
  <2> HIDE DEF j
  <2>5. y * ta = t * ta - p * (j * ta)
    BY <1>3, <1>5, <1>6, <2>4
  <2> DEFINE g == j * ta
             u == t * ta
  <2>6. g \in Int /\ u \in Int
    BY <1>5, <1>6, <2>4
  <2>7. n = -g - l - d
    BY DEF j
  <2>8. y * ta = u - p * g /\ z = tb - u
    BY <2>2, <2>5
  <2> HIDE DEF g, u, n
  <2>9. p * n = -(p * g) - p * l - p * d
    BY <1>3, <2>3, <2>6, <2>7
  <2> QED
    <3> DEFINE pg == p * g
               pl == p * l
               pd == p * d
               yt == y * ta
    <3>1. pg \in Int /\ pl \in Int /\ pd \in Int
      BY <1>3, <2>3, <2>6
    <3>2. /\ yt = u - pg /\ z = tb - u /\ tb = b - pd /\ z = pl + r
          /\ p * n = -pg - pl - pd
      BY <1>12, <1>15, <2>8, <2>9
    <3>3. b \in Int
      BY <1>3
    <3> HIDE DEF pg, pl, pd, yt
    <3>4. yt + r = p * n + b
      BY <1>16, <2>6, <3>1, <3>2, <3>3
    <3> QED
      BY <3>4 DEF yt
<1>19. Low(y * ta + r, s) = b
  <2> HIDE DEF y, ta, r, n, p
  <2>1. b \in 0 .. p - 1
    BY <1>3
  <2>2. (p * n + b) % p = b
    BY <1>3, <1>17, <2>1, DivisionIsUnique
  <2> QED
    BY <1>18, <2>2 DEF Low, p
<1>20. Magnitude(Signed(r, s)) < Magnitude(ta)
  BY <1>6, <1>8, Zenon
<1> QED
  BY <1>19, <1>20, Zenon

LEMMA QuotientsLaw ==
  ASSUME NEW s \in Size, NEW b \in 0 .. Modulus(s) - 1, NEW a \in 0 .. Modulus(s) - 1
  PROVE  DivideLaw(b, a, s)
<1> SUFFICES ASSUME a # 0
             PROVE  /\ LET q == Divided("DIV", b, a, s)
                           r == Divided("REM", b, a, s)
                       IN  Low(q * a + r, s) = b /\ Magnitude(r) < Magnitude(a)
                    /\ LET q == Divided("IDIV", b, a, s)
                           r == Divided("IREM", b, a, s)
                       IN  /\ Low(Signed(q, s) * Signed(a, s) + r, s) = b
                           /\ Magnitude(Signed(r, s)) < Magnitude(Signed(a, s))
  BY DEF DivideLaw, Typed, SignedOps
<1> DEFINE p == Modulus(s)
           q == b \div a
           r == b % a
<1>1. p \in Nat \ {0} /\ b \in 0 .. p - 1 /\ a \in 1 .. p - 1
  BY Sizes
<1>2. /\ Divided("DIV", b, a, s) = q /\ Divided("REM", b, a, s) = r
      /\ q \in Nat /\ r \in 0 .. a - 1 /\ b = a * q + r
  BY UnsignedDivision
<1> HIDE DEF p, q, r
<1>3. q * a + r = b
  BY <1>1, <1>2
<1>4. Low(b, s) = b
  BY <1>1 DEF Low, p
<1>5. Magnitude(r) < Magnitude(a)
  BY <1>1, <1>2 DEF Magnitude
<1>6. LET i == Divided("IDIV", b, a, s)
          j == Divided("IREM", b, a, s)
      IN  /\ Low(Signed(i, s) * Signed(a, s) + j, s) = b
          /\ Magnitude(Signed(j, s)) < Magnitude(Signed(a, s))
  BY SignedDivision
<1> QED
  BY <1>2, <1>3, <1>4, <1>5, <1>6, Zenon

(* The laws hold of all values of every size: quotients and remainders,    *)
(* carries and borrows, rotations and bits fit together as programs expect *)
(* (ADD to BCL in cpu.c).                                                  *)
LEMMA LawsHold ==
  ASSUME NEW s \in Size, NEW b \in 0 .. Modulus(s) - 1, NEW a \in 0 .. Modulus(s) - 1
  PROVE  Laws(b, a, s)
BY SumsLaw, QuotientsLaw, ProductsLaw, RotationsLaw, BitsLaw DEF Laws

(* Whatever two registers hold: sums are undone by differences that borrow *)
(* when they carried, quotient and remainder make up the dividend, signed  *)
(* and unsigned products agree, rotations undo each other, and a bit that  *)
(* was set tests as set and is cleared again (VM_IMPL_ADD to VM_IMPL_BTS). *)
THEOREM ArithmeticIsLawful == Spec => []ArithmeticLaws
<1>1. ASSUME Inv
      PROVE  ArithmeticLaws
  <2>1. vm.regs[0] \in Int /\ vm.regs[1] \in Int
    <3>1. RegisterCount \in Nat \ {0, 1} /\ Word \subseteq Nat
      BY CpuAssumption, Sizes
    <3>2. vm.regs \in [0 .. RegisterCount - 1 -> Word]
      BY <1>1 DEF Inv, CpuTypeOK, IsMachine
    <3>3. 0 \in 0 .. RegisterCount - 1 /\ 1 \in 0 .. RegisterCount - 1
      BY <3>1
    <3>4. vm.regs[0] \in Word /\ vm.regs[1] \in Word
      BY <3>2, <3>3, Zenon
    <3>5. vm.regs[0] \in Nat /\ vm.regs[1] \in Nat
      BY <3>1, <3>4, Zenon
    <3> QED
      BY <3>5
  <2>2. ASSUME NEW s \in Size
        PROVE  Laws(Low(vm.regs[0], s), Low(vm.regs[1], s), s)
    <3>1. Low(vm.regs[0], s) \in 0 .. Modulus(s) - 1 /\ Low(vm.regs[1], s) \in 0 .. Modulus(s) - 1
      BY <2>1, LowFits
    <3> QED
      BY <3>1, LawsHold
  <2> QED
    BY <2>2 DEF ArithmeticLaws, Size
<1> QED
  BY <1>1, Types, PTL
=============================================================================
