--------------------------- MODULE TaskIds_proofs ---------------------------
(***************************************************************************)
(* The bitmap of task IDs is a set of IDs, and get_unused_task_id right,   *)
(* while no more programs run than an int has value bits.                  *)
(***************************************************************************)
EXTENDS TaskIds, NaturalsInduction, FiniteSetTheorems, TLAPS

IdsAssumption ==
  /\ IntBits \in Nat /\ IntBits >= 1 /\ IntBits <= Width(WORD)
  /\ Width(WORD) \in Nat
  /\ MaxRunning \in Nat /\ MaxRunning <= IntBits - 1
  /\ IsFiniteSet(Program)
  /\ NotRunning \notin Nat

-----------------------------------------------------------------------------
(* Of a nonempty set of numbers the search loop returns the least.         *)
LEMMA LeastExists ==
  ASSUME NEW S \in SUBSET Nat, S # {}
  PROVE  \E n \in S : \A o \in S : n <= o
<1>1. PICK n \in S : \A o \in S : <<o, n>> \notin OpToRel(<, Nat)
  BY NatLessThanWellFounded, WFMin
<1>2. ASSUME NEW l \in Nat, NEW k \in Nat, l < k
      PROVE  <<l, k>> \in OpToRel(<, Nat)
  BY <1>2, Zenon DEF OpToRel
<1>3. \A o \in S : ~ (o < n)
  BY <1>1, <1>2, Zenon
<1> QED
  BY <1>3

(* bts finds the IDs of the running programs set and no others.            *)
LEMMA TestsRight ==
  ASSUME IdsAssumption, IdsInv
  PROVE  /\ Unused = (1 .. MaxId) \ Ids
         /\ Ids \subseteq Reliable
<1> USE DEF IdsAssumption, Reliable, MaxId, IdsInv
<1>1. Ids \subseteq Reliable
  BY DEF Ids, Running
<1>2. ASSUME NEW n \in 1 .. MaxId
      PROVE  IsUnused(n) <=> n \notin Ids
  <2>1. CASE n < IntBits - 1
    <3>1. OneShifted(n, WORD) = {n}
      BY <2>1 DEF OneShifted
    <3> QED
      BY <2>1, <3>1 DEF IsUnused
  <2>2. CASE n = IntBits - 1
    <3>1. OneShifted(n, WORD) = n .. MaxId
      BY <2>2 DEF OneShifted
    <3>2. n \in task_id_bitmap <=> n .. MaxId \cap task_id_bitmap # {}
      BY <2>2
    <3> QED
      BY <2>2, <3>1, <3>2 DEF IsUnused
  <2>3. CASE n > IntBits - 1
    <3>1. OneShifted(n, WORD) = {}
      BY <2>3 DEF OneShifted
    <3> QED
      BY <1>1, <2>3, <3>1 DEF IsUnused
  <2> QED
    BY <2>1, <2>2, <2>3
<1> QED
  BY <1>1, <1>2 DEF Unused

LEMMA NextUnused ==
  ASSUME IdsAssumption, IdsInv
  PROVE  /\ ReturnsUnused
         /\ Cardinality(Running) < MaxRunning => GetUnusedTaskId \in Reliable \ Ids
<1>1. Unused = (1 .. MaxId) \ Ids /\ Ids \subseteq Reliable
  BY TestsRight
<1>2. Unused \subseteq Nat /\ Reliable \subseteq 1 .. MaxId
  BY <1>1 DEF IdsAssumption, Reliable, MaxId
<1>3. ASSUME Unused # {}
      PROVE  GetUnusedTaskId \in Unused /\ \A o \in Unused : GetUnusedTaskId <= o
  BY <1>2, <1>3, LeastExists DEF GetUnusedTaskId
<1>4. ReturnsUnused
  <2>1. CASE Unused = {}
    BY <1>1, <2>1 DEF ReturnsUnused, GetUnusedTaskId
  <2>2. CASE Unused # {}
    BY <1>1, <1>3, <2>2 DEF ReturnsUnused
  <2> QED
    BY <2>1, <2>2
<1>5. ASSUME Cardinality(Running) < MaxRunning
      PROVE  GetUnusedTaskId \in Reliable \ Ids
  <2> DEFINE f == [p \in Running |-> id[p]]
  <2>1. f \in Surjection(Running, Ids)
    BY DEF Surjection, Ids
  <2>2. IsFiniteSet(Running)
    BY FS_Subset DEF Running, IdsAssumption
  <2>3. Cardinality(Ids) <= Cardinality(Running) /\ IsFiniteSet(Ids)
    BY <2>1, <2>2, FS_Surjection
  <2>4. Cardinality(Reliable) = IntBits - 1 /\ IsFiniteSet(Reliable)
    <3>1. \A b \in Int : /\ IsFiniteSet(1 .. b)
                        /\ Cardinality(1 .. b) = IF 1 > b THEN 0 ELSE b - 1 + 1
      BY FS_Interval, 1 \in Int, Zenon
    <3> QED
      BY <3>1 DEF Reliable, IdsAssumption
  <2>5. Cardinality(Ids) \in Nat /\ Cardinality(Running) \in Nat
    BY <2>2, <2>3, FS_CardinalityType
  <2>6. Ids # Reliable
    BY <1>5, <2>3, <2>4, <2>5 DEF IdsAssumption
  <2>7. PICK n \in Reliable : n \notin Ids
    BY <1>1, <2>6
  <2>8. n \in Unused
    BY <1>1, <1>2, <2>7
  <2>9. GetUnusedTaskId \in Unused /\ GetUnusedTaskId <= n
    BY <1>3, <2>8
  <2> QED
    BY <1>1, <2>7, <2>9 DEF Reliable, IdsAssumption, MaxId
<1> QED
  BY <1>4, <1>5

-----------------------------------------------------------------------------
(* What bse and bcl do to the bits of the IDs in use.                      *)
LEMMA MarksItself ==
  ASSUME IdsAssumption, NEW n \in Reliable
  PROVE  /\ n \in OneShifted(n, WORD) /\ OneShifted(n, WORD) \subseteq 0 .. MaxId
         /\ OneShifted(n, WORD) \cap Reliable = {n}
         /\ n < IntBits - 1 => OneShifted(n, WORD) = {n}
         /\ n = IntBits - 1 => OneShifted(n, WORD) = n .. MaxId
BY DEF IdsAssumption, Reliable, MaxId, OneShifted

LEMMA StartKeeps ==
  ASSUME IdsAssumption, IdsInv, NEW p \in Program, Start(p)
  PROVE  IdsInv'
<1> DEFINE n == GetUnusedTaskId
<1>1. n \in Reliable /\ n \notin Ids
  BY NextUnused DEF Start
<1>2. /\ n \in OneShifted(n, WORD) /\ OneShifted(n, WORD) \subseteq 0 .. MaxId
      /\ OneShifted(n, WORD) \cap Reliable = {n}
      /\ n < IntBits - 1 => OneShifted(n, WORD) = {n}
      /\ n = IntBits - 1 => OneShifted(n, WORD) = n .. MaxId
  BY <1>1, MarksItself
<1>3. /\ id' = [id EXCEPT ![p] = n]
      /\ task_id_bitmap' = task_id_bitmap \cup OneShifted(n, WORD)
      /\ p \notin Running /\ Cardinality(Running) < MaxRunning
  BY DEF Start
<1> HIDE DEF n
<1>4. Running' = Running \cup {p}
  BY <1>1, <1>3 DEF Running, IdsInv, Reliable, IdsAssumption
<1>5. Ids' = Ids \cup {n}
  BY <1>3, <1>4 DEF Ids, IdsInv, Running
<1>6. Cardinality(Running)' <= MaxRunning
  <2>1. IsFiniteSet(Running)
    BY FS_Subset DEF Running, IdsAssumption
  <2>2. Cardinality(Running \cup {p}) = Cardinality(Running) + 1
    BY <1>3, <2>1, FS_AddElement
  <2> QED
    BY <1>3, <1>4, <2>1, <2>2, FS_CardinalityType DEF IdsAssumption
<1>7. task_id_bitmap' \subseteq 0 .. MaxId
  BY <1>2, <1>3 DEF IdsInv
<1>8. id' \in [Program -> Reliable \cup {NotRunning}]
  BY <1>1, <1>3 DEF IdsInv
<1>9. \A q, r \in Running' : id'[q] = id'[r] => q = r
  BY <1>1, <1>3, <1>4 DEF IdsInv, Ids, Running
<1>10. \A k \in Reliable : k \in task_id_bitmap' <=> k \in Ids'
  BY <1>2, <1>3, <1>5 DEF IdsInv
<1>11. \A k \in task_id_bitmap' : k >= IntBits - 1 => IntBits - 1 \in task_id_bitmap'
  BY <1>1, <1>2, <1>3 DEF IdsInv, Reliable, IdsAssumption
<1> QED
  BY <1>6, <1>7, <1>8, <1>9, <1>10, <1>11 DEF IdsInv

LEMMA EndKeeps ==
  ASSUME IdsAssumption, IdsInv, NEW p \in Program, End(p)
  PROVE  IdsInv'
<1> DEFINE n == id[p]
<1>1. n \in Reliable /\ p \in Running
  BY DEF End, Running, IdsInv
<1>2. /\ n \in OneShifted(n, WORD)
      /\ OneShifted(n, WORD) \cap Reliable = {n}
      /\ n < IntBits - 1 => OneShifted(n, WORD) = {n}
      /\ n = IntBits - 1 => OneShifted(n, WORD) = n .. MaxId
  BY <1>1, MarksItself
<1>3. /\ id' = [id EXCEPT ![p] = NotRunning]
      /\ task_id_bitmap' = task_id_bitmap \ OneShifted(n, WORD)
  BY DEF End
<1>4. Running' = Running \ {p}
  BY <1>1, <1>3 DEF Running, IdsInv
<1>5. Ids' = Ids \ {n}
  BY <1>1, <1>3, <1>4 DEF Ids, IdsInv, Running
<1>6. Cardinality(Running)' <= MaxRunning
  <2>1. IsFiniteSet(Running)
    BY FS_Subset DEF Running, IdsAssumption
  <2>2. Cardinality(Running \ {p}) <= Cardinality(Running)
    BY <2>1, FS_Subset
  <2>3. Cardinality(Running \ {p}) \in Nat /\ Cardinality(Running) \in Nat
    BY <2>1, FS_Subset, FS_CardinalityType
  <2> QED
    BY <1>4, <2>2, <2>3 DEF IdsInv, IdsAssumption
<1>7. task_id_bitmap' \subseteq 0 .. MaxId
  BY <1>3 DEF IdsInv
<1>8. id' \in [Program -> Reliable \cup {NotRunning}]
  BY <1>3 DEF IdsInv
<1>9. \A q, r \in Running' : id'[q] = id'[r] => q = r
  BY <1>3, <1>4 DEF IdsInv, Running
<1> HIDE DEF n
<1>10. \A k \in Reliable : k \in task_id_bitmap' <=> k \in Ids'
  BY <1>2, <1>3, <1>5 DEF IdsInv
<1>11. \A k \in task_id_bitmap' : k >= IntBits - 1 => IntBits - 1 \in task_id_bitmap'
  <2>1. n < IntBits - 1 \/ n = IntBits - 1
    BY <1>1 DEF Reliable, IdsAssumption
  <2> QED
    BY <1>2, <1>3, <2>1 DEF IdsInv, IdsAssumption, Reliable, MaxId
<1> QED
  BY <1>6, <1>7, <1>8, <1>9, <1>10, <1>11 DEF IdsInv

-----------------------------------------------------------------------------
(* With at most IntBits - 1 programs, 15 on the AVR, get_unused_task_id    *)
(* returns an ID that no running program has, or zero when there is none.  *)
THEOREM IdsReliable ==
  ASSUME IdsAssumption
  PROVE  Spec => []ReturnsUnused
<1>1. Init => IdsInv
  <2> SUFFICES ASSUME Init PROVE IdsInv
    OBVIOUS
  <2>1. Running = {} /\ Ids = {}
    BY DEF Init, Running, Ids
  <2> QED
    BY <2>1, FS_EmptySet DEF Init, IdsInv, IdsAssumption
<1>2. IdsInv /\ [Next]_vars => IdsInv'
  <2> SUFFICES ASSUME IdsInv, [Next]_vars PROVE IdsInv'
    OBVIOUS
  <2>1. ASSUME NEW p \in Program, Start(p) PROVE IdsInv'
    BY <2>1, StartKeeps
  <2>2. ASSUME NEW p \in Program, End(p) PROVE IdsInv'
    BY <2>2, EndKeeps
  <2>3. CASE UNCHANGED vars
    BY <2>3 DEF vars, IdsInv, Running, Ids
  <2> QED
    BY <2>1, <2>2, <2>3 DEF Next
<1>3. IdsInv => ReturnsUnused
  BY NextUnused
<1> QED
  BY <1>1, <1>2, <1>3, PTL DEF Spec
=============================================================================
