------------------------------- MODULE TaskIds -------------------------------
(***************************************************************************)
(* The bitmap of task IDs of kernel/task.asm at the level of the           *)
(* instructions bse, bcl and bts, whose 1 << n is an int (Alu).  Tasks     *)
(* takes the bitmap for a set of IDs; this module says when it is one.     *)
(***************************************************************************)
EXTENDS Alu, FiniteSets

CONSTANTS Program,     \* the program runs that may be launched
          NotRunning,
          MaxRunning   \* programs that run at the same time

WORD == 4
MaxId == Width(WORD) - 1

VARIABLES task_id_bitmap,  \* the bits that are set
          id               \* the ID of each program

vars == <<task_id_bitmap, id>>

Running == {p \in Program : id[p] # NotRunning}
Ids == {id[p] : p \in Running}

Init ==
  /\ task_id_bitmap = {}
  /\ id = [p \in Program |-> NotRunning]

(* bts [task_id_bitmap], r0                                                *)
IsUnused(n) == OneShifted(n, WORD) \cap task_id_bitmap = {}

Unused == {n \in 1 .. MaxId : IsUnused(n)}
GetUnusedTaskId ==
  IF Unused = {} THEN 0 ELSE CHOOSE n \in Unused : \A o \in Unused : n <= o

(* new_task: bse [task_id_bitmap], r0                                      *)
Start(p) ==
  /\ p \notin Running /\ Cardinality(Running) < MaxRunning
  /\ id' = [id EXCEPT ![p] = GetUnusedTaskId]
  /\ task_id_bitmap' = task_id_bitmap \cup OneShifted(GetUnusedTaskId, WORD)

(* end_current_task: bcl [task_id_bitmap], r2                              *)
End(p) ==
  /\ p \in Running
  /\ id' = [id EXCEPT ![p] = NotRunning]
  /\ task_id_bitmap' = task_id_bitmap \ OneShifted(id[p], WORD)

Next == \E p \in Program : Start(p) \/ End(p)

Spec == Init /\ [][Next]_vars

-----------------------------------------------------------------------------
(* "get the next unused task ID, starting at 1 ... task ID, or zero if all *)
(* IDs are used" (task.asm): no running program has the ID returned.       *)
ReturnsUnused ==
  IF 1 .. MaxId \subseteq Ids THEN GetUnusedTaskId = 0
  ELSE GetUnusedTaskId \in (1 .. MaxId) \ Ids

-----------------------------------------------------------------------------
(* Why it holds while no more programs run than an int has value bits: the *)
(* last of these IDs marks itself and all above it, and those above mark   *)
(* nothing.                                                                *)
Reliable == 1 .. IntBits - 1

IdsInv ==
  /\ task_id_bitmap \subseteq 0 .. MaxId
  /\ id \in [Program -> Reliable \cup {NotRunning}]
  /\ Cardinality(Running) <= MaxRunning
  /\ \A p, q \in Running : id[p] = id[q] => p = q
  /\ \A n \in Reliable : n \in task_id_bitmap <=> n \in Ids
  /\ \A n \in task_id_bitmap : n >= IntBits - 1 => IntBits - 1 \in task_id_bitmap
=============================================================================
