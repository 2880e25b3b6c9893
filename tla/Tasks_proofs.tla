---------------------------- MODULE Tasks_proofs ----------------------------
(***************************************************************************)
(* The invariants of Tasks for every number of programs, task IDs, queue   *)
(* entries and heap blocks.                                                *)
(*                                                                         *)
(* The queue and the running task are seen as one row, TaskAt(0) to        *)
(* TaskAt(task_queue_ptr).  The first three lemmas say how a switch moves  *)
(* the row: yield_task turns it by one place, new_task puts the new task   *)
(* before the running one and turns it, the end of a task takes it out.    *)
(* What the invariants say depends on the set of tasks in the row only,    *)
(* so each action needs to be looked at for what it adds or removes.       *)
(***************************************************************************)
EXTENDS Tasks, FiniteSetTheorems, SequenceTheorems, WellFoundedInduction, TLAPS

Distinct == \A c, d \in Place : TaskAt(c).thread = TaskAt(d).thread => c = d

TypeOKQueue ==
  /\ queue \in [Cell -> Task]
  /\ task_queue_ptr \in Cell
  /\ current_task \in Task
  /\ starved \in BOOLEAN

(* The task that main.asm takes out of the queue without giving back its   *)
(* ID has the ID zero.                                                     *)
KernelHasZero == \A a \in Live : a.thread = Kernel => a.id = 0

IInv == TypeOK /\ NoTaskLost /\ (Careful => IdsAgree) /\ BlocksOwned /\ KernelHasZero

-----------------------------------------------------------------------------
LEMMA FirstIsLowest ==
  ASSUME NEW S \in SUBSET Nat
  PROVE  /\ S = {} => First(S) = 0
         /\ S # {} => First(S) \in S
<1>1. ASSUME S # {}
      PROVE  \E i \in S : \A m \in S : i <= m
  <2>1. PICK i \in S : \A m \in S : <<m, i>> \notin OpToRel(<, Nat)
    BY <1>1, NatLessThanWellFounded, WFMin
  <2>2. ASSUME NEW l \in Nat, NEW m \in Nat, l < m
        PROVE  <<l, m>> \in OpToRel(<, Nat)
    BY <2>2, Zenon DEF OpToRel
  <2>3. \A m \in S : ~ (m < i)
    BY <2>1, <2>2, Zenon
  <2> QED
    BY <2>3
<1> QED
  BY <1>1 DEF First

(* yield_task turns the row.                                               *)
LEMMA YieldMoves ==
  ASSUME NEW n, n = task_queue_ptr, TypeOK, ~starved, YieldTask, UNCHANGED starved
  PROVE  /\ task_queue_ptr' = n
         /\ \A c \in 0 .. n - 1 : TaskAt(c)' = TaskAt(c + 1)
         /\ TaskAt(n)' = TaskAt(0)
         /\ queue' \in [Cell -> Task] /\ current_task' \in Task
<1>1. n \in Cell /\ n \in Nat /\ 0 \in Cell /\ \A c \in 0 .. n : c \in Cell
  BY TasksAssumption DEF TypeOK, Cell
<1> DEFINE q == Store(queue, n, current_task)
<1>2. /\ q \in [Cell -> Task]
      /\ \A c \in 0 .. n : q[c] = TaskAt(c)
  BY <1>1 DEF Store, TypeOK, TaskAt
<1>3. /\ current_task' = q[0]
      /\ queue' = [c \in Cell |-> IF c + 1 < n + 1 THEN q[c + 1] ELSE q[c]]
      /\ task_queue_ptr' = n
  BY <1>1 DEF YieldTask, RunNext, Shift
<1>4. \A c \in Cell : c + 1 < n + 1 => c + 1 \in Cell
  BY <1>1, TasksAssumption DEF Cell
<1>5. queue' \in [Cell -> Task] /\ current_task' \in Task
  BY <1>1, <1>2, <1>3, <1>4
<1>6. ASSUME NEW c \in 0 .. n - 1
      PROVE  TaskAt(c)' = TaskAt(c + 1)
  BY <1>1, <1>2, <1>3, c \in Cell, c # n DEF TaskAt
<1>7. TaskAt(n)' = TaskAt(0)
  BY <1>1, <1>2, <1>3 DEF TaskAt
<1> QED
  BY <1>3, <1>5, <1>6, <1>7

(* new_task puts its task before the running one, and turns the row.       *)
LEMMA NewTaskMoves ==
  ASSUME NEW n, n = task_queue_ptr, TypeOK, ~starved, NEW x \in Task,
         NewTask(x), UNCHANGED starved, n + 2 <= NCells
  PROVE  /\ task_queue_ptr' = n + 1
         /\ \A c \in 0 .. n - 2 : TaskAt(c)' = TaskAt(c + 1)
         /\ n > 0 => TaskAt(n - 1)' = x
         /\ n = 0 => TaskAt(1)' = x /\ TaskAt(0)' = current_task
         /\ n > 0 => TaskAt(n)' = current_task /\ TaskAt(n + 1)' = TaskAt(0)
         /\ queue' \in [Cell -> Task] /\ current_task' \in Task
         /\ task_queue_ptr' \in Cell
<1>1. n \in Cell /\ n \in Nat /\ n + 1 \in Cell /\ \A c \in 0 .. n + 1 : c \in Cell
  BY TasksAssumption DEF TypeOK, Cell
<1> DEFINE q == Store(Store(queue, n, x), n + 1, current_task)
<1>2. /\ q \in [Cell -> Task]
      /\ \A c \in 0 .. n - 1 : q[c] = queue[c]
      /\ q[n] = x /\ q[n + 1] = current_task
  BY <1>1 DEF Store, TypeOK
<1>3. /\ current_task' = q[0]
      /\ queue' = [c \in Cell |-> IF c + 1 < n + 2 THEN q[c + 1] ELSE q[c]]
      /\ task_queue_ptr' = n + 1
  BY <1>1 DEF NewTask, RunNext, Shift
<1>4. \A c \in Cell : c + 1 < n + 2 => c + 1 \in Cell
  BY <1>1, TasksAssumption DEF Cell
<1>5. queue' \in [Cell -> Task] /\ current_task' \in Task /\ task_queue_ptr' \in Cell
  BY <1>1, <1>2, <1>3, <1>4
<1> HIDE DEF q
<1>6. \A c \in 0 .. n : queue'[c] = q[c + 1]
  BY <1>1, <1>3
<1>7. /\ \A c \in 0 .. n - 2 : TaskAt(c)' = TaskAt(c + 1)
      /\ n > 0 => TaskAt(n - 1)' = x
      /\ n = 0 => TaskAt(1)' = x /\ TaskAt(0)' = current_task
      /\ n > 0 => TaskAt(n)' = current_task /\ TaskAt(n + 1)' = TaskAt(0)
  BY <1>1, <1>2, <1>3, <1>6 DEF TaskAt
<1> QED
  BY <1>3, <1>5, <1>7

(* The end of a task takes it out of the row.                              *)
LEMMA EndMoves ==
  ASSUME NEW n, n = task_queue_ptr, TypeOK, ~starved, SwitchAway
  PROVE  /\ starved' => n = 0 /\ UNCHANGED queueVars
         /\ ~starved' =>
              /\ n > 0
              /\ task_queue_ptr' = n - 1
              /\ \A c \in 0 .. n - 2 : TaskAt(c)' = TaskAt(c + 1)
              /\ TaskAt(n - 1)' = TaskAt(0)
         /\ starved' \in BOOLEAN
         /\ queue' \in [Cell -> Task] /\ current_task' \in Task
         /\ task_queue_ptr' \in Cell
<1>1. n \in Cell /\ n \in Nat /\ 0 \in Cell /\ \A c \in 0 .. n : c \in Cell
  BY TasksAssumption DEF TypeOK, Cell
<1>2. CASE n = 0
  BY <1>2 DEF SwitchAway, TypeOK, queueVars
<1>3. CASE n # 0
  <2>1. /\ current_task' = queue[0]
        /\ queue' = [c \in Cell |-> IF c + 1 < n THEN queue[c + 1] ELSE queue[c]]
        /\ task_queue_ptr' = n - 1
        /\ starved' = starved
    BY <1>1, <1>3 DEF SwitchAway, RunNext, Shift
  <2>2. \A c \in Cell : c + 1 < n => c + 1 \in Cell
    BY <1>1, TasksAssumption DEF Cell
  <2>3. /\ queue' \in [Cell -> Task] /\ current_task' \in Task
        /\ task_queue_ptr' \in Cell
    BY <1>1, <1>3, <2>1, <2>2, TasksAssumption DEF TypeOK, Cell
  <2>4. \A c \in 0 .. n - 2 : queue'[c] = queue[c + 1]
    BY <1>1, <2>1
  <2>5. /\ \A c \in 0 .. n - 2 : TaskAt(c)' = TaskAt(c + 1)
        /\ TaskAt(n - 1)' = TaskAt(0)
    BY <1>1, <1>3, <2>1, <2>4 DEF TaskAt
  <2> QED
    BY <1>1, <1>3, <2>1, <2>3, <2>5 DEF TypeOK
<1> QED
  BY <1>2, <1>3

-----------------------------------------------------------------------------
(* What a switch leaves of the set of tasks.                               *)
LEMMA YieldKeeps ==
  ASSUME TypeOK, ~starved, YieldTask, UNCHANGED starved, Distinct
  PROVE  Live' = Live /\ Distinct' /\ TypeOKQueue'
<1> PICK n : n = task_queue_ptr
  OBVIOUS
<1>1. n \in Nat
  BY TasksAssumption DEF TypeOK, Cell
<1>2. /\ task_queue_ptr' = n
      /\ \A c \in 0 .. n - 1 : TaskAt(c)' = TaskAt(c + 1)
      /\ TaskAt(n)' = TaskAt(0)
      /\ queue' \in [Cell -> Task] /\ current_task' \in Task
  BY YieldMoves
<1>3. Place = 0 .. n /\ Place' = 0 .. n
  BY <1>2 DEF Place
<1>4. Live' \subseteq Live
  BY <1>1, <1>2, <1>3 DEF Live
<1>5. ASSUME NEW c \in 0 .. n
      PROVE  TaskAt(c) \in Live'
  <2>1. CASE c = 0
    BY <1>1, <1>2, <1>3, <2>1 DEF Live
  <2>2. CASE c # 0
    BY <1>1, <1>2, <1>3, <2>2, c - 1 \in 0 .. n - 1, c - 1 + 1 = c DEF Live
  <2> QED
    BY <2>1, <2>2
<1>6. Live' = Live
  BY <1>3, <1>4, <1>5 DEF Live
<1>7. Distinct'
  BY <1>1, <1>2, <1>3 DEF Distinct
<1> QED
  BY <1>2, <1>6, <1>7 DEF TypeOKQueue, TypeOK

LEMMA NewTaskAdds ==
  ASSUME TypeOK, ~starved, NEW x \in Task, NewTask(x), UNCHANGED starved,
         task_queue_ptr + 2 <= NCells, Distinct, \A a \in Live : a.thread # x.thread
  PROVE  Live' = Live \cup {x} /\ Distinct' /\ TypeOKQueue'
<1> PICK n : n = task_queue_ptr
  OBVIOUS
<1>1. n \in Nat
  BY TasksAssumption DEF TypeOK, Cell
<1>2. /\ task_queue_ptr' = n + 1
      /\ \A c \in 0 .. n - 2 : TaskAt(c)' = TaskAt(c + 1)
      /\ n > 0 => TaskAt(n - 1)' = x
      /\ n = 0 => TaskAt(1)' = x /\ TaskAt(0)' = current_task
      /\ n > 0 => TaskAt(n)' = current_task /\ TaskAt(n + 1)' = TaskAt(0)
      /\ queue' \in [Cell -> Task] /\ current_task' \in Task
      /\ task_queue_ptr' \in Cell
  BY NewTaskMoves
<1>3. Place = 0 .. n /\ Place' = 0 .. n + 1 /\ TaskAt(n) = current_task
  BY <1>2 DEF Place, TaskAt
<1>4. Live' \subseteq Live \cup {x}
  BY <1>1, <1>2, <1>3 DEF Live
<1>5. ASSUME NEW c \in 0 .. n
      PROVE  TaskAt(c) \in Live'
  <2>1. CASE c = 0
    BY <1>1, <1>2, <1>3, <2>1 DEF Live
  <2>2. CASE c # 0 /\ c # n
    BY <1>1, <1>2, <1>3, <2>2, c - 1 \in 0 .. n - 2, c - 1 + 1 = c DEF Live
  <2>3. CASE c # 0 /\ c = n
    BY <1>1, <1>2, <1>3, <2>3 DEF Live
  <2> QED
    BY <2>1, <2>2, <2>3
<1>6. x \in Live'
  BY <1>1, <1>2, <1>3 DEF Live
<1>7. Live' = Live \cup {x}
  BY <1>3, <1>4, <1>5, <1>6 DEF Live
<1>8. \A c \in 0 .. n : TaskAt(c).thread # x.thread
  BY <1>3 DEF Live
<1>9. Distinct'
  <2>1. CASE n = 0
    BY <1>1, <1>2, <1>3, <1>8, <2>1 DEF Distinct
  <2>2. CASE n > 0
    <3> DEFINE old(c) == IF c = n THEN n ELSE IF c = n + 1 THEN 0 ELSE c + 1
    <3>1. \A c \in 0 .. n + 1 : c # n - 1 => TaskAt(c)' = TaskAt(old(c)) /\ old(c) \in 0 .. n
      BY <1>1, <1>2, <1>3, <2>2
    <3>2. \A c, d \in 0 .. n + 1 : c # n - 1 /\ d # n - 1 /\ old(c) = old(d) => c = d
      BY <1>1, <2>2
    <3>3. TaskAt(n - 1)' = x
      BY <1>2, <2>2
    <3> HIDE DEF old
    <3>4. ASSUME NEW c \in 0 .. n + 1, NEW d \in 0 .. n + 1,
                 TaskAt(c)'.thread = TaskAt(d)'.thread
          PROVE  c = d
      BY <1>3, <1>8, <3>1, <3>2, <3>3, <3>4 DEF Distinct
    <3> QED
      BY <1>3, <3>4 DEF Distinct
  <2> QED
    BY <1>1, <2>1, <2>2
<1> QED
  BY <1>2, <1>7, <1>9 DEF TypeOKQueue, TypeOK

LEMMA EndRemoves ==
  ASSUME TypeOK, ~starved, SwitchAway, Distinct
  PROVE  Live' = Live \ {current_task} /\ Distinct' /\ TypeOKQueue'
<1> PICK n : n = task_queue_ptr
  OBVIOUS
<1>1. n \in Nat
  BY TasksAssumption DEF TypeOK, Cell
<1>2. /\ starved' => n = 0 /\ UNCHANGED queueVars
      /\ ~starved' =>
           /\ n > 0
           /\ task_queue_ptr' = n - 1
           /\ \A c \in 0 .. n - 2 : TaskAt(c)' = TaskAt(c + 1)
           /\ TaskAt(n - 1)' = TaskAt(0)
      /\ starved' \in BOOLEAN
      /\ queue' \in [Cell -> Task] /\ current_task' \in Task
      /\ task_queue_ptr' \in Cell
  BY EndMoves
<1>3. Place = 0 .. n /\ TaskAt(n) = current_task
  BY DEF Place, TaskAt
<1>4. CASE starved'
  <2>1. n = 0 /\ Place' = {}
    BY <1>2, <1>4 DEF Place
  <2>2. Live' = {} /\ Live = {current_task}
    BY <1>3, <2>1 DEF Live
  <2> QED
    BY <1>2, <2>1, <2>2 DEF TypeOKQueue, Distinct
<1>5. CASE ~starved'
  <2>1. Place' = 0 .. n - 1
    BY <1>2, <1>5 DEF Place
  <2>2. \A c \in 0 .. n - 1 : TaskAt(c) # current_task
    BY <1>1, <1>3 DEF Distinct
  <2>3. Live' \subseteq Live \ {current_task}
    BY <1>1, <1>2, <1>3, <1>5, <2>1, <2>2 DEF Live
  <2>4. ASSUME NEW c \in 0 .. n - 1
        PROVE  TaskAt(c) \in Live'
    <3>1. CASE c = 0
      BY <1>1, <1>2, <1>5, <2>1, <3>1 DEF Live
    <3>2. CASE c # 0
      BY <1>1, <1>2, <1>5, <2>1, <3>2, c - 1 \in 0 .. n - 2, c - 1 + 1 = c DEF Live
    <3> QED
      BY <3>1, <3>2
  <2>5. \A c \in 0 .. n : TaskAt(c) = current_task \/ c \in 0 .. n - 1
    BY <1>1, <1>3
  <2>6. Live' = Live \ {current_task}
    BY <1>3, <2>3, <2>4, <2>5 DEF Live
  <2>7. Distinct'
    BY <1>1, <1>2, <1>3, <1>5, <2>1 DEF Distinct
  <2> QED
    BY <1>2, <2>6, <2>7 DEF TypeOKQueue
<1> QED
  BY <1>2, <1>4, <1>5

-----------------------------------------------------------------------------
(* The running task is one of them, and a task keeps its place for good:   *)
(* the number of tasks is bounded by what tells them apart.                *)
LEMMA RunningIsLive ==
  ASSUME TypeOK, ~starved
  PROVE  current_task \in Live /\ Live \subseteq Task
<1> PICK n : n = task_queue_ptr
  OBVIOUS
<1>1. n \in Nat /\ \A c \in 0 .. n : c \in Cell
  BY TasksAssumption DEF TypeOK, Cell
<1>2. TaskAt(n) = current_task /\ Place = 0 .. n
  BY DEF TaskAt, Place
<1>3. \A c \in 0 .. n : TaskAt(c) \in Task
  BY <1>1 DEF TaskAt, TypeOK
<1> QED
  BY <1>1, <1>2, <1>3 DEF Live

LEMMA NoMoreThan ==
  ASSUME NEW S, IsFiniteSet(S), NEW n \in Nat, NEW name \in [0 .. n -> S],
         \A c, d \in 0 .. n : name[c] = name[d] => c = d
  PROVE  n + 1 <= Cardinality(S)
<1>1. name \in Injection(0 .. n, S)
  BY DEF Injection, IsInjective
<1>2. Cardinality(0 .. n) <= Cardinality(S)
  BY <1>1, FS_Injection
<1> QED
  BY <1>2, FS_Interval

LEMMA ThreadsFinite == IsFiniteSet(Thread) /\ Cardinality(Thread) <= NCells
<1>1. /\ IsFiniteSet(Program \cup {Kernel})
      /\ Cardinality(Program \cup {Kernel}) = Cardinality(Program) + 1
  BY TasksAssumption, FS_AddElement
<1> QED
  BY <1>1, TasksAssumption DEF Thread

(* While a program has not begun there is room for two more entries.       *)
LEMMA RoomForTwo ==
  ASSUME IInv, ~starved, NEW p \in Program, state[p] = "unborn"
  PROVE  task_queue_ptr + 2 <= NCells /\ \A a \in Live : a.thread # p
<1> PICK n : n = task_queue_ptr
  OBVIOUS
<1>1. n \in Nat /\ Place = 0 .. n
  BY TasksAssumption DEF IInv, TypeOK, Cell, Place
<1>2. p \in Thread
  BY DEF Thread
<1>3. \A a \in Live : a.thread # p
  BY <1>2 DEF IInv, NoTaskLost, Alive
<1> DEFINE name == [c \in 0 .. n |-> TaskAt(c).thread]
<1>4. name \in [0 .. n -> Thread \ {p}]
  BY <1>1, <1>3, RunningIsLive DEF IInv, Live, Task
<1>5. \A c, d \in 0 .. n : name[c] = name[d] => c = d
  BY <1>1 DEF IInv, NoTaskLost
<1>6. IsFiniteSet(Thread \ {p}) /\ Cardinality(Thread \ {p}) = Cardinality(Thread) - 1
  BY <1>2, ThreadsFinite, FS_RemoveElement
<1>7. n + 1 <= Cardinality(Thread \ {p})
  BY <1>1, <1>4, <1>5, <1>6, NoMoreThan
<1>8. Cardinality(Thread) \in Nat /\ NCells \in Nat
  BY ThreadsFinite, FS_CardinalityType, TasksAssumption
<1> QED
  BY <1>1, <1>3, <1>6, <1>7, <1>8, ThreadsFinite

(* While an ID is unused there is room for two more of QueueSize entries;  *)
(* and there is always room for the running task.                          *)
LEMMA RoomInQueue ==
  ASSUME IInv, Careful, ~starved
  PROVE  /\ task_queue_ptr < QueueSize
         /\ UnusedIds # {} => task_queue_ptr + 1 < QueueSize
<1> PICK n : n = task_queue_ptr
  OBVIOUS
<1>1. n \in Nat /\ Place = 0 .. n
  BY TasksAssumption DEF IInv, TypeOK, Cell, Place
<1>2. IdsAgree
  BY DEF IInv
<1> DEFINE id == [c \in 0 .. n |-> TaskAt(c).id]
<1>3. id \in [0 .. n -> TaskId]
  BY <1>1, RunningIsLive DEF IInv, Live, Task
<1>4. \A c, d \in 0 .. n : id[c] = id[d] => c = d
  BY <1>1, <1>2 DEF IInv, NoTaskLost, IdsAgree, Live
<1>5. IsFiniteSet(TaskId) /\ Cardinality(TaskId) = MaxId + 1
  BY FS_Interval, TasksAssumption DEF TaskId
<1> HIDE DEF id
<1>6. n + 1 <= MaxId + 1
  BY <1>1, <1>3, <1>4, <1>5, NoMoreThan
<1>7. ASSUME UnusedIds # {}
      PROVE  n + 1 <= MaxId
  <2>1. PICK i : i \in 1 .. MaxId /\ i \notin task_id_bitmap
    BY <1>7 DEF UnusedIds
  <2>2. \A c \in 0 .. n : id[c] # i
    BY <1>1, <1>2, <2>1 DEF IdsAgree, Live, id
  <2>3. id \in [0 .. n -> TaskId \ {i}]
    BY <1>3, <2>2
  <2>4. i \in TaskId
    BY <2>1, TasksAssumption DEF TaskId
  <2>5. IsFiniteSet(TaskId \ {i}) /\ Cardinality(TaskId \ {i}) = MaxId
    <3>1. MaxId \in Nat
      BY TasksAssumption
    <3> QED
      BY <1>5, <2>4, <3>1, FS_RemoveElement
  <2> QED
    BY <1>1, <1>4, <2>3, <2>5, NoMoreThan
<1> QED
  BY <1>1, <1>6, <1>7, TasksAssumption

-----------------------------------------------------------------------------
(* The invariant after a step that keeps the tasks, adds one, or removes   *)
(* the running one.                                                        *)
TypeOKRest ==
  /\ task_id_bitmap \subseteq TaskId
  /\ free \subseteq Block
  /\ launch_fxf_task_id \in TaskId
  /\ state \in [Thread -> {"unborn", "startup", "startup_error", "ready",
                           "launching", "waiting", "asleep", "messagebox",
                           "memory_error", "ended"}]
  /\ made \in [Thread -> TaskId]
  /\ child \in [Thread -> Thread]
  /\ r0 \in [Thread -> TaskId \cup {None}]

LEMMA SplitType == TypeOK <=> TypeOKQueue /\ TypeOKRest
  BY DEF TypeOK, TypeOKQueue, TypeOKRest

LEMMA SplitTypeNext == TypeOK' <=> TypeOKQueue' /\ TypeOKRest'
  BY DEF TypeOK, TypeOKQueue, TypeOKRest

LEMMA SameTasks ==
  ASSUME IInv, Live' = Live, Distinct', TypeOKQueue', TypeOKRest',
         UNCHANGED task_id_bitmap, free' \subseteq free,
         \A t \in Thread : Alive(t)' <=> Alive(t)
  PROVE  IInv'
<1>1. TypeOK'
  BY SplitTypeNext
<1>2. NoTaskLost'
  BY DEF IInv, NoTaskLost, Distinct
<1>3. Careful => IdsAgree'
  BY DEF IInv, IdsAgree
<1>4. BlocksOwned'
  BY DEF IInv, BlocksOwned
<1>5. KernelHasZero'
  BY DEF IInv, KernelHasZero
<1> QED
  BY <1>1, <1>2, <1>3, <1>4, <1>5 DEF IInv

LEMMA OneTaskMore ==
  ASSUME IInv, NEW x \in Task, Live' = Live \cup {x},
         Distinct', TypeOKQueue', TypeOKRest',
         x.thread \in Program, state[x.thread] = "unborn", state'[x.thread] = "ready",
         \A t \in Thread \ {x.thread} : Alive(t)' <=> Alive(t),
         Careful => x.id \in UnusedIds, task_id_bitmap' = task_id_bitmap \cup {x.id},
         x.code \in free, x.stack \in free, x.code # x.stack,
         free' = free \ {x.code, x.stack}
  PROVE  IInv'
<1>1. TypeOK'
  BY SplitTypeNext
<1>2. NoTaskLost'
  <2>1. ASSUME NEW t \in Thread
        PROVE  Alive(t)' <=> \E a \in Live' : a.thread = t
    <3>1. CASE t = x.thread
      BY <3>1 DEF Alive
    <3>2. CASE t # x.thread
      BY <3>2 DEF IInv, NoTaskLost
    <3> QED
      BY <3>1, <3>2
  <2> QED
    BY <2>1 DEF NoTaskLost, Distinct
<1>3. Careful => IdsAgree'
  <2> SUFFICES ASSUME Careful
               PROVE  IdsAgree'
    OBVIOUS
  <2>1. IdsAgree /\ x.id \in 1 .. MaxId /\ x.id \notin task_id_bitmap /\ x.id # 0
    BY TasksAssumption DEF IInv, UnusedIds
  <2>2. \A a \in Live : a.id # x.id
    BY <2>1 DEF IdsAgree
  <2> QED
    BY <2>1, <2>2 DEF IdsAgree
<1>4. BlocksOwned'
  <2>1. BlocksOf(x) = {x.code, x.stack}
    BY DEF BlocksOf, IInv, TypeOK, Block
  <2>2. \A a \in Live : BlocksOf(a) \cap BlocksOf(x) = {}
    BY <2>1 DEF IInv, BlocksOwned
  <2>3. \A a, b \in Live' : a # b => BlocksOf(a) \cap BlocksOf(b) = {}
    BY <2>2 DEF IInv, BlocksOwned
  <2>4. \A a \in Live' : BlocksOf(a) \cap free' = {}
    BY <2>1 DEF IInv, BlocksOwned
  <2> QED
    BY <2>3, <2>4 DEF IInv, BlocksOwned
<1>5. KernelHasZero'
  BY TasksAssumption DEF IInv, KernelHasZero
<1> QED
  BY <1>1, <1>2, <1>3, <1>4, <1>5 DEF IInv

LEMMA OneTaskLess ==
  ASSUME IInv, NEW x \in Live, Live' = Live \ {x},
         Distinct', TypeOKQueue', TypeOKRest',
         x.thread \in Thread, state'[x.thread] = "ended",
         \A t \in Thread \ {x.thread} : Alive(t)' <=> Alive(t),
         \/ task_id_bitmap' = task_id_bitmap \ {x.id}
         \/ x.id = 0 /\ UNCHANGED task_id_bitmap,
         free' \subseteq free \cup BlocksOf(x)
  PROVE  IInv'
<1>1. TypeOK'
  BY SplitTypeNext
<1>2. NoTaskLost'
  <2>1. ASSUME NEW a \in Live, a.thread = x.thread
        PROVE  a = x
    BY <2>1 DEF IInv, NoTaskLost, Live
  <2>2. ASSUME NEW t \in Thread
        PROVE  Alive(t)' <=> \E a \in Live' : a.thread = t
    <3>1. CASE t = x.thread
      BY <2>1, <3>1 DEF Alive
    <3>2. CASE t # x.thread
      BY <3>2 DEF IInv, NoTaskLost
    <3> QED
      BY <3>1, <3>2
  <2> QED
    BY <2>2 DEF NoTaskLost, Distinct
<1>3. Careful => IdsAgree'
  BY DEF IInv, IdsAgree
<1>4. BlocksOwned'
  BY DEF IInv, BlocksOwned
<1>5. KernelHasZero'
  BY DEF IInv, KernelHasZero
<1> QED
  BY <1>1, <1>2, <1>3, <1>4, <1>5 DEF IInv

-----------------------------------------------------------------------------
LEMMA InitIInv == Init => IInv
<1> SUFFICES ASSUME Init
             PROVE  IInv
  OBVIOUS
<1>1. KernelTask \in Task /\ 0 \in Cell /\ 0 \in TaskId /\ Kernel \in Thread
  BY TasksAssumption DEF KernelTask, Task, TaskId, Thread, Cell
<1>2. TypeOK
  BY <1>1 DEF Init, TypeOK
<1>3. Place = {0} /\ TaskAt(0) = KernelTask
  BY DEF Init, Place, TaskAt
<1>4. Live = {KernelTask}
  BY <1>3 DEF Live
<1>5. /\ KernelTask.thread = Kernel /\ KernelTask.id = 0
      /\ KernelTask.code = 0 /\ KernelTask.stack = 0
  BY DEF KernelTask
<1>6. NoTaskLost
  BY <1>1, <1>3, <1>4, <1>5, TasksAssumption DEF Init, NoTaskLost, Alive, Thread
<1>7. IdsAgree /\ BlocksOwned /\ KernelHasZero
  BY <1>4, <1>5 DEF Init, IdsAgree, BlocksOwned, BlocksOf, KernelHasZero
<1> QED
  BY <1>2, <1>6, <1>7 DEF IInv

LEMMA DistinctNow == IInv => Distinct /\ TypeOK /\ TypeOKRest /\ TypeOKQueue
  BY SplitType DEF IInv, NoTaskLost, Distinct

(* A step that touches neither the queue nor the running task.             *)
LEMMA NoSwitch ==
  ASSUME IInv, UNCHANGED <<queueVars, starved>>
  PROVE  Live' = Live /\ Distinct' /\ TypeOKQueue'
<1>1. Place' = Place /\ \A c : TaskAt(c)' = TaskAt(c)
  BY DEF Place, TaskAt, queueVars
<1>2. Live' = Live /\ Distinct'
  BY <1>1, DistinctNow DEF Live, Distinct
<1> QED
  BY <1>2, DistinctNow DEF TypeOKQueue, queueVars

LEMMA YieldStep ==
  ASSUME IInv, NEW t \in Thread, Yield(t) \/ Spin(t) \/ Sleep(t) \/ ShellWaits(t)
  PROVE  IInv'
<1>1. /\ ~starved /\ YieldTask /\ UNCHANGED <<task_id_bitmap, starved, free, launchVars>>
      /\ \/ state' = state
         \/ state[t] = "ready" /\ state' = [state EXCEPT ![t] = "asleep"]
  <2>1. CASE Yield(t)
    BY <2>1 DEF Yield, Running
  <2>2. CASE Spin(t)
    BY <2>2 DEF Spin, Running
  <2>3. CASE Sleep(t)
    BY <2>3 DEF Sleep, Running
  <2>4. CASE ShellWaits(t)
    BY <2>4 DEF ShellWaits, Running
  <2> QED
    BY <2>1, <2>2, <2>3, <2>4
<1>2. Live' = Live /\ Distinct' /\ TypeOKQueue'
  BY <1>1, DistinctNow, YieldKeeps
<1>3. TypeOKRest'
  BY <1>1, DistinctNow DEF TypeOKRest, launchVars
<1>4. \A u \in Thread : Alive(u)' <=> Alive(u)
  BY <1>1, DistinctNow DEF TypeOKRest, Alive
<1> QED
  BY <1>1, <1>2, <1>3, <1>4, SameTasks

LEMMA EndStep ==
  ASSUME IInv, NEW t \in Thread, End(t)
  PROVE  IInv'
<1> USE DistinctNow
<1>1. /\ ~starved /\ SwitchAway /\ current_task.thread = t /\ UNCHANGED launchVars
      /\ state' = [state EXCEPT ![t] = "ended"]
      /\ task_id_bitmap' = task_id_bitmap \ {current_task.id}
      /\ free' = free \cup BlocksOf(current_task)
  BY DEF End, Running, ClearId, BlocksOfTask
<1>2. Live' = Live \ {current_task} /\ Distinct' /\ TypeOKQueue'
  BY <1>1, EndRemoves
<1>3. BlocksOf(current_task) \subseteq Block
  BY DEF BlocksOf, Block, TypeOK, Task
<1>4. TypeOKRest'
  BY <1>1, <1>3 DEF TypeOKRest, launchVars
<1>5. state'[t] = "ended" /\ \A u \in Thread \ {t} : Alive(u)' <=> Alive(u)
  BY <1>1 DEF TypeOKRest, Alive
<1> PICK x : x = current_task
  OBVIOUS
<1>6. /\ x \in Live /\ x.thread = t /\ Live' = Live \ {x}
      /\ task_id_bitmap' = task_id_bitmap \ {x.id} /\ free' \subseteq free \cup BlocksOf(x)
  BY <1>1, <1>2, RunningIsLive
<1> QED
  BY <1>2, <1>4, <1>5, <1>6, OneTaskLess

LEMMA StartStep ==
  ASSUME IInv, NEW t \in Thread, NEW p \in Program, NEW s,
         s \in {"launching", "waiting", "ready"}, StartTask(t, p, s),
         ~starved, current_task.thread = t,
         launch_fxf_task_id' \in TaskId, r0' = [r0 EXCEPT ![t] = None],
         Alive(t)
  PROVE  IInv'
<1> USE DistinctNow
<1> DEFINE x == [id |-> GetUnusedTaskId, thread |-> p, code |-> Code, stack |-> Stack]
<1>1. /\ state[p] = "unborn" /\ Code # 0 /\ Stack # 0
      /\ Careful => UnusedIds # {}
      /\ free' = free \ {Code, Stack}
      /\ NewTask(x)
      /\ made' = [made EXCEPT ![t] = GetUnusedTaskId]
      /\ child' = [child EXCEPT ![t] = p]
      /\ state' = [state EXCEPT ![t] = s, ![p] = "ready"]
      /\ UNCHANGED starved
  BY DEF StartTask
<1>2. p \in Thread /\ t # p
  BY <1>1 DEF Thread, Alive
<1>3. /\ Code \in free
      /\ Stack \in free \ {Code}
  <2>1. free \subseteq Nat
    BY DEF TypeOK, Block
  <2>2. Code \in free
    BY <1>1, <2>1, FirstIsLowest DEF Code
  <2>3. Stack \in free \ {Code}
    BY <1>1, <2>1, FirstIsLowest DEF Stack
  <2> QED
    BY <2>2, <2>3
<1>4. GetUnusedTaskId \in TaskId /\ (Careful => GetUnusedTaskId \in UnusedIds)
  <2>1. UnusedIds \subseteq Nat /\ UnusedIds \subseteq TaskId /\ 0 \in TaskId
    BY TasksAssumption DEF UnusedIds, TaskId
  <2> QED
    BY <1>1, <2>1, FirstIsLowest DEF GetUnusedTaskId
<1>5. x \in Task
  BY <1>2, <1>3, <1>4 DEF Task, TypeOK, Block
<1>6. x.thread = p /\ x.id = GetUnusedTaskId /\ x.code = Code /\ x.stack = Stack
  OBVIOUS
<1> HIDE DEF x
<1>7. task_queue_ptr + 2 <= NCells /\ \A a \in Live : a.thread # x.thread
  BY <1>1, <1>6, RoomForTwo
<1>8. Live' = Live \cup {x} /\ Distinct' /\ TypeOKQueue'
  BY <1>1, <1>5, <1>7, NewTaskAdds
<1>9. task_id_bitmap' = task_id_bitmap \cup {x.id}
  BY <1>1 DEF NewTask
<1>10. TypeOKRest'
  BY <1>1, <1>2, <1>4, <1>6, <1>9 DEF TypeOKRest
<1>11. /\ state'[p] = "ready"
       /\ \A u \in Thread \ {p} : Alive(u)' <=> Alive(u)
  BY <1>1, <1>2 DEF TypeOKRest, Alive
<1> QED
  BY <1>1, <1>3, <1>4, <1>5, <1>6, <1>8, <1>9, <1>10, <1>11, OneTaskMore

LEMMA LauncherAlive ==
  ASSUME NEW t \in Thread, Launcher(t)
  PROVE  /\ ~starved /\ current_task.thread = t /\ state[t] \in {"startup", "ready"}
         /\ Alive(t)
  BY DEF Launcher, Running, Alive

LEMMA LaunchStep ==
  ASSUME IInv, NEW t \in Thread, Launch(t)
  PROVE  IInv'
<1> USE DistinctNow
<1>1. ASSUME NEW p \in Program, LaunchStarts(t, p)
      PROVE  IInv'
  <2>1. GetUnusedTaskId \in TaskId
    <3>1. UnusedIds \subseteq Nat /\ UnusedIds \subseteq TaskId /\ 0 \in TaskId
      BY TasksAssumption DEF UnusedIds, TaskId
    <3> QED
      BY <3>1, FirstIsLowest DEF GetUnusedTaskId
  <2> QED
    BY <1>1, <2>1, LauncherAlive, StartStep DEF LaunchStarts
<1>2. ASSUME NEW p \in Program, ShellLaunch(t, p)
      PROVE  IInv'
  <2>1. Alive(t) /\ ~starved /\ current_task.thread = t
    BY <1>2 DEF ShellLaunch, Running, Alive
  <2>2. launch_fxf_task_id' \in TaskId /\ r0' = [r0 EXCEPT ![t] = None]
    BY <1>2 DEF ShellLaunch, TypeOKRest
  <2>3. PICK s \in {"waiting", "ready"} : StartTask(t, p, s)
    BY <1>2 DEF ShellLaunch
  <2> QED
    BY <2>1, <2>2, <2>3, StartStep
<1>3. CASE LaunchFails(t)
  <2>1. Live' = Live /\ Distinct' /\ TypeOKQueue'
    BY <1>3, NoSwitch DEF LaunchFails
  <2>2. TypeOKRest'
    BY <1>3 DEF LaunchFails, TypeOKRest
  <2>3. \A u \in Thread : Alive(u)' <=> Alive(u)
    BY <1>3, LauncherAlive DEF LaunchFails, TypeOKRest, Alive
  <2> QED
    BY <1>3, <2>1, <2>2, <2>3, SameTasks DEF LaunchFails
<1>4. CASE LaunchOutOfMemory(t)
  <2>1. /\ ~starved /\ UNCHANGED <<task_id_bitmap, starved, launchVars>>
        /\ free' \subseteq free
        /\ \/ state' = [state EXCEPT ![t] = "messagebox"] /\ YieldTask
           \/ state' = [state EXCEPT ![t] = "memory_error"] /\ UNCHANGED queueVars
    <3>1. ~starved
      BY <1>4, LauncherAlive DEF LaunchOutOfMemory
    <3>2. PICK taken \in SUBSET free :
            /\ free' = free \ taken
            /\ \/ state' = [state EXCEPT ![t] = "messagebox"] /\ YieldTask
               \/ state' = [state EXCEPT ![t] = "memory_error"] /\ UNCHANGED queueVars
      BY <1>4 DEF LaunchOutOfMemory
    <3> QED
      BY <1>4, <3>1, <3>2 DEF LaunchOutOfMemory
  <2>2. Live' = Live /\ Distinct' /\ TypeOKQueue'
    BY <2>1, NoSwitch, YieldKeeps
  <2>3. TypeOKRest'
    BY <2>1 DEF TypeOKRest, launchVars
  <2>4. \A u \in Thread : Alive(u)' <=> Alive(u)
    BY <1>4, <2>1, LauncherAlive DEF LaunchOutOfMemory, TypeOKRest, Alive
  <2> QED
    BY <2>1, <2>2, <2>3, <2>4, SameTasks
<1>5. CASE ShellOutOfMemory(t)
  <2>1. Live' = Live /\ Distinct' /\ TypeOKQueue'
    BY <1>5, NoSwitch DEF ShellOutOfMemory
  <2>2. TypeOKRest'
    BY <1>5 DEF ShellOutOfMemory, TypeOKRest, launchVars
  <2>3. \A u \in Thread : Alive(u)' <=> Alive(u)
    BY <1>5 DEF ShellOutOfMemory, Alive
  <2> QED
    BY <1>5, <2>1, <2>2, <2>3, SameTasks DEF ShellOutOfMemory
<1> QED
  BY <1>1, <1>2, <1>3, <1>4, <1>5 DEF Launch

LEMMA LaunchReturnsStep ==
  ASSUME IInv, NEW t \in Thread, LaunchReturns(t)
  PROVE  IInv'
<1> USE DistinctNow
<1>1. /\ ~starved /\ current_task.thread = t /\ state[t] = "launching"
      /\ r0' = [r0 EXCEPT ![t] = launch_fxf_task_id]
      /\ UNCHANGED <<task_id_bitmap, free, launch_fxf_task_id, made, child>>
  BY DEF LaunchReturns, Running
<1>2. CASE t = Kernel
  <2>1. state' = [state EXCEPT ![t] = "ended"] /\ SwitchAway
    BY <1>2 DEF LaunchReturns
  <2>2. Live' = Live \ {current_task} /\ Distinct' /\ TypeOKQueue'
    BY <1>1, <2>1, EndRemoves
  <2>3. TypeOKRest'
    BY <1>1, <2>1 DEF TypeOKRest
  <2>4. state'[t] = "ended" /\ \A u \in Thread \ {t} : Alive(u)' <=> Alive(u)
    BY <2>1 DEF TypeOKRest, Alive
  <2>5. current_task \in Live /\ current_task.id = 0
    BY <1>1, <1>2, RunningIsLive DEF IInv, KernelHasZero
  <2> QED
    BY <1>1, <2>2, <2>3, <2>4, <2>5, OneTaskLess
<1>3. CASE t # Kernel
  <2>1. state' = [state EXCEPT ![t] = "ready"] /\ UNCHANGED <<queueVars, starved>>
    BY <1>3 DEF LaunchReturns
  <2>2. Live' = Live /\ Distinct' /\ TypeOKQueue'
    BY <2>1, NoSwitch
  <2>3. TypeOKRest'
    BY <1>1, <2>1 DEF TypeOKRest
  <2>4. \A u \in Thread : Alive(u)' <=> Alive(u)
    BY <1>1, <2>1 DEF TypeOKRest, Alive
  <2> QED
    BY <1>1, <2>2, <2>3, <2>4, SameTasks
<1> QED
  BY <1>2, <1>3

LEMMA ShellGoesOnStep ==
  ASSUME IInv, NEW t \in Thread, ShellGoesOn(t)
  PROVE  IInv'
<1> USE DistinctNow
<1>1. Live' = Live /\ Distinct' /\ TypeOKQueue'
  BY NoSwitch DEF ShellGoesOn
<1>2. TypeOKRest'
  BY DEF ShellGoesOn, TypeOKRest, launchVars
<1>3. \A u \in Thread : Alive(u)' <=> Alive(u)
  BY DEF ShellGoesOn, Running, TypeOKRest, Alive
<1> QED
  BY <1>1, <1>2, <1>3, SameTasks DEF ShellGoesOn

LEMMA NextIInv == IInv /\ [Next]_vars => IInv'
<1> SUFFICES ASSUME IInv, [Next]_vars
             PROVE  IInv'
  OBVIOUS
<1>1. ASSUME NEW t \in Thread, GoOn(t) \/ Launch(t) \/ Sleep(t)
      PROVE  IInv'
  BY <1>1, YieldStep, EndStep, LaunchStep, LaunchReturnsStep, ShellGoesOnStep DEF GoOn
<1>2. CASE UNCHANGED vars
  <2>1. Live' = Live /\ Distinct' /\ TypeOKQueue'
    BY <1>2, NoSwitch DEF vars
  <2>2. TypeOKRest'
    BY <1>2, DistinctNow DEF vars, TypeOKRest, launchVars
  <2> QED
    BY <1>2, <2>1, <2>2, SameTasks DEF vars, Alive
<1> QED
  BY <1>1, <1>2 DEF Next

-----------------------------------------------------------------------------
(* No task is ever lost or doubled, and the scheduler panics only when no  *)
(* task is left, whatever the programs do.                                 *)
THEOREM NoTaskIsLost == Spec => []NoTaskLost
<1>1. IInv => NoTaskLost
  BY DEF IInv
<1> QED
  BY <1>1, InitIInv, NextIInv, PTL DEF Spec

(* Whatever the programs do, every variable has a sane value: no launcher  *)
(* ever holds an ID, a block or a task that does not exist.                *)
THEOREM TasksTyping == Spec => []TypeOK
<1>1. IInv => TypeOK
  BY DEF IInv
<1> QED
  BY <1>1, InitIInv, NextIInv, PTL DEF Spec

(* A task owns its blocks: freeing them while it still runs, and handing   *)
(* them to the next program, never takes memory of another task.           *)
THEOREM TasksOwnTheirBlocks == Spec => []BlocksOwned
<1>1. IInv => BlocksOwned
  BY DEF IInv
<1> QED
  BY <1>1, InitIInv, NextIInv, PTL DEF Spec

(* As long as nobody launches a program when all IDs are used, the IDs are *)
(* distinct and the bitmap is right.                                       *)
THEOREM IdsAreUnique == ASSUME Careful PROVE Spec => []IdsAgree
<1>1. IInv => IdsAgree
  BY DEF IInv
<1> QED
  BY <1>1, InitIInv, NextIInv, PTL DEF Spec

-----------------------------------------------------------------------------
(* Only the reserved entries of the queue are written.                     *)
LEMMA NextFits ==
  IInv /\ Careful /\ [Next]_vars =>
    [\A c \in Cell : c >= QueueSize => queue'[c] = queue[c]]_vars
<1> SUFFICES ASSUME IInv, Careful, Next, NEW c \in Cell, c >= QueueSize
             PROVE  queue'[c] = queue[c]
  OBVIOUS
<1>1. task_queue_ptr \in Nat /\ c \in Nat /\ QueueSize \in Nat
  BY TasksAssumption DEF IInv, TypeOK, Cell
<1>2. PICK t \in Thread : GoOn(t) \/ Launch(t) \/ Sleep(t)
  BY DEF Next
<1>3. ~starved
  BY <1>2 DEF GoOn, Launch, Sleep, Yield, End, Spin, LaunchReturns, ShellWaits,
              ShellGoesOn, LaunchStarts, ShellLaunch, LaunchFails, LaunchOutOfMemory,
              ShellOutOfMemory, Launcher, Running
<1>4. /\ task_queue_ptr < QueueSize
      /\ UnusedIds # {} => task_queue_ptr + 1 < QueueSize
  BY <1>3, RoomInQueue
<1>5. CASE YieldTask
  BY <1>1, <1>4, <1>5 DEF YieldTask, RunNext, Shift, Store
<1>6. CASE SwitchAway
  BY <1>1, <1>4, <1>6 DEF SwitchAway, RunNext, Shift, queueVars
<1>7. ASSUME UnusedIds # {}, NEW x, NewTask(x)
      PROVE  queue'[c] = queue[c]
  <2>1. c # task_queue_ptr /\ c # task_queue_ptr + 1 /\ ~ (c + 1 < task_queue_ptr + 2)
    BY <1>1, <1>4, <1>7
  <2>2. Store(Store(queue, task_queue_ptr, x), task_queue_ptr + 1, current_task)[c] = queue[c]
    BY <2>1 DEF Store, IInv, TypeOK
  <2> QED
    BY <1>7, <2>1, <2>2 DEF NewTask, RunNext, Shift
<1>8. CASE UNCHANGED queue
  BY <1>8
<1>9. CASE GoOn(t) \/ Sleep(t)
  BY <1>5, <1>6, <1>8, <1>9
  DEF GoOn, Sleep, Yield, End, Spin, LaunchReturns, ShellWaits, ShellGoesOn, queueVars
<1>10. ASSUME NEW p \in Program, NEW s, StartTask(t, p, s)
       PROVE  queue'[c] = queue[c]
  BY <1>7, <1>10 DEF StartTask
<1>11. CASE Launch(t)
  BY <1>5, <1>8, <1>10, <1>11
  DEF Launch, LaunchStarts, ShellLaunch, LaunchFails, LaunchOutOfMemory,
      ShellOutOfMemory, queueVars
<1> QED
  BY <1>2, <1>9, <1>11

(* As long as nobody launches a program when all IDs are used, the tasks   *)
(* fit into the reserved entries and nothing behind them is overwritten.   *)
THEOREM QueueNeverOverflows == ASSUME Careful PROVE Spec => QueueFits
<1>1. Careful
  OBVIOUS
<1> QED
  BY <1>1, InitIInv, NextIInv, NextFits, PTL DEF Spec, QueueFits

-----------------------------------------------------------------------------
(* A shell that waits follows its child in the row, so that it runs next   *)
(* when the child has ended.                                               *)
ChildBefore(t) ==
  \E c \in Place :
    /\ TaskAt(c).thread = child[t]
    /\ TaskAt(c).id = made[t]
    /\ TaskAt(IF c = task_queue_ptr THEN 0 ELSE c + 1).thread = t

ChildJustEnded(t) ==
  ~starved /\ current_task.thread = t /\ state[child[t]] = "ended" /\ made[t] \notin task_id_bitmap

WaitInv ==
  \A t \in Thread : state[t] = "waiting" =>
    /\ child[t] \in Program
    /\ Careful => made[t] # 0
    /\ ChildBefore(t) \/ ChildJustEnded(t)

LEMMA YieldKeepsOrder ==
  ASSUME TypeOK, ~starved, YieldTask, UNCHANGED starved, NEW t,
         child'[t] = child[t], made'[t] = made[t], ChildBefore(t)
  PROVE  ChildBefore(t)'
<1> PICK n : n = task_queue_ptr
  OBVIOUS
<1>1. n \in Nat
  BY TasksAssumption DEF TypeOK, Cell
<1>2. /\ task_queue_ptr' = n
      /\ \A c \in 0 .. n - 1 : TaskAt(c)' = TaskAt(c + 1)
      /\ TaskAt(n)' = TaskAt(0)
  BY YieldMoves
<1>3. Place = 0 .. n /\ Place' = 0 .. n
  BY <1>2 DEF Place
<1>4. PICK c \in 0 .. n : /\ TaskAt(c).thread = child[t]
                          /\ TaskAt(c).id = made[t]
                          /\ TaskAt(IF c = n THEN 0 ELSE c + 1).thread = t
  BY <1>3 DEF ChildBefore
<1>5. SUFFICES ASSUME NEW d \in 0 .. n, TaskAt(d)' = TaskAt(c),
                      TaskAt(IF d = n THEN 0 ELSE d + 1)' = TaskAt(IF c = n THEN 0 ELSE c + 1)
               PROVE  ChildBefore(t)'
  <2>1. CASE c = 0
    BY <1>1, <1>2, <2>1
  <2>2. CASE c # 0
    <3>1. c - 1 \in 0 .. n - 1 /\ c - 1 + 1 = c /\ c - 1 # n
      BY <1>1, <2>2
    <3>2. TaskAt(c - 1)' = TaskAt(c)
      BY <1>2, <3>1
    <3>3. TaskAt(c)' = TaskAt(IF c = n THEN 0 ELSE c + 1)
      BY <1>1, <1>2
    <3> QED
      BY <1>1, <3>1, <3>2, <3>3
  <2> QED
    BY <2>1, <2>2
<1> QED
  BY <1>2, <1>3, <1>4, <1>5 DEF ChildBefore

LEMMA NewTaskKeepsOrder ==
  ASSUME TypeOK, ~starved, NEW x \in Task, NewTask(x), UNCHANGED starved,
         task_queue_ptr + 2 <= NCells, NEW t, current_task.thread # t,
         child'[t] = child[t], made'[t] = made[t], ChildBefore(t)
  PROVE  ChildBefore(t)'
<1> PICK n : n = task_queue_ptr
  OBVIOUS
<1>1. n \in Nat
  BY TasksAssumption DEF TypeOK, Cell
<1>2. /\ task_queue_ptr' = n + 1
      /\ \A c \in 0 .. n - 2 : TaskAt(c)' = TaskAt(c + 1)
      /\ n > 0 => TaskAt(n)' = current_task /\ TaskAt(n + 1)' = TaskAt(0)
  BY NewTaskMoves
<1>3. Place = 0 .. n /\ Place' = 0 .. n + 1 /\ TaskAt(n) = current_task
  BY <1>2 DEF Place, TaskAt
<1>4. PICK c \in 0 .. n : /\ TaskAt(c).thread = child[t]
                          /\ TaskAt(c).id = made[t]
                          /\ TaskAt(IF c = n THEN 0 ELSE c + 1).thread = t
  BY <1>3 DEF ChildBefore
<1>5. n > 0 /\ c # n - 1
  BY <1>1, <1>3, <1>4
<1>6. PICK d \in 0 .. n + 1 :
        /\ TaskAt(d)' = TaskAt(c)
        /\ TaskAt(IF d = n + 1 THEN 0 ELSE d + 1)' = TaskAt(IF c = n THEN 0 ELSE c + 1)
  <2>1. CASE c = n
    BY <1>1, <1>2, <1>3, <1>5, <2>1
  <2>2. CASE c = 0 /\ c # n
    BY <1>1, <1>2, <1>5, <2>2
  <2>3. CASE c # 0 /\ c # n
    <3>1. c - 1 \in 0 .. n - 2 /\ c \in 0 .. n - 2 /\ c - 1 + 1 = c /\ c - 1 # n + 1
      BY <1>1, <1>5, <2>3
    <3>2. TaskAt(c - 1)' = TaskAt(c) /\ TaskAt(c)' = TaskAt(c + 1)
      BY <1>2, <3>1
    <3> QED
      BY <1>1, <2>3, <3>1, <3>2
  <2> QED
    BY <2>1, <2>2, <2>3
<1> QED
  BY <1>2, <1>3, <1>4, <1>6 DEF ChildBefore

(* The new task comes right before its maker.                              *)
LEMMA NewTaskBeforeMaker ==
  ASSUME TypeOK, ~starved, NEW x \in Task, NewTask(x), UNCHANGED starved,
         task_queue_ptr + 2 <= NCells, NEW t, current_task.thread = t,
         child'[t] = x.thread, made'[t] = x.id
  PROVE  ChildBefore(t)'
<1> PICK n : n = task_queue_ptr
  OBVIOUS
<1>1. n \in Nat
  BY TasksAssumption DEF TypeOK, Cell
<1>2. /\ task_queue_ptr' = n + 1
      /\ n > 0 => TaskAt(n - 1)' = x
      /\ n = 0 => TaskAt(1)' = x /\ TaskAt(0)' = current_task
      /\ n > 0 => TaskAt(n)' = current_task /\ TaskAt(n + 1)' = TaskAt(0)
  BY NewTaskMoves
<1>3. Place' = 0 .. n + 1
  BY <1>2 DEF Place
<1>4. CASE n = 0
  BY <1>2, <1>3, <1>4 DEF ChildBefore
<1>5. CASE n > 0
  BY <1>1, <1>2, <1>3, <1>5, n - 1 \in 0 .. n + 1, n - 1 + 1 = n, n - 1 # n + 1 DEF ChildBefore
<1> QED
  BY <1>1, <1>4, <1>5

(* The end of a task brings the shell that waits for it to run.            *)
LEMMA EndKeepsOrder ==
  ASSUME TypeOK, ~starved, SwitchAway, NEW t, current_task.thread # t,
         child'[t] = child[t], made'[t] = made[t], ChildBefore(t)
  PROVE  \/ ChildBefore(t)'
         \/ /\ current_task.thread = child[t] /\ current_task.id = made[t]
            /\ ~starved' /\ current_task'.thread = t
<1> PICK n : n = task_queue_ptr
  OBVIOUS
<1>1. n \in Nat
  BY TasksAssumption DEF TypeOK, Cell
<1>2. /\ starved' => n = 0
      /\ ~starved' =>
           /\ n > 0
           /\ task_queue_ptr' = n - 1
           /\ \A c \in 0 .. n - 2 : TaskAt(c)' = TaskAt(c + 1)
           /\ TaskAt(n - 1)' = TaskAt(0)
  BY EndMoves
<1>3. Place = 0 .. n /\ TaskAt(n) = current_task
  BY DEF Place, TaskAt
<1>4. PICK c \in 0 .. n : /\ TaskAt(c).thread = child[t]
                          /\ TaskAt(c).id = made[t]
                          /\ TaskAt(IF c = n THEN 0 ELSE c + 1).thread = t
  BY <1>3 DEF ChildBefore
<1>5. n > 0 /\ c # n - 1 /\ ~starved'
  BY <1>1, <1>2, <1>3, <1>4
<1>6. Place' = 0 .. n - 1 /\ task_queue_ptr' = n - 1
  BY <1>2, <1>5 DEF Place
<1>7. CASE c = n
  <2>1. current_task' = TaskAt(n - 1)'
    BY <1>6 DEF TaskAt
  <2> QED
    BY <1>2, <1>3, <1>4, <1>5, <1>7, <2>1
<1>8. CASE c # n
  <2>1. PICK d \in 0 .. n - 1 :
          /\ TaskAt(d)' = TaskAt(c)
          /\ TaskAt(IF d = n - 1 THEN 0 ELSE d + 1)' = TaskAt(c + 1)
    <3>1. CASE c = 0
      BY <1>1, <1>2, <1>5, <1>8, <3>1
    <3>2. CASE c # 0
      <4>1. c - 1 \in 0 .. n - 2 /\ c \in 0 .. n - 2 /\ c - 1 + 1 = c /\ c - 1 # n - 1
        BY <1>1, <1>5, <1>8, <3>2
      <4>2. TaskAt(c - 1)' = TaskAt(c) /\ TaskAt(c)' = TaskAt(c + 1)
        BY <1>2, <1>5, <4>1
      <4> QED
        BY <1>1, <4>1, <4>2
    <3> QED
      BY <3>1, <3>2
  <2> QED
    BY <1>4, <1>6, <1>8, <2>1 DEF ChildBefore
<1> QED
  BY <1>7, <1>8

(* For a step in which the shell t neither runs nor is changed.            *)
LEMMA StillWaiting ==
  ASSUME WaitInv, NEW t \in Thread, state[t] = "waiting", current_task.thread # t
  PROVE  child[t] \in Program /\ (Careful => made[t] # 0) /\ ChildBefore(t)
  BY DEF WaitInv, ChildJustEnded

LEMMA NextWaitInv == IInv /\ WaitInv /\ [Next]_vars => WaitInv'
<1> SUFFICES ASSUME IInv, WaitInv, [Next]_vars, NEW t \in Thread, state'[t] = "waiting"
             PROVE  /\ child'[t] \in Program
                    /\ Careful => made'[t] # 0
                    /\ ChildBefore(t)' \/ ChildJustEnded(t)'
  BY DEF WaitInv
<1> DEFINE Goal == /\ child'[t] \in Program
                   /\ Careful => made'[t] # 0
                   /\ ChildBefore(t)' \/ ChildJustEnded(t)'
<1> USE DistinctNow
<1>1. ASSUME UNCHANGED <<queueVars, starved, made, child, task_id_bitmap>>,
             state[t] = "waiting",
             state[child[t]] = "ended" => state'[child[t]] = "ended"
      PROVE  Goal
  <2>1. Place' = Place /\ \A c : TaskAt(c)' = TaskAt(c)
    BY <1>1 DEF Place, TaskAt, queueVars
  <2>2. ChildBefore(t) => ChildBefore(t)'
    BY <1>1, <2>1 DEF ChildBefore, queueVars
  <2>3. ChildJustEnded(t) => ChildJustEnded(t)'
    BY <1>1 DEF ChildJustEnded, queueVars
  <2> QED
    BY <1>1, <2>2, <2>3 DEF WaitInv
<1>2. CASE UNCHANGED vars
  BY <1>1, <1>2 DEF vars, launchVars
<1>3. ASSUME NEW u \in Thread, GoOn(u) \/ Launch(u) \/ Sleep(u)
      PROVE  Goal
  <2>1. ~starved /\ current_task.thread = u
    BY <1>3 DEF GoOn, Launch, Sleep, Yield, End, Spin, LaunchReturns, ShellWaits,
                ShellGoesOn, LaunchStarts, ShellLaunch, LaunchFails, LaunchOutOfMemory,
                ShellOutOfMemory, Launcher, Running
  <2>2. ASSUME YieldTask, UNCHANGED <<starved, made, child>>,
               state[t] = "waiting", ChildBefore(t)
        PROVE  Goal
    BY <2>1, <2>2, YieldKeepsOrder DEF WaitInv
  <2>3. ASSUME state[u] # "waiting", state[t] = "waiting"
        PROVE  t # u /\ ChildBefore(t) /\ child[t] \in Program /\ (Careful => made[t] # 0)
    BY <2>1, <2>3, StillWaiting
  <2>4. CASE Yield(u) \/ Spin(u) \/ Sleep(u)
    <3>1. /\ YieldTask /\ UNCHANGED <<starved, made, child>>
          /\ state[u] # "waiting" /\ state[t] = "waiting"
      BY <2>4 DEF Yield, Spin, Sleep, Running, launchVars, TypeOKRest
    <3> QED
      BY <2>2, <2>3, <3>1
  <2>5. CASE ShellWaits(u)
    <3>1. /\ YieldTask /\ UNCHANGED <<starved, made, child>>
          /\ state[t] = "waiting" /\ made[u] \in task_id_bitmap
      BY <2>5 DEF ShellWaits, launchVars
    <3>2. ~ ChildJustEnded(t)
      BY <2>1, <3>1 DEF ChildJustEnded
    <3> QED
      BY <2>2, <3>1, <3>2 DEF WaitInv
  <2>6. CASE ShellGoesOn(u)
    <3>1. /\ UNCHANGED <<queueVars, starved, made, child, task_id_bitmap>>
          /\ state[u] = "waiting" /\ state' = [state EXCEPT ![u] = "ready"]
      BY <2>6 DEF ShellGoesOn, Running, launchVars
    <3>2. state[t] = "waiting" /\ (state[child[t]] = "ended" => state'[child[t]] = "ended")
      BY <3>1 DEF TypeOKRest
    <3> QED
      BY <1>1, <3>1, <3>2
  <2>7. CASE End(u) \/ (LaunchReturns(u) /\ u = Kernel)
    <3>1. /\ SwitchAway /\ UNCHANGED <<made, child>>
          /\ state[u] # "waiting" /\ state' = [state EXCEPT ![u] = "ended"]
      BY <2>7 DEF End, LaunchReturns, Running, launchVars
    <3>2. state[t] = "waiting"
      BY <3>1 DEF TypeOKRest
    <3>3. t # u /\ ChildBefore(t) /\ child[t] \in Program /\ (Careful => made[t] # 0)
      BY <2>3, <3>1, <3>2
    <3>4. ASSUME u = child[t], current_task.id = made[t], ~starved', current_task'.thread = t
          PROVE  ChildJustEnded(t)'
      <4>1. u # Kernel
        BY <3>3, <3>4, TasksAssumption
      <4>2. task_id_bitmap' = task_id_bitmap \ {made[t]}
        BY <2>7, <3>4, <4>1 DEF End, ClearId
      <4>3. state'[child[t]] = "ended"
        BY <3>1, <3>4 DEF TypeOKRest
      <4> QED
        BY <3>1, <3>4, <4>2, <4>3 DEF ChildJustEnded
    <3> QED
      BY <2>1, <3>1, <3>3, <3>4, EndKeepsOrder
  <2>8. CASE LaunchReturns(u) /\ u # Kernel
    <3>1. /\ UNCHANGED <<queueVars, starved, made, child, task_id_bitmap>>
          /\ state[u] = "launching" /\ state' = [state EXCEPT ![u] = "ready"]
      BY <2>8 DEF LaunchReturns, Running
    <3>2. state[t] = "waiting" /\ (state[child[t]] = "ended" => state'[child[t]] = "ended")
      BY <3>1 DEF TypeOKRest
    <3> QED
      BY <1>1, <3>1, <3>2
  <2>9. ASSUME NEW p \in Program, NEW s, s \in {"launching", "waiting", "ready"},
               StartTask(u, p, s), state[u] \in {"startup", "ready"}
        PROVE  Goal
    <3> DEFINE x == [id |-> GetUnusedTaskId, thread |-> p, code |-> Code, stack |-> Stack]
    <3>1. /\ state[p] = "unborn" /\ Code # 0 /\ Stack # 0
          /\ Careful => UnusedIds # {}
          /\ NewTask(x)
          /\ made' = [made EXCEPT ![u] = GetUnusedTaskId]
          /\ child' = [child EXCEPT ![u] = p]
          /\ state' = [state EXCEPT ![u] = s, ![p] = "ready"]
          /\ UNCHANGED starved
      BY <2>9 DEF StartTask
    <3>2. p \in Thread /\ t # p
      BY <3>1 DEF Thread, TypeOKRest
    <3>3. Code \in Block /\ Stack \in Block
      <4>1. free \subseteq Nat /\ free \subseteq Block
        BY DEF TypeOK, Block
      <4> QED
        BY <3>1, <4>1, FirstIsLowest DEF Code, Stack
    <3>4. GetUnusedTaskId \in TaskId /\ (Careful => GetUnusedTaskId # 0)
      <4>1. UnusedIds \subseteq Nat \ {0} /\ UnusedIds \subseteq TaskId /\ 0 \in TaskId
        BY TasksAssumption DEF UnusedIds, TaskId
      <4> QED
        BY <3>1, <4>1, FirstIsLowest DEF GetUnusedTaskId
    <3>5. x \in Task /\ x.thread = p /\ x.id = GetUnusedTaskId
      BY <3>2, <3>3, <3>4 DEF Task, Block
    <3> HIDE DEF x
    <3>6. task_queue_ptr + 2 <= NCells
      BY <2>1, <3>1, RoomForTwo
    <3>7. CASE t = u
      <4>1. child'[t] = x.thread /\ made'[t] = x.id
        BY <3>1, <3>5, <3>7 DEF TypeOKRest
      <4>2. ChildBefore(t)'
        BY <2>1, <3>1, <3>5, <3>6, <3>7, <4>1, NewTaskBeforeMaker
      <4> QED
        BY <3>4, <3>5, <4>1, <4>2
    <3>8. CASE t # u
      <4>1. state[t] = "waiting" /\ child'[t] = child[t] /\ made'[t] = made[t]
        BY <3>1, <3>2, <3>8 DEF TypeOKRest
      <4>2. ChildBefore(t) /\ child[t] \in Program /\ (Careful => made[t] # 0)
        BY <2>3, <2>9, <4>1
      <4>3. ChildBefore(t)'
        BY <2>1, <3>1, <3>5, <3>6, <3>8, <4>1, <4>2, NewTaskKeepsOrder
      <4> QED
        BY <4>1, <4>2, <4>3
    <3> QED
      BY <3>7, <3>8
  <2>10. CASE \E p \in Program : LaunchStarts(u, p) \/ ShellLaunch(u, p)
    BY <2>9, <2>10 DEF LaunchStarts, ShellLaunch, Launcher, Running
  <2>11. CASE LaunchFails(u) \/ ShellOutOfMemory(u)
    <3>1. /\ UNCHANGED <<queueVars, starved, made, child, task_id_bitmap>>
          /\ state[u] # "ended" /\ state' = [state EXCEPT ![u] = state'[u]]
          /\ state'[u] # "waiting"
      BY <2>11 DEF LaunchFails, ShellOutOfMemory, Launcher, Running, launchVars, TypeOKRest
    <3>2. state[t] = "waiting" /\ (state[child[t]] = "ended" => state'[child[t]] = "ended")
      BY <3>1 DEF TypeOKRest
    <3> QED
      BY <1>1, <3>1, <3>2
  <2>12. CASE LaunchOutOfMemory(u)
    <3>1. /\ UNCHANGED <<starved, made, child, task_id_bitmap>>
          /\ state[u] \notin {"ended", "waiting"} /\ state'[u] # "waiting"
          /\ state' = [state EXCEPT ![u] = state'[u]]
          /\ YieldTask \/ UNCHANGED queueVars
      BY <2>12, LauncherAlive DEF LaunchOutOfMemory, launchVars, TypeOKRest
    <3>2. state[t] = "waiting" /\ (state[child[t]] = "ended" => state'[child[t]] = "ended")
      BY <3>1 DEF TypeOKRest
    <3> QED
      BY <1>1, <2>2, <2>3, <3>1, <3>2
  <2> QED
    BY <1>3, <2>4, <2>5, <2>6, <2>7, <2>8, <2>10, <2>11, <2>12 DEF GoOn, Launch
<1> QED
  BY <1>2, <1>3 DEF Next

(* The shell goes on when its program has ended, and only then, although   *)
(* the ID it watches is given out again.                                   *)
LEMMA WaitIsRight == IInv /\ Careful /\ WaitInv => ShellSeesTheEnd
<1> SUFFICES ASSUME IInv, Careful, WaitInv, NEW t \in Thread, state[t] = "waiting"
             PROVE  made[t] \notin task_id_bitmap <=> state[child[t]] = "ended"
  BY DEF ShellSeesTheEnd
<1>1. CASE ChildBefore(t)
  <2>1. PICK a \in Live : a.thread = child[t] /\ a.id = made[t]
    BY <1>1 DEF ChildBefore, Live
  <2>2. Alive(child[t])
    BY <2>1 DEF IInv, NoTaskLost, WaitInv, Thread
  <2>3. made[t] \in task_id_bitmap
    BY <2>1 DEF IInv, IdsAgree, WaitInv
  <2> QED
    BY <2>2, <2>3 DEF Alive
<1>2. CASE ChildJustEnded(t)
  BY <1>2 DEF ChildJustEnded
<1> QED
  BY <1>1, <1>2 DEF WaitInv

THEOREM ShellWaitsForItsProgram == ASSUME Careful PROVE Spec => []ShellSeesTheEnd
<1>1. Init => WaitInv
  BY DEF Init, WaitInv
<1>2. Careful
  OBVIOUS
<1> QED
  BY <1>1, <1>2, InitIInv, NextIInv, NextWaitInv, WaitIsRight, PTL DEF Spec

-----------------------------------------------------------------------------
(* Tasks implements Scheduler: with the threads of the entries read as the *)
(* run queue, every step is a turn of it, a start, a finish or a stutter.  *)
(* The invariant gives the room for the entries stored and that a program  *)
(* that is launched has not begun.                                         *)

run   == IF starved THEN None ELSE current_task.thread
ready == [c \in 1 .. task_queue_ptr |-> queue[c - 1].thread]
begun == {t \in Thread : state[t] # "unborn"}

LEMMA ReadyIsSeq ==
  ASSUME TypeOK
  PROVE  ready \in Seq(Thread) /\ Len(ready) = task_queue_ptr /\ task_queue_ptr \in Nat
<1>1. task_queue_ptr \in Nat /\ \A c \in 1 .. task_queue_ptr : c - 1 \in Cell
  BY TasksAssumption DEF TypeOK, Cell
<1>2. ready \in [1 .. task_queue_ptr -> Thread]
  BY <1>1 DEF ready, TypeOK, Task
<1> QED
  BY <1>1, <1>2

(* The first of n + 1 entries runs and the rest is the queue.              *)
LEMMA RunNextRotates ==
  ASSUME NEW n \in Nat, n + 1 <= NCells, NEW e, RunNext(e, n + 1), ~starved',
         NEW q \in Seq(Thread), Len(q) = n + 1,
         \A i \in 1 .. n + 1 : q[i] = e[i - 1].thread
  PROVE  run' = Head(q) /\ ready' = Tail(q)
<1>1. /\ current_task' = e[0] /\ task_queue_ptr' = n
      /\ queue' = [c \in Cell |-> IF c + 1 < n + 1 THEN e[c + 1] ELSE e[c]]
  BY DEF RunNext, Shift
<1>2. run' = Head(q)
  BY <1>1, Head(q) = q[1] DEF run
<1>3. ready' = [i \in 1 .. n |-> queue'[i - 1].thread]
  BY <1>1 DEF ready
<1>4. ASSUME NEW i \in 1 .. n
      PROVE  queue'[i - 1].thread = q[i + 1]
  <2>1. i - 1 \in Cell /\ i - 1 + 1 = i /\ i < n + 1 /\ i + 1 \in 1 .. n + 1 /\ i + 1 - 1 = i
    BY TasksAssumption DEF Cell
  <2>2. queue'[i - 1] = e[i]
    BY <1>1, <2>1
  <2> QED
    BY <2>1, <2>2
<1>5. ready' = [i \in 1 .. n |-> q[i + 1]]
  BY <1>3, <1>4
<1>6. Tail(q) \in Seq(Thread) /\ Len(Tail(q)) = n /\ \A i \in 1 .. n : Tail(q)[i] = q[i + 1]
  BY q # <<>>, HeadTailProperties
<1>7. [i \in 1 .. n |-> q[i + 1]] \in Seq(Thread)
  BY \A i \in 1 .. n : q[i + 1] \in Thread
<1>8. Tail(q) = [i \in 1 .. n |-> q[i + 1]]
  <2> PICK s, r : s = Tail(q) /\ r = [i \in 1 .. n |-> q[i + 1]]
    OBVIOUS
  <2>1. s \in Seq(Thread) /\ r \in Seq(Thread) /\ Len(s) = n /\ Len(r) = n
    BY <1>6, <1>7
  <2>2. \A i \in 1 .. n : s[i] = r[i]
    BY <1>6
  <2>3. s = r
    BY <2>1, <2>2, SeqEqual
  <2> QED
    BY <2>3
<1> QED
  BY <1>2, <1>5, <1>8

LEMMA EntriesOfReady ==
  ASSUME TypeOK
  PROVE  \A i \in 1 .. task_queue_ptr : ready[i] = queue[i - 1].thread
  BY DEF ready

LEMMA YieldRotates ==
  ASSUME TypeOK, ~starved, YieldTask, UNCHANGED starved
  PROVE  run' = Head(Append(ready, run)) /\ ready' = Tail(Append(ready, run))
<1> PICK n : n = task_queue_ptr
  OBVIOUS
<1> DEFINE e == Store(queue, n, current_task)
           q == Append(ready, run)
<1>1. n \in Nat /\ n + 1 <= NCells /\ \A c \in 0 .. n : c \in Cell
  BY TasksAssumption DEF TypeOK, Cell
<1>2. run \in Thread /\ run = current_task.thread
  BY DEF run, TypeOK, Task
<1>3. q \in Seq(Thread) /\ Len(q) = n + 1 /\ q[n + 1] = run
      /\ \A i \in 1 .. n : q[i] = ready[i]
  BY <1>2, ReadyIsSeq
<1>4. e[n] = current_task /\ \A c \in 0 .. n - 1 : e[c] = queue[c]
  BY <1>1 DEF Store, TypeOK
<1> HIDE DEF q, e
<1>5. \A i \in 1 .. n + 1 : q[i] = e[i - 1].thread
  BY <1>1, <1>2, <1>3, <1>4, EntriesOfReady
<1>6. RunNext(e, n + 1)
  BY DEF YieldTask, e
<1>7. run' = Head(q) /\ ready' = Tail(q)
  BY <1>1, <1>3, <1>5, <1>6, RunNextRotates
<1> QED
  BY <1>7 DEF q

LEMMA NewTaskRotates ==
  ASSUME TypeOK, ~starved, NEW x \in Task, NewTask(x), UNCHANGED starved,
         task_queue_ptr + 2 <= NCells
  PROVE  /\ run' = Head(ready \o <<x.thread, run>>)
         /\ ready' = Tail(ready \o <<x.thread, run>>)
<1> PICK n : n = task_queue_ptr
  OBVIOUS
<1> DEFINE e == Store(Store(queue, n, x), n + 1, current_task)
           q == ready \o <<x.thread, run>>
<1>1. n \in Nat /\ \A c \in 0 .. n + 1 : c \in Cell
  BY TasksAssumption DEF TypeOK, Cell
<1>2. run \in Thread /\ run = current_task.thread /\ x.thread \in Thread
  BY DEF run, TypeOK, Task
<1>3. q \in Seq(Thread) /\ Len(q) = n + 2 /\ q[n + 1] = x.thread /\ q[n + 2] = run
      /\ \A i \in 1 .. n : q[i] = ready[i]
  BY <1>2, ReadyIsSeq
<1>4. e[n] = x /\ e[n + 1] = current_task /\ \A c \in 0 .. n - 1 : e[c] = queue[c]
  BY <1>1 DEF Store, TypeOK
<1> HIDE DEF q, e
<1>5. \A i \in 1 .. n + 2 : q[i] = e[i - 1].thread
  <2>1. \A i \in 1 .. n : q[i] = e[i - 1].thread
    BY <1>1, <1>3, <1>4, EntriesOfReady
  <2>2. ASSUME NEW i \in 1 .. n + 2, i \notin 1 .. n
        PROVE  (i = n + 1 /\ i - 1 = n) \/ (i = n + 2 /\ i - 1 = n + 1)
    BY <1>1, <2>2
  <2> QED
    BY <1>2, <1>3, <1>4, <2>1, <2>2
<1> PICK m : m = n + 1
  OBVIOUS
<1>6. m \in Nat /\ m + 1 = n + 2 /\ m + 1 <= NCells /\ RunNext(e, m + 1)
  BY <1>1 DEF NewTask, e
<1>7. run' = Head(q) /\ ready' = Tail(q)
  <2>1. Len(q) = m + 1 /\ (\A i \in 1 .. m + 1 : q[i] = e[i - 1].thread) /\ ~starved'
    BY <1>3, <1>5, <1>6
  <2> QED
    BY <1>3, <1>6, <2>1, RunNextRotates
<1> QED
  BY <1>7 DEF q

LEMMA EndRotates ==
  ASSUME TypeOK, ~starved, SwitchAway
  PROVE  IF ready = <<>> THEN run' = None /\ UNCHANGED ready
                         ELSE run' = Head(ready) /\ ready' = Tail(ready)
<1> PICK n : n = task_queue_ptr
  OBVIOUS
<1>1. n \in Nat /\ n <= NCells
  BY TasksAssumption DEF TypeOK, Cell
<1>2. CASE n = 0
  <2>1. starved' /\ UNCHANGED queueVars
    BY <1>2 DEF SwitchAway
  <2>2. ready = <<>>
    BY <1>2, ReadyIsSeq
  <2>3. UNCHANGED ready
    BY <2>1 DEF ready, queueVars
  <2> QED
    BY <2>1, <2>2, <2>3 DEF run
<1>3. CASE n > 0
  <2> PICK m : m = n - 1
    OBVIOUS
  <2>1. m \in Nat /\ m + 1 = n /\ m + 1 <= NCells
    BY <1>1, <1>3
  <2>2. RunNext(queue, m + 1) /\ ~starved'
    BY <1>3, <2>1 DEF SwitchAway
  <2>3. ready \in Seq(Thread) /\ Len(ready) = m + 1 /\ ready # <<>>
    BY <1>3, <2>1, ReadyIsSeq
  <2>4. \A i \in 1 .. m + 1 : ready[i] = queue[i - 1].thread
    BY <2>1, EntriesOfReady
  <2>5. run' = Head(ready) /\ ready' = Tail(ready)
    BY <2>1, <2>2, <2>3, <2>4, RunNextRotates
  <2> QED
    BY <2>3, <2>5
<1> QED
  BY <1>1, <1>2, <1>3
-----------------------------------------------------------------------------
LEMMA InitPromise == Init => Promise!Init
<1> SUFFICES ASSUME Init
             PROVE  Promise!Init
  OBVIOUS
<1>1. run = Kernel
  BY DEF Init, run, KernelTask
<1>2. ready = <<>>
  BY InitIInv, ReadyIsSeq DEF Init, IInv
<1>3. begun = {Kernel}
  BY DEF Init, begun, Thread
<1> QED
  BY <1>1, <1>2, <1>3 DEF Promise!Init, run, ready, begun

LEMMA NextPromise == IInv /\ [Next]_vars => [Promise!Next]_(Promise!vars)
<1> SUFFICES ASSUME IInv, [Next]_vars
             PROVE  \/ Promise!Next
                    \/ UNCHANGED <<run, ready, begun>>
  BY DEF Promise!vars, run, ready, begun
<1> USE DistinctNow
<1>1. ASSUME UNCHANGED <<queueVars, starved>>, begun' = begun
      PROVE  UNCHANGED <<run, ready, begun>>
  BY <1>1 DEF run, ready, queueVars
<1>2. ASSUME ~starved, YieldTask, UNCHANGED starved, begun' = begun
      PROVE  Promise!Next
  <2>1. run # None
    BY <1>2, TasksAssumption DEF run, TypeOK, Task
  <2>2. Promise!Yield
    BY <1>2, <2>1, YieldRotates DEF Promise!Yield, Promise!Rotate, run, ready, begun
  <2> QED
    BY <2>2 DEF Promise!Next
<1>3. ASSUME ~starved, SwitchAway, begun' = begun
      PROVE  Promise!Next
  <2>1. run # None
    BY <1>3, TasksAssumption DEF run, TypeOK, Task
  <2>2. Promise!Finish
    BY <1>3, <2>1, EndRotates DEF Promise!Finish, Promise!Rotate, run, ready, begun
  <2> QED
    BY <2>2 DEF Promise!Next
<1>4. ASSUME NEW t \in Thread, NEW s, s # "unborn", state[t] # "unborn",
             state' = [state EXCEPT ![t] = s]
      PROVE  begun' = begun
  BY <1>4 DEF begun, TypeOKRest
<1>5. ASSUME NEW t \in Thread, NEW p \in Program, NEW s, s # "unborn",
             ~starved, Alive(t), StartTask(t, p, s)
      PROVE  Promise!Next
  <2> DEFINE x == [id |-> GetUnusedTaskId, thread |-> p, code |-> Code, stack |-> Stack]
  <2>1. /\ state[p] = "unborn" /\ Code # 0 /\ Stack # 0
        /\ NewTask(x)
        /\ state' = [state EXCEPT ![t] = s, ![p] = "ready"]
        /\ UNCHANGED starved
    BY <1>5 DEF StartTask
  <2>2. p \in Thread /\ t # p
    BY <1>5, <2>1 DEF Thread, Alive
  <2>3. Code \in Block /\ Stack \in Block
    <3>1. free \subseteq Nat /\ free \subseteq Block
      BY DEF TypeOK, Block
    <3> QED
      BY <2>1, <3>1, FirstIsLowest DEF Code, Stack
  <2>4. GetUnusedTaskId \in TaskId
    <3>1. UnusedIds \subseteq Nat /\ UnusedIds \subseteq TaskId /\ 0 \in TaskId
      BY TasksAssumption DEF UnusedIds, TaskId
    <3> QED
      BY <3>1, FirstIsLowest DEF GetUnusedTaskId
  <2>5. x \in Task /\ x.thread = p
    BY <2>2, <2>3, <2>4 DEF Task, Block
  <2> HIDE DEF x
  <2>6. task_queue_ptr + 2 <= NCells
    BY <1>5, <2>1, RoomForTwo
  <2>7. run # None /\ p \notin begun
    BY <1>5, <2>1, TasksAssumption DEF run, begun, TypeOK, Task
  <2>8. begun' = begun \cup {p}
    BY <1>5, <2>1, <2>2 DEF begun, TypeOKRest, Alive
  <2>9. /\ run' = Head(ready \o <<p, run>>)
        /\ ready' = Tail(ready \o <<p, run>>)
    BY <1>5, <2>1, <2>5, <2>6, NewTaskRotates
  <2>10. Promise!Start(p)
    BY <2>7, <2>8, <2>9 DEF Promise!Start, Promise!Rotate, run, ready, begun
  <2> QED
    BY <2>2, <2>10 DEF Promise!Next
<1>6. CASE UNCHANGED vars
  BY <1>1, <1>6 DEF vars, begun
<1>7. ASSUME NEW t \in Thread, GoOn(t) \/ Launch(t) \/ Sleep(t)
      PROVE  Promise!Next \/ UNCHANGED <<run, ready, begun>>
  <2>1. CASE Yield(t) \/ Spin(t) \/ ShellWaits(t)
    <3>1. /\ ~starved /\ YieldTask /\ UNCHANGED <<starved, state>>
      BY <2>1 DEF Yield, Spin, ShellWaits, Running
    <3> QED
      BY <1>2, <3>1 DEF begun
  <2>2. CASE Sleep(t)
    BY <1>2, <1>4, <2>2 DEF Sleep, Running
  <2>3. CASE End(t)
    BY <1>3, <1>4, <2>3 DEF End, Running
  <2>4. CASE LaunchReturns(t)
    BY <1>1, <1>3, <1>4, <2>4 DEF LaunchReturns, Running
  <2>5. CASE ShellGoesOn(t)
    BY <1>1, <1>4, <2>5 DEF ShellGoesOn, Running
  <2>6. CASE \E p \in Program : LaunchStarts(t, p) \/ ShellLaunch(t, p)
    <3>1. PICK p \in Program, s \in {"launching", "waiting", "ready"} :
            StartTask(t, p, s) /\ (LaunchStarts(t, p) \/ ShellLaunch(t, p))
      BY <2>6 DEF LaunchStarts, ShellLaunch
    <3>2. ~starved /\ Alive(t)
      BY <3>1, LauncherAlive DEF LaunchStarts, ShellLaunch, Running, Alive
    <3> QED
      BY <1>5, <3>1, <3>2
  <2>7. CASE LaunchFails(t)
    BY <1>1, <1>4, <2>7, LauncherAlive DEF LaunchFails, Alive
  <2>8. CASE ShellOutOfMemory(t)
    BY <1>1, <2>8 DEF ShellOutOfMemory, begun
  <2>9. CASE LaunchOutOfMemory(t)
    <3>1. ~starved /\ state[t] # "unborn" /\ UNCHANGED starved
      BY <2>9, LauncherAlive DEF LaunchOutOfMemory
    <3>2. \/ state' = [state EXCEPT ![t] = "messagebox"] /\ YieldTask
          \/ state' = [state EXCEPT ![t] = "memory_error"] /\ UNCHANGED queueVars
      BY <2>9 DEF LaunchOutOfMemory
    <3> QED
      BY <1>1, <1>2, <1>4, <3>1, <3>2
  <2> QED
    BY <1>7, <2>1, <2>2, <2>3, <2>4, <2>5, <2>6, <2>7, <2>8, <2>9 DEF GoOn, Launch
<1> QED
  BY <1>6, <1>7 DEF Next

(* The queue of task.asm is a first-in first-out run queue.                *)
THEOREM TasksRunInTurn == Spec => RoundRobin
<1> QED
  BY InitIInv, NextIInv, InitPromise, NextPromise, PTL DEF Spec, RoundRobin, Promise!Spec
=============================================================================
