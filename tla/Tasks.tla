-------------------------------- MODULE Tasks --------------------------------
(***************************************************************************)
(* The cooperative tasks of smolos: the queue of kernel/task.asm, the      *)
(* launchers kernel/fxf/launch.asm and applications/sh/launch.asm, and the *)
(* start of the kernel in main.asm.  Nothing interrupts a task, so what it *)
(* does between two yields is one action.                                  *)
(*                                                                         *)
(* Data: a thread is a run of a program, and stands for the instruction    *)
(* and stack pointer that take a task back to where it was.  The heap is a *)
(* row of blocks; an allocation takes the first free one, or fails.        *)
(***************************************************************************)
EXTENDS Naturals, FiniteSets

CONSTANTS MaxId,      \* greatest task ID (31)
          QueueSize,  \* entries reserved at task_queue_bottom (32)
          NCells,     \* entries modelled: from QueueSize on, what lies behind
          Program,    \* the program runs that may be launched
          Kernel,     \* the thread that starts the system
          NBlocks,    \* blocks of the heap
          None,       \* no ID: no launch has returned yet, or it returned
                      \* 0xFFFFFFFF; no thread
          Careful     \* programs are launched only while an ID is unused

Thread == Program \cup {Kernel}

ASSUME TasksAssumption ==
  /\ MaxId \in Nat \ {0}
  /\ QueueSize \in Nat /\ MaxId + 1 <= QueueSize
  /\ NCells \in Nat /\ QueueSize <= NCells
  /\ IsFiniteSet(Program) /\ Cardinality(Program) + 1 <= NCells
  /\ Kernel \notin Program
  /\ NBlocks \in Nat
  /\ None \notin Thread \cup Nat
  /\ Careful \in BOOLEAN

TaskId == 0 .. MaxId
Cell   == 0 .. NCells - 1
Block  == 1 .. NBlocks  \* by address; 0 is the null pointer
Task   == [id : TaskId, thread : Thread, code : 0 .. NBlocks, stack : 0 .. NBlocks]

VARIABLES
  task_id_bitmap,      \* the IDs marked used
  queue,               \* the memory from task_queue_bottom on
  task_queue_ptr,      \* number of entries
  current_task,
  starved,             \* the panic of task_empty
  free,                \* the free blocks of the heap
  launch_fxf_task_id,  \* global of kernel/fxf/launch.asm
  state,               \* where each thread is
  made,                \* the ID its last launch took; in the shell its own
                       \* launch_fxf_task_id
  child,               \* the thread its last launch started
  r0                   \* what its last launch_fxf_from_disk returned

queueVars  == <<queue, task_queue_ptr, current_task>>
launchVars == <<launch_fxf_task_id, made, child, r0>>
vars == <<task_id_bitmap, queueVars, starved, free, launchVars, state>>

KernelTask == [id |-> 0, thread |-> Kernel, code |-> 0, stack |-> 0]

Init ==
  /\ task_id_bitmap = {}
  /\ queue = [c \in Cell |-> KernelTask]
  /\ task_queue_ptr = 0
  /\ current_task = KernelTask
  /\ starved = FALSE
  /\ free = Block
  /\ launch_fxf_task_id = 0
  /\ state = [t \in Thread |-> IF t = Kernel THEN "startup" ELSE "unborn"]
  /\ made = [t \in Thread |-> 0]
  /\ child = [t \in Thread |-> t]
  /\ r0 = [t \in Thread |-> None]

Running(t, s) == ~starved /\ current_task.thread = t /\ state[t] = s

-----------------------------------------------------------------------------
(* yield_task_0: the first of the n entries of q runs, the others move up. *)
ShiftOneShort(q, n) ==
  [c \in Cell |-> IF c + 2 < n THEN q[c + 1] ELSE q[c]]
Shift(q, n) == [c \in Cell |-> IF c + 1 < n THEN q[c + 1] ELSE q[c]]

RunLast(q, n) ==
  current_task' = q[n - 1] /\ queue' = q /\ task_queue_ptr' = n - 1
RunNextKept(q, n) ==
  current_task' = q[0] /\ queue' = Shift(q, n) /\ task_queue_ptr' = n
RunNext(q, n) ==
  /\ current_task' = q[0]
  /\ queue' = Shift(q, n)
  /\ task_queue_ptr' = n - 1

(* yield_task and save_state_and_yield_task.                               *)
Store(q, n, task) == [q EXCEPT ![n] = task]

YieldTask == RunNext(Store(queue, task_queue_ptr, current_task), task_queue_ptr + 1)

(* new_task, up to the next time its caller runs.                          *)
NewTaskAtOnce(task) ==
  /\ task_id_bitmap' = task_id_bitmap \cup {task.id}
  /\ queue' = Store(queue, task_queue_ptr, current_task)
  /\ task_queue_ptr' = task_queue_ptr + 1
  /\ current_task' = task
NewTaskSavedTwice(task) ==
  /\ task_id_bitmap' = task_id_bitmap \cup {task.id}
  /\ LET q == Store(Store(queue, task_queue_ptr, task), task_queue_ptr + 1, current_task)
     IN RunNext(Store(q, task_queue_ptr + 2, current_task), task_queue_ptr + 3)
NewTask(task) ==
  /\ task_id_bitmap' = task_id_bitmap \cup {task.id}
  /\ RunNext(Store(Store(queue, task_queue_ptr, task), task_queue_ptr + 1, current_task),
             task_queue_ptr + 2)

(* get_unused_task_id: the lowest one from 1, or zero.                     *)
UnusedIds == (1 .. MaxId) \ task_id_bitmap

First(S) == IF S = {} THEN 0 ELSE CHOOSE i \in S : \A n \in S : i <= n

GetUnusedTaskId == First(UnusedIds)

(* end_current_task_no_mark_no_free.                                       *)
SwitchAway ==
  IF task_queue_ptr = 0
  THEN starved' = TRUE /\ UNCHANGED queueVars
  ELSE RunNext(queue, task_queue_ptr) /\ UNCHANGED starved

-----------------------------------------------------------------------------
(* A running program yields, by reading a stream for instance.             *)
Yield(t) ==
  /\ Running(t, "ready")
  /\ YieldTask
  /\ UNCHANGED <<task_id_bitmap, starved, free, launchVars, state>>

(* end_current_task: the ID and the blocks of the task are given back.     *)
BlocksOf(a) == {a.code, a.stack} \ {0}
BlocksOfNext == BlocksOf(queue[0])
BlocksOfTask == BlocksOf(current_task)
LeaveId == UNCHANGED task_id_bitmap
ClearId == task_id_bitmap' = task_id_bitmap \ {current_task.id}

End(t) ==
  /\ Running(t, "ready")
  /\ ClearId
  /\ free' = free \cup BlocksOfTask
  /\ state' = [state EXCEPT ![t] = "ended"]
  /\ SwitchAway
  /\ UNCHANGED launchVars

(* sleep_task: the clock port is not implemented and reads zero, so the    *)
(* loop that yields until the time has come has no end.                    *)
Sleep(t) ==
  /\ Running(t, "ready")
  /\ state' = [state EXCEPT ![t] = "asleep"]
  /\ YieldTask
  /\ UNCHANGED <<task_id_bitmap, starved, free, launchVars>>

(* Its loop, and the one of new_messagebox, whose button nobody can click. *)
Spin(t) ==
  /\ Running(t, "asleep") \/ Running(t, "messagebox")
  /\ YieldTask
  /\ UNCHANGED <<task_id_bitmap, starved, free, launchVars, state>>

-----------------------------------------------------------------------------
(* Both launchers once the program is in memory.                           *)
Code  == First(free)
Stack == First(free \ {Code})

StartTask(t, p, s) ==
  /\ state[p] = "unborn"
  /\ Code # 0 /\ Stack # 0
  /\ Careful => UnusedIds # {}
  /\ free' = free \ {Code, Stack}
  /\ NewTask([id |-> GetUnusedTaskId, thread |-> p, code |-> Code, stack |-> Stack])
  /\ made' = [made EXCEPT ![t] = GetUnusedTaskId]
  /\ child' = [child EXCEPT ![t] = p]
  /\ state' = [state EXCEPT ![t] = s, ![p] = "ready"]
  /\ UNCHANGED starved

Launcher(t) == Running(t, IF t = Kernel THEN "startup" ELSE "ready")

(* launch_fxf_from_disk: the file is a program and memory suffices.        *)
LaunchStarts(t, p) ==
  /\ Launcher(t)
  /\ StartTask(t, p, "launching")
  /\ launch_fxf_task_id' = GetUnusedTaskId
  /\ r0' = [r0 EXCEPT ![t] = None]

(* The file is missing, or what was read is not an FXF binary: the blocks  *)
(* it took are free again.  The kernel stops without a shell.              *)
LaunchFails(t) ==
  /\ Launcher(t)
  /\ r0' = [r0 EXCEPT ![t] = None]
  /\ state' = [state EXCEPT ![t] = IF t = Kernel THEN "startup_error" ELSE "ready"]
  /\ UNCHANGED <<task_id_bitmap, queueVars, starved, free, launch_fxf_task_id,
                 made, child>>

(* An allocation fails.  When it is the second one, the block of the       *)
(* binary stays allocated.  The message box takes two blocks for its       *)
(* window, and yields for the first time; without them memory_error stops  *)
(* the system.                                                             *)
LaunchOutOfMemory(t) ==
  /\ Launcher(t)
  /\ \E taken \in SUBSET free :
       /\ free' = free \ taken
       /\ \/ /\ Cardinality(taken) \in 2 .. 3
             /\ state' = [state EXCEPT ![t] = "messagebox"]
             /\ YieldTask
          \/ /\ Cardinality(taken) <= 2
             /\ state' = [state EXCEPT ![t] = "memory_error"]
             /\ UNCHANGED queueVars
  /\ UNCHANGED <<task_id_bitmap, starved, launchVars>>

(* launch_fxf_from_disk goes on when its caller runs again, and returns    *)
(* the global; main.asm then leaves the queue for good.                    *)
LaunchReturns(t) ==
  /\ Running(t, "launching")
  /\ r0' = [r0 EXCEPT ![t] = launch_fxf_task_id]
  /\ IF t = Kernel
     THEN state' = [state EXCEPT ![t] = "ended"] /\ SwitchAway
     ELSE state' = [state EXCEPT ![t] = "ready"] /\ UNCHANGED <<queueVars, starved>>
  /\ UNCHANGED <<task_id_bitmap, free, launch_fxf_task_id, made, child>>

(* launch_fxf of the shell; with a '*' prefix it does not wait.            *)
ShellLaunch(t, p) ==
  /\ Running(t, "ready")
  /\ \E s \in {"waiting", "ready"} : StartTask(t, p, s)
  /\ r0' = [r0 EXCEPT ![t] = None]
  /\ UNCHANGED launch_fxf_task_id

(* It prints a message when memory does not suffice, and keeps the block.  *)
ShellOutOfMemory(t) ==
  /\ Running(t, "ready")
  /\ free' \in {free, free \ {Code}}
  /\ UNCHANGED <<task_id_bitmap, queueVars, starved, launchVars, state>>

(* launch_fxf_yield_loop.                                                  *)
ShellWaits(t) ==
  /\ Running(t, "waiting")
  /\ made[t] \in task_id_bitmap
  /\ YieldTask
  /\ UNCHANGED <<task_id_bitmap, starved, free, launchVars, state>>

ShellGoesOn(t) ==
  /\ Running(t, "waiting")
  /\ made[t] \notin task_id_bitmap
  /\ state' = [state EXCEPT ![t] = "ready"]
  /\ UNCHANGED <<task_id_bitmap, queueVars, starved, free, launchVars>>

-----------------------------------------------------------------------------
Launch(t) ==
  \/ \E p \in Program : LaunchStarts(t, p) \/ ShellLaunch(t, p)
  \/ LaunchFails(t) \/ LaunchOutOfMemory(t) \/ ShellOutOfMemory(t)

(* What a task does next without starting another.                         *)
GoOn(t) ==
  \/ Yield(t) \/ End(t) \/ Spin(t) \/ LaunchReturns(t) \/ ShellWaits(t)
  \/ ShellGoesOn(t)

Next == \E t \in Thread : GoOn(t) \/ Launch(t) \/ Sleep(t)

Spec == Init /\ [][Next]_vars

(* Cooperation: a running program yields or ends in the end.               *)
FairSpec == Spec /\ WF_vars(\E t \in Thread : GoOn(t))

-----------------------------------------------------------------------------
Alive(t) == state[t] \notin {"unborn", "ended"}

(* The tasks there are: the entries of the queue, and behind them at place *)
(* task_queue_ptr the one that runs.                                       *)
Place == IF starved THEN {} ELSE 0 .. task_queue_ptr
TaskAt(c) == IF c = task_queue_ptr THEN current_task ELSE queue[c]
Live == {TaskAt(c) : c \in Place}

TypeOK ==
  /\ task_id_bitmap \subseteq TaskId
  /\ queue \in [Cell -> Task]
  /\ task_queue_ptr \in Cell
  /\ current_task \in Task
  /\ starved \in BOOLEAN
  /\ free \subseteq Block
  /\ launch_fxf_task_id \in TaskId
  /\ state \in [Thread -> {"unborn", "startup", "startup_error", "ready",
                           "launching", "waiting", "asleep", "messagebox",
                           "memory_error", "ended"}]
  /\ made \in [Thread -> TaskId]
  /\ child \in [Thread -> Thread]
  /\ r0 \in [Thread -> TaskId \cup {None}]

(* Every thread that has begun and not ended is in the queue or running,   *)
(* once: the copying of entries loses and doubles none, and the panic      *)
(* "Scheduler starved" comes only when nothing is left to run.             *)
NoTaskLost ==
  /\ \A c, d \in Place : TaskAt(c).thread = TaskAt(d).thread => c = d
  /\ \A t \in Thread : Alive(t) <=> \E a \in Live : a.thread = t

(* Two tasks never have the same ID, and the bitmap says which are used.   *)
IdsAgree ==
  /\ \A a, b \in Live : a.id = b.id => a = b
  /\ task_id_bitmap = {a.id : a \in Live} \ {0}

(* The code and the stack of a task are its own and not free, although a   *)
(* task frees them while it still runs on them.                            *)
BlocksOwned ==
  /\ \A a \in Live : BlocksOf(a) \cap free = {}
  /\ \A a \in Live : a.code = a.stack => a.code = 0
  /\ \A a, b \in Live : a # b => BlocksOf(a) \cap BlocksOf(b) = {}

(* The shell: "loop until the launched task ends" (sh/launch.asm).  It     *)
(* tests whether an ID is used, and a later launch could take that ID.  It *)
(* is still right: new_task queues a task right before the one that made   *)
(* it, and does not run it at once as its comment says, so that nobody     *)
(* runs between the end and the test.                                      *)
ShellSeesTheEnd ==
  \A t \in Thread : state[t] = "waiting" =>
    (made[t] \notin task_id_bitmap <=> state[child[t]] = "ended")

(* "32 tasks * 5 entries per task * 4 bytes per word": no task is stored   *)
(* past the reserved entries, where the code of vfs.asm begins.  True only *)
(* as long as programs are launched while an ID is unused.                 *)
QueueFits ==
  [][\A c \in Cell : c >= QueueSize => queue'[c] = queue[c]]_vars

(* A task in the queue runs in the end, if the others yield and the        *)
(* message box of a failed launch does not stop the system.                *)
Queued(t) == \E c \in Cell : c < task_queue_ptr /\ queue[c].thread = t
Stopped == \E t \in Thread : state[t] = "memory_error"
EveryTaskRuns == \A t \in Thread : Queued(t) ~> current_task.thread = t \/ Stopped

Promise == INSTANCE Scheduler WITH
             Nobody <- None,
             run    <- IF starved THEN None ELSE current_task.thread,
             ready  <- [c \in 1 .. task_queue_ptr |-> queue[c - 1].thread],
             begun  <- {t \in Thread : state[t] # "unborn"}

(* Tasks run in the order in which they entered the queue.                 *)
RoundRobin == Promise!Spec

-----------------------------------------------------------------------------
(* launch_fxf_from_disk returns the "task ID of the new task" (launch.asm),*)
(* read from a global after other tasks have run.                          *)
ReturnsItsTask == \A t \in Thread : r0[t] \in TaskId => r0[t] = made[t]
=============================================================================
