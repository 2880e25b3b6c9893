--------------------------------- MODULE Boot ---------------------------------
(***************************************************************************)
(* The ROM from reset to the jump into the boot sector: entry and          *)
(* event_loop of smolrom/main.asm, get_next_event of event.asm, and        *)
(* start_boot_process of boot.asm, on the machine of DiskController.  The  *)
(* program is no longer arbitrary: it makes the ROM's accesses in order.   *)
(***************************************************************************)
EXTENDS DiskController

CONSTANTS EventPage, EventSlot,  \* where EVENT_QUEUE_POINTER is
          BootSlot,              \* 0x800, in page 0
          Bootable               \* sector contents that end in the magic bytes

BootPage == 0
BootSector == <<0, 0>>

(* What the layout of the ROM provides.                                    *)
BootAssumption ==
  /\ EventPage \in VPage /\ EventSlot \in Slot /\ BootSlot \in Slot
  /\ StackPage # BootPage /\ EventPage # BootPage /\ StackPage # EventPage
  /\ BootSlot # EventSlot
  /\ Bootable \subseteq Byte /\ Zero \notin Bootable
  /\ FlushFirst >= 3

VARIABLE bpc  \* where the ROM is

bootVars == <<diskVars, bpc>>

(* Any disk: its boot sector and its swap area may be bootable or not.     *)
BootInit == DiskInit /\ bpc = "entry"

At(here, there) ==
  /\ bpc = here /\ bpc' = there
  /\ pc = "idle" /\ rpc = "user"

Access1(A) == A /\ UNCHANGED <<bufPtr, rpc, cmd>>

(* mov [EVENT_QUEUE_POINTER], 0                                            *)
Entry ==
  /\ At("entry", "welcome")
  /\ Access1(WriteRequest(EventPage, EventSlot, Zero))

(* call debug_print                                                        *)
Welcome ==
  /\ At("welcome", "event_loop")
  /\ \E b \in Byte : Access1(WriteRequest(StackPage, StackSlot, b))

(* call get_next_event: event__init reads the queue pointer ...            *)
EventLoop ==
  /\ At("event_loop", "event__init")
  /\ Access1(ReadRequest(EventPage, EventSlot))

(* ... and sets it when it is zero; the queue is empty either way.         *)
EventInit ==
  /\ At("event__init", "start_boot_process")
  /\ \/ /\ result = Zero
        /\ \E b \in Byte \ {Zero} :
             Access1(WriteRequest(EventPage, EventSlot, b))
     \/ /\ result # Zero
        /\ UNCHANGED diskVars

(* Disk 0 is always inserted: call read_sector.                            *)
StartBootUnchecked ==
  /\ At("start_boot_process", "jumped")
  /\ CallSector([kind |-> "read", sector |-> BootSector,
                 page |-> BootPage, slot |-> BootSlot])
StartBoot ==
  /\ At("start_boot_process", "check_magic")
  /\ CallSector([kind |-> "read", sector |-> BootSector,
                 page |-> BootPage, slot |-> BootSlot])

(* cmp [0x000009FC], 0x523C334C                                            *)
CheckMagicElsewhere ==
  /\ At("check_magic", "decide")
  /\ Access1(ReadRequest(BootPage, EventSlot))
CheckMagic ==
  /\ At("check_magic", "decide")
  /\ Access1(ReadRequest(BootPage, BootSlot))

(* ifnz ret, or jmp 0x00000800.                                            *)
DecideUnchecked == At("decide", "jumped") /\ UNCHANGED diskVars
Decide ==
  /\ At("decide", IF result \in Bootable THEN "jumped" ELSE "event_loop")
  /\ UNCHANGED diskVars

Routine == SetBuffer \/ ReadIntoMemory \/ Return

BootNext ==
  \/ Entry \/ Welcome \/ EventLoop \/ EventInit \/ StartBoot \/ CheckMagic
  \/ Decide
  \/ (ServeAccess \/ Routine) /\ UNCHANGED bpc

BootSpec == BootInit /\ [][BootNext]_bootVars /\ WF_bootVars(BootNext)

-----------------------------------------------------------------------------

(* Page 0 of the swap area, which the machine has when it starts, has the  *)
(* magic bytes itself.                                                     *)
SwapIsBootable == disk[SwapRun + BootPage][BootSlot] \in Bootable

(* The ROM jumps to 0x800 only when the boot sector of disk 0 is there and *)
(* is bootable, although the first time it reads it the sector lands in    *)
(* another page.  The one exception is a swap area that has magic bytes at *)
(* 0x9FC too: they pass for those of the sector that went elsewhere.       *)
JumpsIntoBootSector ==
  bpc = "jumped" =>
    \/ View[BootPage][BootSlot] = disk[0][0] /\ disk[0][0] \in Bootable
    \/ SwapIsBootable /\ View[BootPage][BootSlot] = disk[SwapRun + BootPage][BootSlot]

(* From the jump on page 0, which holds the buffers of all the ROM's file  *)
(* system routines, is in memory and in no frame that is ever flushed.     *)
PinnedAtJump == bpc = "jumped" => Pinned(BootPage)

(* A bootable disk 0 is booted.                                            *)
Boots == disk[0][0] \in Bootable => <>(bpc = "jumped")
=============================================================================
