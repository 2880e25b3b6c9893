-------------------------------- MODULE Pager --------------------------------
(***************************************************************************)
(* Demand paging of the fox32 virtual machine: vm_read8, vm_write8 and     *)
(* spi_read8 of cpu.c over load_page_in and flush_physical_page_out of     *)
(* disk.c.  256 virtual pages live in a swap area of the disk image; 32    *)
(* frames of the SPI RAM hold the resident ones.  The VM is one thread, so *)
(* the actions are the steps of one call in program order; the loops over  *)
(* frames and over sectors take one action per iteration.                  *)
(*                                                                         *)
(* Data: a page is NSlots slots of one byte each, a slot standing for one  *)
(* 512-byte sector of the page (8 in the code).  A file position is a pair *)
(* <<run, slot>>: the image is cut in runs of NSlots sectors, the swap     *)
(* area starts at run SwapRun and page p is swapped to run SwapRun + p.    *)
(* A physical address is a pair <<frame, slot>>.                           *)
(***************************************************************************)
EXTENDS Naturals

CONSTANTS NPages,      \* virtual pages backed by RAM (256)
          SpacePages,  \* pages of the 32-bit address space a program may name
          NFrames,     \* frames of SPI RAM (32)
          FlushFirst,  \* first frame a flush empties (20)
          FlushCount,  \* number of frames a flush empties (8)
          NSlots,      \* sectors of a page (8)
          SwapRun,     \* where the swap area starts (15 MiB into the image)
          Byte, Zero

ASSUME PagerAssumption ==
  /\ NPages \in Nat \ {0}
  /\ SpacePages \in Nat /\ NPages <= SpacePages
  /\ NFrames \in Nat \ {0}
  /\ NSlots \in Nat \ {0}
  /\ SwapRun \in Nat
  /\ Zero \in Byte
  \* the NOTE in flush_physical_page_out: frame 0 is never flushed
  /\ FlushFirst \in Nat \ {0}
  /\ FlushCount \in Nat \ {0}
  /\ FlushFirst + FlushCount <= NFrames

VPage == 0 .. NPages - 1
Frame == 0 .. NFrames - 1
Slot  == 0 .. NSlots - 1
Run   == 0 .. SwapRun + NPages - 1
Flushed == FlushFirst .. FlushFirst + FlushCount - 1

Position == (0 .. SwapRun + NPages) \X Slot  \* of the file; the end included
Address  == (0 .. NFrames) \X Slot           \* physical; the end included

VARIABLES
  ram,        \* the SPI RAM: a slot is ram[frame][slot]
  disk,       \* the disk image: disk[run][slot]
  pos,        \* position of the file library
  resident,   \* page_is_in_memory_bitmap
  used,       \* physical_memory_bitmap
  at,         \* page_on_disk_is_at: frame of a page, 0 when it has none
  streaming,  \* is_consecutive_read
  prev,       \* previous_read_address
  chip,       \* the RAM chip: is a sequential read open, and what comes next
  pc,         \* where the call in progress is
  op, vpage,  \* the access asked for; the page number it is reduced to
  frame, k,   \* load_page_in: chosen frame; either copy loop: next slot
  retried,    \* load_page_in: the flag set once a flush was tried
  j, victim, savedPos,  \* flush_physical_page_out: frame offset, page, old_pos
  result      \* byte returned by the last read

tableVars == <<resident, used, at>>
chipVars  == <<streaming, prev, chip>>
flushVars == <<j, victim, savedPos>>
copyVars  == <<frame, k>>
opVars    == <<op, vpage, result>>
vars == <<ram, disk, pos, tableVars, chipVars, pc, opVars, copyVars, retried,
          flushVars>>

Access == [kind : {"none", "read", "write"}, page : 0 .. SpacePages - 1,
           slot : Slot, byte : Byte]
NoAccess == [kind |-> "none", page |-> 0, slot |-> 0, byte |-> Zero]

(* One step of FS_Next_Sector, and one step of an address.                 *)
SuccNoCarry(a) == <<a[1], a[2] + 1>>
Succ(a) == IF a[2] + 1 < NSlots THEN <<a[1], a[2] + 1>> ELSE <<a[1] + 1, 0>>

SwapStart(p) == <<SwapRun + p, 0>>

-----------------------------------------------------------------------------
(* The SPI RAM chip.  Between SpiRamSeqReadStart and SpiRamSeqReadEnd it   *)
(* streams bytes and takes no other command: a command given then, or a    *)
(* byte asked of a chip that is not streaming, returns anything, and a     *)
(* write given then is lost.                                               *)
ChipClosed == [open |-> FALSE, next |-> <<0, 0>>]

ChipRead(a) == IF chip.open = streaming THEN {ram[a[1]][a[2]]} ELSE Byte

ChipWrite(a, b) ==
  ram' = IF chip.open THEN ram ELSE [ram EXCEPT ![a[1]][a[2]] = b]

EndSeqReadForgotten == UNCHANGED <<streaming, chip>>
EndSeqRead ==
  /\ streaming' = FALSE
  /\ chip' = IF streaming THEN ChipClosed ELSE chip

ConsecutiveOffset(a) == a[2] = Succ(prev)[2]
Consecutive(a) == a = Succ(prev)

(* spi_read8: a read at the address after the previous one opens or        *)
(* continues a sequential read; any other read ends it.                    *)
SpiRead8(a) ==
  /\ prev' = a
  /\ \/ /\ Consecutive(a)
        /\ result' \in ChipRead(IF streaming THEN chip.next ELSE a)
        /\ streaming' = TRUE
        /\ chip' = [open |-> TRUE,
                    next |-> Succ(IF streaming THEN chip.next ELSE a)]
     \/ /\ ~Consecutive(a)
        /\ result' \in ChipRead(a)
        /\ EndSeqRead

-----------------------------------------------------------------------------
Init ==
  /\ ram = [f \in Frame |-> [s \in Slot |-> Zero]]
  /\ disk \in [Run -> [Slot -> Byte]]
  /\ pos = SwapStart(0)
  /\ resident = {}
  /\ used = {}
  /\ at = [p \in VPage |-> 0]
  /\ streaming = FALSE
  /\ prev = <<0, 0>>
  /\ chip = ChipClosed
  /\ pc = "idle"
  /\ op = NoAccess
  /\ vpage = 0
  /\ frame = 0 /\ k = 0 /\ retried = FALSE
  /\ j = 0 /\ victim = 0 /\ savedPos = <<0, 0>>
  /\ result = Zero

(* Entry of vm_read8, for an address inside the RAM.                       *)
ReadRequest(p, s) ==
  /\ pc = "idle"
  /\ p < NPages
  /\ pc' = "translate"
  /\ op' = [kind |-> "read", page |-> p, slot |-> s, byte |-> Zero]
  /\ vpage' = p
  /\ UNCHANGED <<ram, disk, pos, tableVars, chipVars, result, copyVars,
                 retried, flushVars>>

(* vm_read8 of an address that is neither RAM nor ROM: FOX32_ERR_FAULT_RD. *)
ReadFault(p) ==
  /\ pc = "idle"
  /\ p >= NPages
  /\ pc' = "fault"
  /\ UNCHANGED <<ram, disk, pos, tableVars, chipVars, opVars, copyVars,
                 retried, flushVars>>

(* Entry of vm_write8: the sequential read ends, and the page number is    *)
(* cut to eight bits without a bounds check.                               *)
WriteRequest(p, s, b) ==
  /\ pc = "idle"
  /\ pc' = "translate"
  /\ op' = [kind |-> "write", page |-> p, slot |-> s, byte |-> b]
  /\ vpage' = p % NPages
  /\ EndSeqRead
  /\ UNCHANGED <<ram, disk, pos, tableVars, prev, result, copyVars, retried,
                 flushVars>>

(* The residency test of vm_read8 and vm_write8.                           *)
Hit ==
  /\ pc = "translate"
  /\ vpage \in resident
  /\ pc' = "access"
  /\ UNCHANGED <<ram, disk, pos, tableVars, chipVars, opVars, copyVars,
                 retried, flushVars>>

(* Entry of load_page_in.                                                  *)
Miss ==
  /\ pc = "translate"
  /\ vpage \notin resident
  /\ pc' = "find"
  /\ EndSeqRead
  /\ UNCHANGED <<ram, disk, pos, tableVars, prev, opVars, copyVars, retried,
                 flushVars>>

(* The clear bits of physical_memory_bitmap.                               *)
FreeFramesBelowFlushed == {f \in Frame \ used : f \notin Flushed}
FreeFramesAll == Frame
FreeFrames == Frame \ used

(* load_page_in: take the lowest free frame, mark it and the page, and     *)
(* seek to the page's place in the swap area.                              *)
TakeFrame ==
  /\ pc = "find"
  /\ \E f \in FreeFrames :
       /\ \A g \in FreeFrames : f <= g
       /\ frame' = f
       /\ used' = used \cup {f}
  /\ resident' = resident \cup {vpage}
  /\ pos' = SwapStart(vpage)
  /\ k' = 0
  /\ retried' = FALSE
  /\ pc' = "load"
  /\ UNCHANGED <<ram, disk, at, chipVars, opVars, flushVars>>

(* load_page_in: no frame is free, so the fixed range is flushed once.     *)
StartFlush ==
  /\ pc = "find"
  /\ FreeFrames = {}
  /\ j' = 0
  /\ pc' = "flush"
  /\ UNCHANGED <<ram, disk, pos, tableVars, chipVars, opVars, copyVars,
                 retried, victim, savedPos>>

(* flush_physical_page_out(20 + j), up to its copy loop: find the page     *)
(* that sits in the frame, by its entry alone.                             *)
OwnersButLast(f) == {p \in VPage : p + 1 < NPages /\ at[p] = f}
Owners(f) == {p \in VPage : at[p] = f}

FlushedFromZero(i) == i
FlushedFrame(i) == FlushFirst + i

FlushFrame ==
  /\ pc = "flush"
  /\ j < FlushCount
  /\ EndSeqRead
  /\ savedPos' = pos
  /\ IF Owners(FlushedFrame(j)) = {}
     THEN /\ pc' = "pageNotFound"
          /\ UNCHANGED <<pos, resident, used, victim, k>>
     ELSE /\ victim' \in Owners(FlushedFrame(j))
          /\ \A q \in Owners(FlushedFrame(j)) : victim' <= q
          /\ resident' = resident \ {victim'}
          /\ used' = used \ {FlushedFrame(j)}
          /\ pos' = SwapStart(victim')
          /\ k' = 0
          /\ pc' = "flushCopy"
  /\ UNCHANGED <<ram, disk, at, prev, opVars, frame, retried, j>>

(* The copy loop of flush_physical_page_out and, after the last sector,    *)
(* its end: the page has no frame any more and the position is restored.   *)
FlushSector ==
  /\ pc = "flushCopy"
  /\ \E b \in ChipRead(<<FlushedFrame(j), k>>) :
       disk' = [disk EXCEPT ![pos[1]][pos[2]] = b]
  /\ \/ /\ k + 1 < NSlots
        /\ k' = k + 1
        /\ pos' = Succ(pos)
        /\ UNCHANGED <<at, pc, flushVars>>
     \/ /\ k + 1 = NSlots
        /\ k' = 0
        /\ at' = [at EXCEPT ![victim] = 0]
        /\ pos' = savedPos
        /\ j' = j + 1
        /\ victim' = 0
        /\ savedPos' = <<0, 0>>
        /\ pc' = "flush"
  /\ UNCHANGED <<ram, resident, used, chipVars, opVars, frame, retried>>

(* load_page_in, after the flush loop: look again, but only once.          *)
Retry ==
  /\ pc = "flush"
  /\ j = FlushCount
  /\ j' = 0
  /\ retried' = TRUE
  /\ pc' = IF retried THEN "noFreePage" ELSE "find"
  /\ UNCHANGED <<ram, disk, pos, tableVars, chipVars, opVars, copyVars,
                 victim, savedPos>>

(* The copy loop of load_page_in and, after the last sector, its end: the  *)
(* page is given its frame.  The position stays where the copy ended.      *)
LoadSector ==
  /\ pc = "load"
  /\ ChipWrite(<<frame, k>>, disk[pos[1]][pos[2]])
  /\ pos' = Succ(pos)
  /\ \/ /\ k + 1 < NSlots
        /\ k' = k + 1
        /\ UNCHANGED <<at, pc, frame>>
     \/ /\ k + 1 = NSlots
        /\ k' = 0
        /\ frame' = 0
        /\ at' = [at EXCEPT ![vpage] = frame]
        /\ pc' = "access"
  /\ UNCHANGED <<disk, resident, used, chipVars, opVars, retried, flushVars>>

(* End of vm_read8 and of vm_write8: the access to the frame.              *)
FinishRead ==
  /\ pc = "access"
  /\ op.kind = "read"
  /\ SpiRead8(<<at[vpage], op.slot>>)
  /\ pc' = "idle"
  /\ op' = NoAccess
  /\ vpage' = 0
  /\ UNCHANGED <<ram, disk, pos, tableVars, copyVars, retried, flushVars>>

FinishWrite ==
  /\ pc = "access"
  /\ op.kind = "write"
  /\ ChipWrite(<<at[vpage], op.slot>>, op.byte)
  /\ pc' = "idle"
  /\ op' = NoAccess
  /\ vpage' = 0
  /\ UNCHANGED <<disk, pos, tableVars, chipVars, result, copyVars, retried,
                 flushVars>>

-----------------------------------------------------------------------------
(* What the program asks, and the steps the VM takes to serve it.          *)
Ask ==
  \E p \in 0 .. SpacePages - 1 :
    \/ \E s \in Slot : ReadRequest(p, s)
    \/ ReadFault(p)
    \/ \E s \in Slot, b \in Byte : WriteRequest(p, s, b)

Serve ==
  \/ Hit \/ Miss \/ TakeFrame \/ StartFlush \/ FlushFrame
  \/ FlushSector \/ Retry \/ LoadSector \/ FinishRead \/ FinishWrite

Next == Ask \/ Serve

Spec == Init /\ [][Next]_vars

(* The interpreter loop always goes on with the call it is in.             *)
FairSpec == Spec /\ WF_vars(Serve)

-----------------------------------------------------------------------------
(* A sane state of every variable.                                         *)
TypeOK ==
  /\ ram \in [Frame -> [Slot -> Byte]]
  /\ disk \in [Run -> [Slot -> Byte]]
  /\ pos \in Position
  /\ resident \subseteq VPage
  /\ used \subseteq Frame
  /\ at \in [VPage -> Frame]
  /\ streaming \in BOOLEAN
  /\ prev \in Frame \X Slot
  /\ chip \in [open : BOOLEAN, next : Address]
  /\ pc \in {"idle", "translate", "find", "flush", "flushCopy", "load",
              "access", "fault", "pageNotFound", "noFreePage"}
  /\ op \in Access
  /\ vpage \in VPage
  /\ frame \in Frame
  /\ k \in Slot
  /\ retried \in BOOLEAN
  /\ j \in 0 .. FlushCount
  /\ victim \in VPage
  /\ savedPos \in Position
  /\ result \in Byte

(* The pages whose contents are in their frame: resident, and not the one  *)
(* load_page_in has marked but not yet read from the swap area.            *)
Mapped == {p \in resident : pc = "load" => p # vpage}

(* The three page tables tell one story between any two steps: two pages   *)
(* never share a frame, a frame is marked used exactly when a page is in   *)
(* it or on its way in or out, and a page that is not resident has entry   *)
(* 0, which is what lets flush_physical_page_out find a frame's page by    *)
(* its entry alone although it never looks at the residency bitmap.        *)
TablesAgree ==
  /\ \A p, q \in Mapped : at[p] = at[q] => p = q
  /\ \A f \in Frame :
       f \in used <=> (\E p \in Mapped : at[p] = f) \/ (pc = "load" /\ f = frame)
  /\ \A p \in VPage \ Mapped :
       at[p] = IF pc = "flushCopy" /\ p = victim THEN FlushedFrame(j) ELSE 0

(* The endless loops behind "page not found?" and "flushed but still no    *)
(* page?" are never entered, however the program uses its memory.          *)
NeverStuck == pc \notin {"pageNotFound", "noFreePage"}

(* is_consecutive_read is the state of the chip, the chip streams from the *)
(* address after the last read, and no other command is given to it while  *)
(* it streams (the copies of a flush, of a load, a write).                 *)
StreamCoherent ==
  /\ chip.open = streaming
  /\ streaming => chip.next = Succ(prev)
  /\ pc \in {"find", "flush", "flushCopy", "load"} => ~streaming
  /\ pc = "access" /\ op.kind = "write" => ~streaming

(* A page that got a frame outside 20..27 keeps it: eight frames serve all *)
(* later paging, whatever the program does.                                *)
PinnedForEver ==
  [][\A p \in Mapped : at[p] \notin Flushed =>
        p \in Mapped' /\ at'[p] = at[p]]_vars

(* Every access is answered.                                               *)
Answered == (pc = "translate") ~> (pc = "idle")

-----------------------------------------------------------------------------
(* The byte of a page is in its frame when the page is mapped or still     *)
(* being copied out, and in the swap area otherwise.                       *)
Home(p) ==
  IF pc = "flushCopy" /\ p = victim THEN ram[FlushedFrame(j)]
  ELSE IF p \in Mapped THEN ram[at[p]] ELSE disk[SwapRun + p]

(* The memory the program sees.                                            *)
View == [p \in VPage |-> Home(p)]

Mem == INSTANCE Memory WITH
         mem  <- View,
         req  <- [kind |-> op.kind, page |-> vpage, slot |-> op.slot,
                  byte |-> op.byte],
         res  <- result,
         dead <- pc = "fault",
         None <- NoAccess

(* The program sees flat memory: however pages move between the frames and *)
(* the swap area and however reads are streamed, a read returns the byte   *)
(* last written.                                                           *)
FlatMemory == Mem!Spec
=============================================================================
