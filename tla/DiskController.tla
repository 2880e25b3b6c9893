--------------------------- MODULE DiskController ---------------------------
(***************************************************************************)
(* The disk controller ports of bus.c over set_disk_sector,                *)
(* read_disk_into_memory and write_disk_from_memory of disk.c, driven by   *)
(* read_sector and write_sector of the ROM (smolrom/disk.asm), in a VM     *)
(* whose memory is paged by Pager.  Both sides share the file position,    *)
(* the page tables and the SPI RAM chip.                                   *)
(*                                                                         *)
(* One sector fills one slot, so buffers are aligned to sectors.  The two  *)
(* registers a routine saves are one write of any byte to its stack, and   *)
(* their restoring one read.                                               *)
(***************************************************************************)
EXTENDS Pager

CONSTANTS StackPage, StackSlot,  \* where rsp points when a routine is called
          PinnedOnly  \* only buffers in pages that are never flushed are used

ASSUME DiskAssumption ==
  /\ SwapRun > 0
  /\ StackPage \in VPage /\ StackSlot \in Slot
  /\ PinnedOnly \in BOOLEAN

VARIABLES bufPtr,  \* disk_controller.buffer_pointer
          rpc,     \* where the ROM routine is; "user" outside of it
          cmd      \* its arguments r0 (sector) and r2 (buffer), and which it is

diskVars == <<vars, bufPtr, rpc, cmd>>

(* The sectors below the swap area, as positions.                          *)
DataSector == (0 .. SwapRun - 1) \X Slot

Command == [kind : {"read", "write"}, sector : DataSector, page : VPage,
            slot : Slot]
NoCommand == [kind |-> "none", sector |-> <<0, 0>>, page |-> 0, slot |-> 0]

(* A page in a frame outside the range that load_page_in flushes.          *)
Pinned(p) == p \in Mapped /\ at[p] \notin Flushed

-----------------------------------------------------------------------------
(* FS_Get_Sector, and FS_Next_Sector n times.                              *)
SectorNumber(a) == a[1] * NSlots + a[2]
Advance(a, n) ==
  LET m == SectorNumber(a) + n IN <<m \div NSlots, m % NSlots>>

(* set_disk_sector: step on from the current position, or from the start   *)
(* of the file when that lies behind.                                      *)
SeekOneTooFar(s) == Advance(s, 1)
Seek(s) ==
  LET here == SectorNumber(pos)
      there == SectorNumber(s)
  IN  IF here = there THEN pos
      ELSE IF here < there THEN Advance(pos, there - here)
      ELSE Advance(<<0, 0>>, there)

(* The physical address the controller computes: it never asks whether the *)
(* page is in memory.                                                      *)
DmaPhysical == <<bufPtr[1] % NFrames, bufPtr[2]>>
DmaAddress == <<at[bufPtr[1]], bufPtr[2]>>

DiskInit ==
  /\ Init
  /\ bufPtr = <<0, 0>>
  /\ rpc = "user"
  /\ cmd = NoCommand

(* Outside of the routines the program uses its memory as it likes.        *)
UserAccess ==
  /\ rpc = "user"
  /\ Ask
  /\ UNCHANGED <<bufPtr, rpc, cmd>>

ServeAccess ==
  /\ Serve
  /\ UNCHANGED <<bufPtr, rpc, cmd>>

(* read_sector and write_sector: push r3, push r4.                         *)
CallWithoutPush(c) ==
  /\ rpc = "user" /\ pc = "idle"
  /\ PinnedOnly => Pinned(c.page)
  /\ cmd' = c /\ rpc' = "pushed"
  /\ UNCHANGED <<vars, bufPtr>>
CallSector(c) ==
  /\ rpc = "user"
  /\ PinnedOnly => Pinned(c.page)
  /\ \E b \in Byte : WriteRequest(StackPage, StackSlot, b)
  /\ cmd' = c
  /\ rpc' = "pushed"
  /\ UNCHANGED bufPtr

(* out r3, r2: port 0x80002000.                                            *)
SetBuffer ==
  /\ rpc = "pushed"
  /\ pc = "idle"
  /\ bufPtr' = <<cmd.page, cmd.slot>>
  /\ rpc' = "buffer"
  /\ UNCHANGED <<vars, cmd>>

(* out r4, r0: port 0x80003000, set_disk_sector and read_disk_into_memory. *)
ReadIntoMemory ==
  /\ rpc = "buffer"
  /\ cmd.kind = "read"
  /\ pos' = Seek(cmd.sector)
  /\ ChipWrite(DmaAddress, disk[pos'[1]][pos'[2]])
  /\ chip' = ChipClosed
  /\ rpc' = "return"
  /\ UNCHANGED <<disk, tableVars, streaming, prev, pc, opVars, copyVars,
                 retried, flushVars, bufPtr, cmd>>

(* out r4, r0: port 0x80004000, set_disk_sector and write_disk_from_memory. *)
WriteFromMemory ==
  /\ rpc = "buffer"
  /\ cmd.kind = "write"
  /\ pos' = Seek(cmd.sector)
  /\ \E b \in IF chip.open THEN Byte ELSE {ram[DmaAddress[1]][DmaAddress[2]]} :
       disk' = [disk EXCEPT ![pos'[1]][pos'[2]] = b]
  /\ chip' = ChipClosed
  /\ rpc' = "return"
  /\ UNCHANGED <<ram, tableVars, streaming, prev, pc, opVars, copyVars,
                 retried, flushVars, bufPtr, cmd>>

(* pop r4, pop r3, ret.                                                    *)
Return ==
  /\ rpc = "return"
  /\ ReadRequest(StackPage, StackSlot)
  /\ rpc' = "user"
  /\ cmd' = NoCommand
  /\ UNCHANGED bufPtr

DiskNext ==
  \/ UserAccess
  \/ ServeAccess
  \/ \E c \in Command : CallSector(c)
  \/ SetBuffer
  \/ ReadIntoMemory
  \/ WriteFromMemory
  \/ Return

DiskSpec == DiskInit /\ [][DiskNext]_diskVars

-----------------------------------------------------------------------------

(* A transfer finds the SPI chip free: the pushes of the routine, which    *)
(* runs from ROM, have ended any sequential read the VM had open, although *)
(* neither transfer function looks at is_consecutive_read.                 *)
ChipFreeAtTransfer == rpc = "buffer" => ~chip.open

(* Paging in between two transfers never touches a sector of the file      *)
(* system, and the transfers touch the sector asked for and no other,      *)
(* wherever paging left the position of the one file they share.           *)
OnlyAskedSector ==
  [][\A s \in DataSector :
       disk'[s[1]][s[2]] # disk[s[1]][s[2]] =>
         cmd.kind = "write" /\ cmd.sector = s /\ rpc = "buffer"]_diskVars

Promise == INSTANCE Machine WITH
             mem  <- View,
             req  <- [kind |-> op.kind, page |-> vpage, slot |-> op.slot,
                      byte |-> op.byte],
             res  <- result,
             dead <- pc = "fault",
             None <- NoAccess,
             Sector <- DataSector,
             NoTransfer <- NoCommand,
             sectors <- [s \in DataSector |-> disk[s[1]][s[2]]],
             io   <- IF rpc \in {"pushed", "buffer"} THEN cmd ELSE NoCommand

(* With buffers in pages that are never flushed, program and disk see flat *)
(* memory and whole sectors.                                               *)
FlatMachine == Promise!MachineSpec
=============================================================================
