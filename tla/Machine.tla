------------------------------- MODULE Machine -------------------------------
(***************************************************************************)
(* What the virtual machine and the ROM routines read_sector and           *)
(* write_sector promise together: flat memory as in Memory, and a disk     *)
(* whose sectors are moved whole between it and a buffer in that memory.   *)
(* A transfer is called for, and takes place in one step some accesses     *)
(* later; the accesses in between are those of the routine's stack.        *)
(***************************************************************************)
EXTENDS Memory

CONSTANTS Sector, NoTransfer

VARIABLES sectors,  \* the contents of the disk the program sees
          io        \* the transfer called for, or NoTransfer

machineVars == <<vars, sectors, io>>

Transfers == [kind : {"read", "write"}, sector : Sector, page : VPage, slot : Slot]

MachineInit ==
  /\ Init
  /\ sectors \in [Sector -> Byte]
  /\ io = NoTransfer

(* The program uses its memory, or calls for a transfer by an access.      *)
Use ==
  /\ Next
  /\ UNCHANGED <<sectors, io>>

Call ==
  /\ Issue
  /\ io = NoTransfer
  /\ io' \in Transfers
  /\ UNCHANGED sectors

ReadSector ==
  /\ req = None
  /\ io # NoTransfer /\ io.kind = "read"
  /\ mem' = [mem EXCEPT ![io.page][io.slot] = sectors[io.sector]]
  /\ io' = NoTransfer
  /\ UNCHANGED <<sectors, req, res, dead>>

WriteSector ==
  /\ req = None
  /\ io # NoTransfer /\ io.kind = "write"
  /\ sectors' = [sectors EXCEPT ![io.sector] = mem[io.page][io.slot]]
  /\ io' = NoTransfer
  /\ UNCHANGED <<mem, req, res, dead>>

MachineNext == Use \/ Call \/ ReadSector \/ WriteSector

MachineSpec == MachineInit /\ [][MachineNext]_machineVars
=============================================================================
