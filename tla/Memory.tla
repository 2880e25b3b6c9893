------------------------------- MODULE Memory -------------------------------
(***************************************************************************)
(* What the virtual machine promises the program it runs: one megabyte of  *)
(* flat memory (FOX32_MEMORY_RAM in cpu.h).  One access is in progress at  *)
(* a time; a write replaces one byte and a read returns the byte last      *)
(* written there.  Nothing is said of frames, of the swap area or of the   *)
(* sequential mode of the SPI chip: Pager is shown to implement this.      *)
(***************************************************************************)
CONSTANTS VPage,  \* pages of the address space backed by RAM
          Slot,   \* positions in a page
          Byte,
          None    \* the request when no access is in progress

VARIABLES mem,    \* the contents
          req,    \* the access in progress, or None
          res,    \* the byte the last read returned
          dead    \* the run has ended in a read fault

vars == <<mem, req, res, dead>>

Request == [kind : {"read", "write"}, page : VPage, slot : Slot, byte : Byte]

Init ==
  /\ mem \in [VPage -> [Slot -> Byte]]
  /\ req = None
  /\ res \in Byte
  /\ dead = FALSE

Issue ==
  /\ req = None /\ ~dead
  /\ req' \in Request
  /\ UNCHANGED <<mem, res, dead>>

Read ==
  /\ req # None /\ req.kind = "read"
  /\ res' = mem[req.page][req.slot]
  /\ req' = None
  /\ UNCHANGED <<mem, dead>>

Write ==
  /\ req # None /\ req.kind = "write"
  /\ mem' = [mem EXCEPT ![req.page][req.slot] = req.byte]
  /\ req' = None
  /\ UNCHANGED <<res, dead>>

(* A read beyond the RAM ends the run: main.c shows the error and stops.   *)
Fault ==
  /\ req = None /\ ~dead
  /\ dead' = TRUE
  /\ UNCHANGED <<mem, req, res>>

Next == Issue \/ Read \/ Write \/ Fault

Spec == Init /\ [][Next]_vars
=============================================================================
