---------------------------- MODULE Pager_proofs ----------------------------
(***************************************************************************)
(* The invariants of Pager, DiskController and Boot for every number of    *)
(* pages, frames and slots, every flushed range above frame 0, every size  *)
(* of the disk and every set of bytes.                                     *)
(*                                                                         *)
(* Pager: TablesAgree, NeverStuck and StreamCoherent are not inductive:    *)
(* whether the flush finds the page of a frame depends on how far its loop *)
(* has come, and whether the tables agree after a copy on which page is    *)
(* being copied.  CallState says what the local variables mean at each     *)
(* place.                                                                  *)
(*                                                                         *)
(* DiskController: the controller and the pager share one file, one SPI    *)
(* RAM chip and the page tables without getting in each other's way.       *)
(*                                                                         *)
(* Boot: the ROM jumps into the boot sector and nowhere else, for every    *)
(* place of the event queue and of the stack, every size of the memory     *)
(* with three frames in front of the flushed ones (BootAssumption), and    *)
(* every contents of the disk, save that a swap area with magic bytes of   *)
(* its own at 0x9FC is jumped into instead (SwapIsBootable).  The ROM uses *)
(* three pages, so that no frame is flushed before it jumps; and a         *)
(* transfer puts the boot sector into page 0 or into a page that the ROM   *)
(* does not look at.                                                       *)
(***************************************************************************)
EXTENDS Boot, TLAPS

(* These only name an expression, and are expanded in every proof.         *)
USE DEF FlushedFrame, FreeFrames, Consecutive

CallState ==
  /\ pc \in {"translate", "find", "flush", "flushCopy", "load", "access"} =>
       op.kind \in {"read", "write"}
  /\ pc \in {"idle", "fault"} => op = NoAccess /\ vpage = 0
  /\ pc = "translate" /\ op.kind = "write" => ~streaming
  /\ pc \in {"find", "flush", "flushCopy"} => vpage \notin resident
  /\ pc \in {"load", "access"} => vpage \in resident
  /\ pc = "load" =>
       /\ pos = <<SwapRun + vpage, k>>
       /\ frame \in used
       /\ \A p \in resident : p # vpage => at[p] # frame
  /\ pc = "flush" => used = Frame \ (FlushFirst .. FlushFirst + j - 1)
  /\ pc = "flushCopy" =>
       /\ j < FlushCount
       /\ used = Frame \ (FlushFirst .. FlushFirst + j)
       /\ victim \notin resident
       /\ pos = <<SwapRun + victim, k>>
  /\ pc # "flushCopy" => victim = 0
  /\ retried => pc = "find" /\ used # Frame

IInv == TypeOK /\ TablesAgree /\ NeverStuck /\ StreamCoherent /\ CallState

-----------------------------------------------------------------------------
(* The values the actions give the variables are in range.                 *)
LEMMA Ranges ==
  /\ 0 \in VPage /\ 0 \in Frame /\ 0 \in Slot /\ 0 \in 0 .. FlushCount
  /\ 0 \in 0 .. SpacePages - 1
  /\ Zero \in Byte
  /\ <<0, 0>> \in Position /\ <<0, 0>> \in Address
  /\ \A p \in 0 .. SpacePages - 1 : p < NPages => p \in VPage
  /\ \A p \in VPage : SwapStart(p) \in Position /\ SwapRun + p \in Run
  /\ \A i \in 0 .. FlushCount : i < FlushCount => FlushFirst + i \in Frame \ {0}
  /\ \A f \in Frame, s \in Slot : <<f, s>> \in Address
  BY PagerAssumption
  DEF VPage, Frame, Slot, Run, Position, Address, SwapStart

(* The page number of a write beyond the RAM wraps into it.                *)
LEMMA WrapInRange == \A p \in 0 .. SpacePages - 1 : p % NPages \in VPage
  BY PagerAssumption DEF VPage

(* Stepping through a page moves one slot on, and stays in the file.       *)
LEMMA SuccInFile ==
  ASSUME NEW p \in VPage, NEW i \in Slot
  PROVE  /\ Succ(<<SwapRun + p, i>>) \in Position
         /\ i + 1 < NSlots => /\ Succ(<<SwapRun + p, i>>) = <<SwapRun + p, i + 1>>
                              /\ i + 1 \in Slot
  BY PagerAssumption DEF VPage, Slot, Position, Succ

LEMMA SuccInChip == \A f \in Frame, s \in Slot : Succ(<<f, s>>) \in Address
  BY PagerAssumption DEF Frame, Slot, Address, Succ

(* The flush of a frame always finds the page that is in it.               *)
LEMMA FlushFrameFinds ==
  ASSUME TypeOK, TablesAgree, CallState, FlushFrame
  PROVE  \E p \in VPage : /\ at[p] = FlushFirst + j
                         /\ victim' = p
                         /\ resident' = resident \ {p}
                         /\ used' = used \ {FlushFirst + j}
                         /\ pos' = SwapStart(p)
                         /\ k' = 0
                         /\ pc' = "flushCopy"
<1>1. pc = "flush" /\ FlushFirst + j \in Frame
  BY Ranges DEF FlushFrame, TypeOK
<1>2. FlushFirst + j \in used
  BY <1>1, PagerAssumption DEF CallState, TypeOK
<1>3. PICK p \in Mapped : at[p] = FlushFirst + j
  BY <1>1, <1>2 DEF TablesAgree
<1>4. Owners(FlushFirst + j) # {}
  BY <1>3 DEF Owners, Mapped, TypeOK
<1> QED
  BY <1>4 DEF FlushFrame, Owners

LEMMA InitInv == Init => IInv
<1> SUFFICES ASSUME Init
             PROVE  IInv
  OBVIOUS
<1> USE Ranges DEF Init
<1>1. TypeOK
  BY DEF TypeOK, Access, NoAccess, ChipClosed
<1>2. TablesAgree
  BY DEF TablesAgree, Mapped
<1>3. NeverStuck /\ StreamCoherent
  BY DEF NeverStuck, StreamCoherent, ChipClosed
<1>4. CallState
  BY DEF CallState
<1> QED
  BY <1>1, <1>2, <1>3, <1>4 DEF IInv

LEMMA Inductive == IInv /\ [Next]_vars => IInv'
<1> SUFFICES ASSUME IInv, [Next]_vars
             PROVE  IInv'
  OBVIOUS
<1> USE DEF IInv
<1>1. ASSUME NEW p \in 0 .. SpacePages - 1, NEW s \in Slot, ReadRequest(p, s)
      PROVE  IInv'
  <2>1. TypeOK'
    BY <1>1, Ranges
    DEF TypeOK, Access, ReadRequest, tableVars, chipVars, flushVars,
        copyVars, opVars
  <2>2. TablesAgree'
    BY <1>1
    DEF TypeOK, TablesAgree, Mapped, ReadRequest, tableVars, chipVars,
        flushVars, copyVars, opVars
  <2>3. NeverStuck'
    BY <1>1
    DEF NeverStuck, ReadRequest, tableVars, chipVars, flushVars, copyVars,
        opVars
  <2>4. StreamCoherent'
    BY <1>1
    DEF StreamCoherent, TypeOK, ReadRequest, tableVars, chipVars, flushVars,
        copyVars, opVars
  <2>5. CallState'
    BY <1>1, Ranges
    DEF CallState, TypeOK, Mapped, ReadRequest, tableVars, chipVars,
        flushVars, copyVars, opVars
  <2> QED
    BY <2>1, <2>2, <2>3, <2>4, <2>5
<1>2. ASSUME NEW p \in 0 .. SpacePages - 1, ReadFault(p)
      PROVE  IInv'
  <2>1. TypeOK'
    BY <1>2, Ranges
    DEF TypeOK, Access, ReadFault, tableVars, chipVars, flushVars, copyVars,
        opVars
  <2>2. TablesAgree'
    BY <1>2
    DEF TypeOK, TablesAgree, Mapped, ReadFault, tableVars, chipVars,
        flushVars, copyVars, opVars
  <2>3. NeverStuck'
    BY <1>2
    DEF NeverStuck, ReadFault, tableVars, chipVars, flushVars, copyVars,
        opVars
  <2>4. StreamCoherent'
    BY <1>2
    DEF StreamCoherent, TypeOK, ReadFault, tableVars, chipVars, flushVars,
        copyVars, opVars
  <2>5. CallState'
    BY <1>2, Ranges
    DEF CallState, TypeOK, Mapped, ReadFault, tableVars, chipVars, flushVars,
        copyVars, opVars
  <2> QED
    BY <2>1, <2>2, <2>3, <2>4, <2>5
<1>3. ASSUME NEW p \in 0 .. SpacePages - 1, NEW s \in Slot, NEW b \in Byte,
             WriteRequest(p, s, b)
      PROVE  IInv'
  <2>1. TypeOK'
    BY <1>3, Ranges, WrapInRange
    DEF TypeOK, Access, WriteRequest, EndSeqRead, ChipClosed, tableVars,
        chipVars, flushVars, copyVars, opVars
  <2>2. TablesAgree'
    BY <1>3
    DEF TypeOK, TablesAgree, Mapped, WriteRequest, EndSeqRead, ChipClosed,
        tableVars, chipVars, flushVars, copyVars, opVars
  <2>3. NeverStuck'
    BY <1>3
    DEF NeverStuck, WriteRequest, EndSeqRead, ChipClosed, tableVars,
        chipVars, flushVars, copyVars, opVars
  <2>4. StreamCoherent'
    BY <1>3
    DEF StreamCoherent, TypeOK, WriteRequest, EndSeqRead, ChipClosed,
        tableVars, chipVars, flushVars, copyVars, opVars
  <2>5. CallState'
    BY <1>3, Ranges
    DEF CallState, TypeOK, Mapped, WriteRequest, EndSeqRead, ChipClosed,
        tableVars, chipVars, flushVars, copyVars, opVars
  <2> QED
    BY <2>1, <2>2, <2>3, <2>4, <2>5
<1>4. ASSUME Hit
      PROVE  IInv'
  <2>1. TypeOK'
    BY <1>4, Ranges
    DEF TypeOK, Access, Hit, tableVars, chipVars, flushVars, copyVars,
        opVars
  <2>2. TablesAgree'
    BY <1>4
    DEF TypeOK, TablesAgree, Mapped, Hit, tableVars, chipVars, flushVars,
        copyVars, opVars
  <2>3. NeverStuck'
    BY <1>4
    DEF NeverStuck, Hit, tableVars, chipVars, flushVars, copyVars, opVars
  <2>4. StreamCoherent'
    BY <1>4 DEF StreamCoherent, CallState, Hit, chipVars, opVars
  <2>5. CallState'
    BY <1>4, Ranges
    DEF CallState, TypeOK, Mapped, Hit, tableVars, chipVars, flushVars,
        copyVars, opVars
  <2> QED
    BY <2>1, <2>2, <2>3, <2>4, <2>5
<1>5. ASSUME Miss
      PROVE  IInv'
  <2>1. TypeOK'
    BY <1>5, Ranges
    DEF TypeOK, Access, Miss, EndSeqRead, ChipClosed, tableVars, chipVars,
        flushVars, copyVars, opVars
  <2>2. TablesAgree'
    BY <1>5
    DEF TypeOK, TablesAgree, Mapped, Miss, EndSeqRead, ChipClosed, tableVars,
        chipVars, flushVars, copyVars, opVars
  <2>3. NeverStuck'
    BY <1>5
    DEF NeverStuck, Miss, EndSeqRead, ChipClosed, tableVars, chipVars,
        flushVars, copyVars, opVars
  <2>4. StreamCoherent'
    BY <1>5
    DEF StreamCoherent, TypeOK, Miss, EndSeqRead, ChipClosed, tableVars,
        chipVars, flushVars, copyVars, opVars
  <2>5. CallState'
    BY <1>5, Ranges
    DEF CallState, TypeOK, Mapped, Miss, EndSeqRead, ChipClosed, tableVars,
        chipVars, flushVars, copyVars, opVars
  <2> QED
    BY <2>1, <2>2, <2>3, <2>4, <2>5
<1>6. ASSUME TakeFrame
      PROVE  IInv'
  <2> PICK f \in Frame \ used : /\ frame' = f
                               /\ used' = used \cup {f}
    BY <1>6 DEF TakeFrame
  <2>a. Mapped = resident /\ Mapped' = resident
    BY <1>6 DEF TakeFrame, Mapped, CallState, opVars
  <2>b. at' = at
    BY <1>6 DEF TakeFrame
  <2>1. TypeOK'
    BY <1>6, Ranges
    DEF TypeOK, TakeFrame, chipVars, flushVars, opVars
  <2>2. TablesAgree'
    BY <1>6, <2>a, <2>b DEF TypeOK, TablesAgree, TakeFrame
  <2>3. NeverStuck'
    BY <1>6
    DEF NeverStuck, TakeFrame, tableVars, chipVars, flushVars, copyVars,
        opVars
  <2>4. StreamCoherent'
    BY <1>6
    DEF StreamCoherent, TypeOK, TakeFrame, tableVars, chipVars, flushVars,
        copyVars, opVars
  <2>5. CallState'
    <3>1. \A p \in resident' : p # vpage => at[p] # f
      BY <1>6, <2>a DEF TypeOK, TablesAgree, TakeFrame
    <3>2. pos' = <<SwapRun + vpage, k'>> /\ vpage \in resident'
      BY <1>6 DEF TakeFrame, SwapStart
    <3> QED
      BY <1>6, <2>b, <3>1, <3>2 DEF CallState, TakeFrame, opVars, flushVars
  <2> QED
    BY <2>1, <2>2, <2>3, <2>4, <2>5
<1>7. ASSUME StartFlush
      PROVE  IInv'
  <2>1. TypeOK'
    BY <1>7, Ranges
    DEF TypeOK, Access, StartFlush, tableVars, chipVars, flushVars, copyVars,
        opVars
  <2>2. TablesAgree'
    BY <1>7
    DEF TypeOK, TablesAgree, Mapped, StartFlush, tableVars, chipVars,
        flushVars, copyVars, opVars
  <2>3. NeverStuck'
    BY <1>7
    DEF NeverStuck, StartFlush, tableVars, chipVars, flushVars, copyVars,
        opVars
  <2>4. StreamCoherent'
    BY <1>7
    DEF StreamCoherent, TypeOK, StartFlush, tableVars, chipVars, flushVars,
        copyVars, opVars
  <2>5. CallState'
    <3>1. Frame = Frame \ (FlushFirst .. FlushFirst + 0 - 1)
      BY PagerAssumption
    <3>2. used = Frame
      BY <1>7 DEF StartFlush, TypeOK
    <3> QED
      BY <1>7, <3>1, <3>2 DEF CallState, StartFlush, tableVars, opVars
  <2> QED
    BY <2>1, <2>2, <2>3, <2>4, <2>5
<1>8. ASSUME FlushFrame
      PROVE  IInv'
  <2> DEFINE f == FlushFirst + j
  <2>a. f \in Frame /\ f # 0
    BY <1>8, Ranges DEF FlushFrame, TypeOK
  <2>p. PICK p \in VPage : /\ at[p] = f
                          /\ victim' = p
                          /\ resident' = resident \ {p}
                          /\ used' = used \ {f}
                          /\ pos' = SwapStart(p)
                          /\ k' = 0
                          /\ pc' = "flushCopy"
    BY <1>8, FlushFrameFinds
  <2>b. Mapped = resident /\ Mapped' = resident \ {p}
    BY <1>8, <2>p DEF FlushFrame, Mapped
  <2>c. p \in Mapped
    BY <1>8, <2>a, <2>p DEF TablesAgree, FlushFrame
  <2>d. at' = at /\ used' = used \ {f} /\ j' = j /\ pc = "flush" /\ pc' = "flushCopy"
    BY <1>8, <2>p DEF FlushFrame
  <2> HIDE DEF f
  <2>1. TypeOK'
    BY <1>8, Ranges
    DEF TypeOK, Access, FlushFrame, EndSeqRead, ChipClosed, Owners,
        tableVars, chipVars, flushVars, copyVars, opVars
  <2>2. TablesAgree'
    <3>1. \A g \in Frame : g \in used' <=> \E q \in Mapped' : at[q] = g
      BY <2>p, <2>b, <2>c, <2>d DEF TablesAgree
    <3>2. \A q \in VPage \ Mapped' : at[q] = IF q = p THEN f ELSE 0
      BY <2>p, <2>b, <2>d DEF TablesAgree
    <3>3. \A q \in VPage \ Mapped' :
            at'[q] = IF pc' = "flushCopy" /\ q = victim' THEN FlushedFrame(j') ELSE 0
      BY <2>p, <2>d, <3>2 DEF f
    <3> QED
      BY <2>p, <2>b, <2>d, <3>1, <3>3 DEF TablesAgree
  <2>3. NeverStuck'
    BY <2>d DEF NeverStuck
  <2>4. StreamCoherent'
    BY <1>8
    DEF StreamCoherent, TypeOK, FlushFrame, EndSeqRead, ChipClosed, Owners,
        tableVars, chipVars, flushVars, copyVars, opVars
  <2>5. CallState'
    <3>1. used' = Frame \ (FlushFirst .. FlushFirst + j)
      <4>1. j \in Nat /\ FlushFirst \in Nat
        BY PagerAssumption DEF TypeOK
      <4>2. FlushFirst .. FlushFirst + j = (FlushFirst .. FlushFirst + j - 1) \cup {f}
        BY <4>1 DEF f
      <4> QED
        BY <2>d, <4>2 DEF CallState
    <3>2. pos' = <<SwapRun + victim', k'>> /\ victim' \notin resident'
      BY <2>p DEF SwapStart
    <3> QED
      BY <1>8, <2>d, <3>1, <3>2 DEF CallState, FlushFrame, opVars
  <2> QED
    BY <2>1, <2>2, <2>3, <2>4, <2>5
<1>9. ASSUME FlushSector
      PROVE  IInv'
  <2> DEFINE f == FlushFirst + j
  <2>0. k + 1 < NSlots => k + 1 # NSlots
    BY <1>9, PagerAssumption DEF TypeOK, Slot
  <2>a. f \in Frame \ {0} /\ victim \in VPage /\ k \in Slot /\ savedPos \in Position
    BY <1>9, Ranges DEF FlushSector, TypeOK, CallState
  <2>b. pos = <<SwapRun + victim, k>> /\ SwapRun + victim \in Run /\ ~chip.open
    BY <1>9, <2>a, Ranges DEF FlushSector, CallState, StreamCoherent
  <2>c. PICK b \in Byte : disk' = [disk EXCEPT ![SwapRun + victim][k] = b]
    <3>1. ram[f][k] \in Byte
      BY <2>a DEF TypeOK
    <3>2. ChipRead(<<FlushFirst + j, k>>) = {ram[f][k]}
      BY <2>b DEF ChipRead, StreamCoherent
    <3> QED
      BY <1>9, <2>b, <3>1, <3>2 DEF FlushSector
  <2>d. Mapped = resident /\ Mapped' = resident /\ victim \notin resident
    BY <1>9 DEF FlushSector, Mapped, CallState
  <2>1. TypeOK'
    <3>1. disk' \in [Run -> [Slot -> Byte]]
      BY <2>c DEF TypeOK
    <3>2. CASE k + 1 < NSlots
      BY <1>9, <2>0, <2>a, <2>b, <3>1, <3>2, SuccInFile
      DEF TypeOK, FlushSector, chipVars, flushVars, opVars
    <3>3. CASE k + 1 = NSlots
      <4>1. j' \in 0 .. FlushCount
        BY <1>9, <2>0, <3>3, PagerAssumption DEF FlushSector, CallState, TypeOK
      <4>2. at' \in [VPage -> Frame]
        BY <1>9, <2>0, <3>3, Ranges DEF FlushSector, TypeOK
      <4> QED
        BY <1>9, <2>0, <2>a, <3>1, <3>3, <4>1, <4>2, Ranges
        DEF TypeOK, FlushSector, chipVars, opVars
    <3> QED
      BY <1>9, <2>0, <3>2, <3>3 DEF FlushSector
  <2>2. TablesAgree'
    <3>1. CASE k + 1 < NSlots
      BY <1>9, <2>0, <3>1, <2>d DEF TablesAgree, FlushSector, flushVars
    <3>2. CASE k + 1 = NSlots
      <4>1. /\ at' = [at EXCEPT ![victim] = 0]
            /\ pc = "flushCopy" /\ pc' = "flush" /\ used' = used
        BY <1>9, <2>0, <3>2 DEF FlushSector
      <4>2. \A p \in Mapped : at'[p] = at[p]
        BY <2>d, <4>1 DEF TypeOK
      <4>3. \A p \in VPage \ Mapped' : at'[p] = 0
        BY <2>d, <4>1 DEF TypeOK, TablesAgree
      <4> QED
        BY <2>d, <4>1, <4>2, <4>3 DEF TablesAgree
    <3> QED
      BY <1>9, <2>0, <3>1, <3>2 DEF FlushSector
  <2>3. NeverStuck'
    BY <1>9
    DEF NeverStuck, FlushSector, ChipRead, tableVars, chipVars, flushVars,
        copyVars, opVars
  <2>4. StreamCoherent'
    BY <1>9
    DEF StreamCoherent, TypeOK, FlushSector, ChipRead, tableVars, chipVars,
        flushVars, copyVars, opVars
  <2>5. CallState'
    <3>1. CASE k + 1 < NSlots
      BY <1>9, <2>0, <2>a, <2>b, <3>1, SuccInFile
      DEF CallState, FlushSector, flushVars, opVars
    <3>2. CASE k + 1 = NSlots
      <4>1. used' = Frame \ (FlushFirst .. FlushFirst + j' - 1)
        BY <1>9, <2>0, <3>2, PagerAssumption DEF CallState, FlushSector, TypeOK
      <4> QED
        BY <1>9, <2>0, <3>2, <4>1 DEF CallState, FlushSector, opVars
    <3> QED
      BY <1>9, <2>0, <3>1, <3>2 DEF FlushSector
  <2> QED
    BY <2>1, <2>2, <2>3, <2>4, <2>5
<1>10. ASSUME Retry
      PROVE  IInv'
  <2>a. ~retried /\ pc' = "find"
    BY <1>10 DEF Retry, CallState
  <2>1. TypeOK'
    BY <1>10, Ranges
    DEF TypeOK, Access, Retry, tableVars, chipVars, flushVars, copyVars,
        opVars
  <2>2. TablesAgree'
    BY <1>10
    DEF TypeOK, TablesAgree, Mapped, Retry, tableVars, chipVars, flushVars,
        copyVars, opVars
  <2>3. NeverStuck'
    BY <2>a DEF NeverStuck
  <2>4. StreamCoherent'
    BY <1>10
    DEF StreamCoherent, TypeOK, Retry, tableVars, chipVars, flushVars,
        copyVars, opVars
  <2>5. CallState'
    <3>1. FlushFirst \in Frame /\ FlushFirst \in FlushFirst .. FlushFirst + FlushCount - 1
      BY PagerAssumption DEF Frame
    <3>2. used = Frame \ (FlushFirst .. FlushFirst + FlushCount - 1)
      BY <1>10 DEF Retry, CallState
    <3> QED
      BY <1>10, <2>a, <3>1, <3>2 DEF CallState, Retry, tableVars, opVars
  <2> QED
    BY <2>1, <2>2, <2>3, <2>4, <2>5
<1>11. ASSUME LoadSector
      PROVE  IInv'
  <2>0. k + 1 < NSlots => k + 1 # NSlots
    BY <1>11, PagerAssumption DEF TypeOK, Slot
  <2>a. vpage \in VPage /\ k \in Slot /\ frame \in Frame /\ vpage \in resident
    BY <1>11 DEF LoadSector, TypeOK, CallState
  <2>b. pos = <<SwapRun + vpage, k>> /\ SwapRun + vpage \in Run /\ ~chip.open
    BY <1>11, <2>a, Ranges DEF LoadSector, CallState, StreamCoherent
  <2>c. ram' = [ram EXCEPT ![frame][k] = disk[SwapRun + vpage][k]]
    BY <1>11, <2>b DEF LoadSector, ChipWrite
  <2>d. Mapped = resident \ {vpage} /\ vpage' = vpage /\ resident' = resident
    BY <1>11 DEF LoadSector, Mapped, opVars
  <2>1. TypeOK'
    <3>1. ram' \in [Frame -> [Slot -> Byte]]
      BY <2>a, <2>b, <2>c DEF TypeOK
    <3>2. pos' \in Position
      BY <1>11, <2>0, <2>a, <2>b, SuccInFile DEF LoadSector
    <3>3. CASE k + 1 < NSlots
      BY <1>11, <2>0, <2>a, <3>1, <3>2, <3>3, SuccInFile
      DEF TypeOK, LoadSector, chipVars, flushVars, opVars
    <3>4. CASE k + 1 = NSlots
      <4>1. at' \in [VPage -> Frame]
        BY <1>11, <2>0, <2>a, <3>4 DEF LoadSector, TypeOK
      <4> QED
        BY <1>11, <2>0, <3>1, <3>2, <3>4, <4>1, Ranges
        DEF TypeOK, LoadSector, chipVars, flushVars, opVars
    <3> QED
      BY <1>11, <2>0, <3>3, <3>4 DEF LoadSector
  <2>2. TablesAgree'
    <3>1. CASE k + 1 < NSlots
      <4>1. /\ at' = at /\ used' = used /\ frame' = frame
            /\ pc = "load" /\ pc' = "load" /\ Mapped' = Mapped
        BY <1>11, <2>0, <3>1, <2>d DEF LoadSector, Mapped
      <4> QED
        BY <4>1 DEF TablesAgree
    <3>2. CASE k + 1 = NSlots
      <4>1. /\ at' = [at EXCEPT ![vpage] = frame] /\ used' = used
            /\ pc = "load" /\ pc' = "access" /\ Mapped' = Mapped \cup {vpage}
        BY <1>11, <2>0, <3>2, <2>a, <2>d DEF LoadSector, Mapped
      <4>2. at'[vpage] = frame /\ \A p \in Mapped : at'[p] = at[p] /\ at[p] # frame
        BY <2>a, <2>d, <4>1 DEF TypeOK, CallState
      <4>3. \A p, q \in Mapped' : at'[p] = at'[q] => p = q
        BY <4>1, <4>2 DEF TablesAgree
      <4>4. \A f \in Frame : f \in used' <=> \E p \in Mapped' : at'[p] = f
        BY <2>a, <4>1, <4>2 DEF TablesAgree
      <4>5. \A p \in VPage \ Mapped' : at'[p] = 0
        BY <4>1 DEF TablesAgree, TypeOK
      <4> QED
        BY <4>1, <4>3, <4>4, <4>5 DEF TablesAgree
    <3> QED
      BY <1>11, <2>0, <3>1, <3>2 DEF LoadSector
  <2>3. NeverStuck'
    BY <1>11
    DEF NeverStuck, LoadSector, ChipWrite, tableVars, chipVars, flushVars,
        copyVars, opVars
  <2>4. StreamCoherent'
    BY <1>11
    DEF StreamCoherent, TypeOK, LoadSector, ChipWrite, tableVars, chipVars,
        flushVars, copyVars, opVars
  <2>5. CallState'
    <3>1. CASE k + 1 < NSlots
      BY <1>11, <2>0, <2>a, <2>b, <2>d, <3>1, SuccInFile
      DEF CallState, LoadSector, flushVars, opVars
    <3>2. CASE k + 1 = NSlots
      BY <1>11, <2>0, <2>a, <2>d, <3>2 DEF CallState, LoadSector, flushVars, opVars
    <3> QED
      BY <1>11, <2>0, <3>1, <3>2 DEF LoadSector
  <2> QED
    BY <2>1, <2>2, <2>3, <2>4, <2>5
<1>12. ASSUME FinishRead
      PROVE  IInv'
  <2> DEFINE a == <<at[vpage], op.slot>>
  <2>a. at[vpage] \in Frame /\ op.slot \in Slot
    BY DEF TypeOK, Access
  <2>b. a \in Frame \X Slot /\ a \in Address /\ Succ(a) \in Address
    BY <2>a, Ranges, SuccInChip
  <2>c. ram[a[1]][a[2]] \in Byte
    BY <2>a DEF TypeOK
  <2>d. SpiRead8(a)
    BY <1>12 DEF FinishRead
  <2> HIDE DEF a
  <2>e. /\ prev' = a
        /\ result' \in Byte
        /\ streaming' \in BOOLEAN
        /\ chip' \in [open : BOOLEAN, next : Address]
        /\ chip'.open = streaming'
        /\ streaming' => chip'.next = Succ(prev')
    <3>1. CASE a = Succ(prev)
      <4>1. streaming => chip.next = a
        BY <3>1 DEF StreamCoherent
      <4>2. /\ result' = ram[a[1]][a[2]]
            /\ streaming' = TRUE
            /\ chip' = [open |-> TRUE, next |-> Succ(a)]
        BY <2>d, <3>1, <4>1 DEF SpiRead8, ChipRead, StreamCoherent
      <4> QED
        BY <2>b, <2>c, <2>d, <4>2 DEF SpiRead8
    <3>2. CASE a # Succ(prev)
      <4>1. /\ result' = ram[a[1]][a[2]]
            /\ streaming' = FALSE
            /\ chip' = IF streaming THEN ChipClosed ELSE chip
        BY <2>d, <3>2 DEF SpiRead8, ChipRead, StreamCoherent, EndSeqRead
      <4> QED
        BY <2>c, <2>d, <4>1, Ranges DEF SpiRead8, ChipClosed, StreamCoherent, TypeOK
    <3> QED
      BY <3>1, <3>2
  <2>1. TypeOK'
    BY <1>12, <2>b, <2>e, Ranges
    DEF TypeOK, FinishRead, Access, NoAccess, tableVars, copyVars, flushVars
  <2>2. TablesAgree'
    BY <1>12
    DEF TypeOK, TablesAgree, Mapped, FinishRead, SpiRead8, ChipRead,
        EndSeqRead, ChipClosed, NoAccess, tableVars, chipVars, flushVars,
        copyVars, opVars
  <2>3. NeverStuck'
    BY <1>12
    DEF NeverStuck, FinishRead, SpiRead8, ChipRead, EndSeqRead, ChipClosed,
        NoAccess, tableVars, chipVars, flushVars, copyVars, opVars
  <2>4. StreamCoherent'
    BY <1>12, <2>e DEF StreamCoherent, FinishRead
  <2>5. CallState'
    BY <1>12, Ranges
    DEF CallState, TypeOK, Mapped, FinishRead, SpiRead8, ChipRead,
        EndSeqRead, ChipClosed, NoAccess, tableVars, chipVars, flushVars,
        copyVars, opVars
  <2> QED
    BY <2>1, <2>2, <2>3, <2>4, <2>5
<1>13. ASSUME FinishWrite
      PROVE  IInv'
  <2>1. TypeOK'
    <3>1. ram' \in [Frame -> [Slot -> Byte]]
      <4>1. op.slot \in Slot /\ op.byte \in Byte /\ at[vpage] \in Frame
        BY DEF TypeOK, Access
      <4> QED
        BY <1>13, <4>1 DEF FinishWrite, ChipWrite, TypeOK
    <3> QED
      BY <1>13, <3>1, Ranges
      DEF TypeOK, FinishWrite, Access, NoAccess, tableVars, chipVars, copyVars,
          flushVars
  <2>2. TablesAgree'
    BY <1>13
    DEF TypeOK, TablesAgree, Mapped, FinishWrite, ChipWrite, NoAccess,
        tableVars, chipVars, flushVars, copyVars, opVars
  <2>3. NeverStuck'
    BY <1>13
    DEF NeverStuck, FinishWrite, ChipWrite, NoAccess, tableVars, chipVars,
        flushVars, copyVars, opVars
  <2>4. StreamCoherent'
    BY <1>13
    DEF StreamCoherent, TypeOK, FinishWrite, ChipWrite, NoAccess, tableVars,
        chipVars, flushVars, copyVars, opVars
  <2>5. CallState'
    BY <1>13, Ranges
    DEF CallState, TypeOK, Mapped, FinishWrite, ChipWrite, NoAccess,
        tableVars, chipVars, flushVars, copyVars, opVars
  <2> QED
    BY <2>1, <2>2, <2>3, <2>4, <2>5
<1>14. CASE UNCHANGED vars
  <2> USE <1>14 DEF vars, tableVars, chipVars, flushVars, copyVars, opVars
  <2>1. TypeOK' /\ NeverStuck' /\ StreamCoherent'
    BY DEF TypeOK, NeverStuck, StreamCoherent
  <2>2. TablesAgree'
    BY DEF TablesAgree, Mapped
  <2>3. CallState'
    BY DEF CallState
  <2> QED
    BY <2>1, <2>2, <2>3
<1> QED
  BY <1>1, <1>2, <1>3, <1>4, <1>5, <1>6, <1>7, <1>8, <1>9, <1>10, <1>11, <1>12,
     <1>13, <1>14, <1>14 DEF Next, Ask, Serve

-----------------------------------------------------------------------------
(* Every state of Pager satisfies the inductive invariant.                 *)
THEOREM Invariance == Spec => []IInv
  BY InitInv, Inductive, PTL DEF Spec

(* Every variable keeps its type.                                          *)
THEOREM Typing == Spec => []TypeOK
  BY Invariance, PTL DEF IInv

(* The residency bitmap, the frame bitmap and the page entries agree       *)
(* between any two steps of load_page_in and flush_physical_page_out.      *)
THEOREM Tables == Spec => []TablesAgree
  BY Invariance, PTL DEF IInv

(* "page not found?" and "flushed but still no page?" are unreachable.     *)
THEOREM NoEndlessLoop == Spec => []NeverStuck
  BY Invariance, PTL DEF IInv

(* The VM's idea of the chip's sequential read is right.                   *)
THEOREM Streaming == Spec => []StreamCoherent
  BY Invariance, PTL DEF IInv

(* No step of paging moves a page out of a frame that is never flushed.    *)
LEMMA PinnedStays ==
  ASSUME IInv, Next, NEW p \in Mapped, at[p] \notin Flushed
  PROVE  p \in Mapped' /\ at'[p] = at[p]
<1> USE DEF IInv, Mapped
<1>1. CASE TakeFrame
  BY <1>1 DEF TakeFrame, CallState, opVars
<1>2. CASE FlushFrame
  <2>1. FlushFirst + j \in Flushed
    BY <1>2, PagerAssumption DEF FlushFrame, Flushed, TypeOK
  <2> QED
    BY <1>2, <2>1 DEF FlushFrame, Owners
<1>3. CASE FlushSector
  BY <1>3 DEF FlushSector, CallState, TypeOK
<1>4. CASE LoadSector
  BY <1>4 DEF LoadSector, CallState, TypeOK, opVars
<1>5. CASE \/ Ask \/ Hit \/ Miss \/ StartFlush \/ Retry
           \/ FinishRead \/ FinishWrite
  BY <1>5 DEF Ask, ReadRequest, ReadFault, WriteRequest, Hit, Miss, StartFlush,
              Retry, FinishRead, FinishWrite, tableVars, opVars
<1> QED
  BY <1>1, <1>2, <1>3, <1>4, <1>5 DEF Next, Serve

(* A page in a frame that is never flushed stays there for ever.           *)
THEOREM Pinning == Spec => PinnedForEver
<1>1. IInv /\ [Next]_vars =>
        [\A p \in Mapped : at[p] \notin Flushed =>
            p \in Mapped' /\ at'[p] = at[p]]_vars
  BY PinnedStays
<1> QED
  BY Invariance, <1>1, PTL DEF Spec, PinnedForEver

-----------------------------------------------------------------------------
(* Pager implements Memory: whatever is paged in and out while an access   *)
(* is served, the program sees one flat memory.  On top of the invariants  *)
(* above this needs what the two copy loops have copied so far.            *)

(* The slots below k have been copied.                                     *)
CopiedSoFar ==
  /\ pc = "load" =>
       \A i \in Slot : i < k => ram[frame][i] = disk[SwapRun + vpage][i]
  /\ pc = "flushCopy" =>
       \A i \in Slot : i < k =>
         disk[SwapRun + victim][i] = ram[FlushFirst + j][i]

RInv == IInv /\ CopiedSoFar

(* The actions that change neither the contents nor the tables.            *)
Quiet ==
  \/ Ask \/ Hit \/ Miss \/ StartFlush \/ Retry \/ FinishRead

-----------------------------------------------------------------------------
(* Two pages are swapped to different runs.                                *)
LEMMA RunsDiffer ==
  \A p, q \in VPage : p # q => SwapRun + p # SwapRun + q
  BY PagerAssumption DEF VPage

LEMMA ZeroFirst == \A i \in Slot : ~(i < 0)
  BY DEF Slot

(* What a step of the loop of flush_physical_page_out does.                *)
LEMMA FlushSectorStep ==
  ASSUME IInv, FlushSector
  PROVE  /\ victim \in VPage /\ k \in Slot /\ FlushFirst + j \in Frame
         /\ SwapRun + victim \in Run
         /\ disk' = [disk EXCEPT ![SwapRun + victim][k] =
                       ram[FlushFirst + j][k]]
         /\ victim \notin resident /\ resident' = resident
         /\ pc = "flushCopy"
<1> USE DEF IInv
<1>1. /\ victim \in VPage /\ k \in Slot /\ FlushFirst + j \in Frame
      /\ SwapRun + victim \in Run
  BY Ranges DEF FlushSector, TypeOK, CallState
<1>2. pos = <<SwapRun + victim, k>> /\ chip.open = streaming
  BY DEF FlushSector, CallState, StreamCoherent
<1>3. ChipRead(<<FlushFirst + j, k>>) = {ram[FlushFirst + j][k]}
  BY <1>2 DEF ChipRead
<1> QED
  BY <1>1, <1>2, <1>3 DEF FlushSector, CallState

(* What a step of the loop of load_page_in does.                           *)
LEMMA LoadSectorStep ==
  ASSUME IInv, LoadSector
  PROVE  /\ vpage \in VPage /\ k \in Slot /\ frame \in Frame
         /\ SwapRun + vpage \in Run
         /\ ram' = [ram EXCEPT ![frame][k] = disk[SwapRun + vpage][k]]
         /\ vpage \in resident /\ resident' = resident /\ vpage' = vpage
         /\ disk' = disk /\ pc = "load"
<1> USE DEF IInv
<1>1. /\ vpage \in VPage /\ k \in Slot /\ frame \in Frame
      /\ SwapRun + vpage \in Run
  BY Ranges DEF LoadSector, TypeOK
<1>2. pos = <<SwapRun + vpage, k>> /\ ~chip.open
  BY DEF LoadSector, CallState, StreamCoherent
<1> QED
  BY <1>1, <1>2 DEF LoadSector, ChipWrite, CallState, opVars

LEMMA CopiedInductive == RInv /\ [Next]_vars => CopiedSoFar'
<1> SUFFICES ASSUME IInv, CopiedSoFar, [Next]_vars
             PROVE  CopiedSoFar'
  BY DEF RInv
<1>1. CASE TakeFrame
  BY <1>1, ZeroFirst DEF TakeFrame, CopiedSoFar
<1>2. CASE FlushFrame
  BY <1>2, ZeroFirst DEF FlushFrame, CopiedSoFar
<1>3. CASE FlushSector
  <2>1. CASE k + 1 < NSlots
    <3>1. /\ pc' = "flushCopy" /\ victim' = victim /\ j' = j /\ k' = k + 1
          /\ ram' = ram
      BY <1>3, <2>1, PagerAssumption DEF FlushSector, IInv, TypeOK, Slot, flushVars
    <3>2. ASSUME NEW i \in Slot, i < k + 1
          PROVE  disk'[SwapRun + victim][i] = ram[FlushFirst + j][i]
      <4>1. i = k \/ i < k
        BY <3>2 DEF Slot, IInv, TypeOK
      <4> QED
        BY <1>3, <4>1, FlushSectorStep DEF CopiedSoFar, IInv, TypeOK
    <3> QED
      BY <3>1, <3>2 DEF CopiedSoFar
  <2>2. CASE k + 1 = NSlots
    BY <1>3, <2>2, PagerAssumption DEF FlushSector, CopiedSoFar
  <2> QED
    BY <1>3, <2>1, <2>2 DEF FlushSector
<1>4. CASE LoadSector
  <2>1. CASE k + 1 < NSlots
    <3>1. /\ pc' = "load" /\ frame' = frame /\ k' = k + 1
      BY <1>4, <2>1, PagerAssumption DEF LoadSector, IInv, TypeOK, Slot
    <3>2. ASSUME NEW i \in Slot, i < k + 1
          PROVE  ram'[frame][i] = disk[SwapRun + vpage][i]
      <4>1. i = k \/ i < k
        BY <3>2 DEF Slot, IInv, TypeOK
      <4> QED
        BY <1>4, <4>1, LoadSectorStep DEF CopiedSoFar, IInv, TypeOK
    <3> QED
      BY <1>4, <3>1, <3>2, LoadSectorStep DEF CopiedSoFar
  <2>2. CASE k + 1 = NSlots
    BY <1>4, <2>2, PagerAssumption DEF LoadSector, CopiedSoFar
  <2> QED
    BY <1>4, <2>1, <2>2 DEF LoadSector
<1>5. CASE Quiet \/ FinishWrite
  BY <1>5 DEF Quiet, Ask, ReadRequest, ReadFault, WriteRequest, Hit, Miss,
              StartFlush, Retry, FinishRead, FinishWrite,
              CopiedSoFar
<1>6. CASE UNCHANGED vars
  BY <1>6 DEF vars, copyVars, opVars, flushVars, CopiedSoFar
<1> QED
  BY <1>1, <1>2, <1>3, <1>4, <1>5, <1>6 DEF Next, Serve, Quiet

LEMMA RInvariance == Spec => []RInv
<1>1. Init => CopiedSoFar
  BY DEF Init, CopiedSoFar
<1> QED
  BY InitInv, Inductive, CopiedInductive, <1>1, PTL DEF Spec, RInv

-----------------------------------------------------------------------------
(* The contents the program sees are bytes.                                *)
LEMMA HomeType ==
  ASSUME IInv, NEW p \in VPage
  PROVE  Home(p) \in [Slot -> Byte]
  BY Ranges DEF Home, IInv, TypeOK, CallState, Mapped

(* Taking a page out of a frame or bringing one in does not change what    *)
(* the program sees, at any point of the two copies.                       *)
LEMMA PagingKeepsView ==
  ASSUME RInv, TakeFrame \/ FlushFrame \/ FlushSector \/ LoadSector
  PROVE  View' = View
<1> USE DEF RInv
<1>1. ASSUME TakeFrame, NEW p \in VPage
      PROVE  Home(p)' = Home(p)
  <2>1. Mapped' = Mapped /\ at' = at /\ ram' = ram /\ disk' = disk
    BY <1>1 DEF TakeFrame, Mapped, IInv, CallState, opVars
  <2> QED
    BY <1>1, <2>1 DEF TakeFrame, Home
<1>2. ASSUME FlushFrame, NEW p \in VPage
      PROVE  Home(p)' = Home(p)
  <2>1. PICK v \in VPage : /\ at[v] = FlushFirst + j /\ victim' = v
                           /\ resident' = resident \ {v} /\ pc' = "flushCopy"
    BY <1>2, FlushFrameFinds DEF IInv
  <2>2. /\ at' = at /\ ram' = ram /\ disk' = disk /\ j' = j
        /\ pc = "flush" /\ pc' = "flushCopy"
    BY <1>2, <2>1 DEF FlushFrame
  <2>3. Mapped = resident /\ Mapped' = resident \ {v}
    BY <2>1, <2>2 DEF Mapped
  <2>4. v \in Mapped
    <3>1. FlushFirst + j # 0
      BY <1>2, Ranges DEF FlushFrame, IInv, TypeOK
    <3> QED
      BY <2>1, <2>2, <3>1 DEF IInv, TablesAgree
  <2>5. Home(p)' = IF p = v THEN ram[FlushFirst + j]
                   ELSE IF p \in Mapped THEN ram[at[p]] ELSE disk[SwapRun + p]
    BY <2>1, <2>2, <2>3 DEF Home
  <2> QED
    BY <2>1, <2>2, <2>4, <2>5 DEF Home
<1>3. ASSUME FlushSector, NEW p \in VPage
      PROVE  Home(p)' = Home(p)
  <2> USE FlushSectorStep, <1>3
  <2>1. /\ ram' = ram /\ Mapped = resident /\ Mapped' = resident
        /\ pc = "flushCopy"
    BY DEF FlushSector, Mapped
  <2>2. CASE p # victim
    <3>1. disk'[SwapRun + p] = disk[SwapRun + p]
      BY <2>2, RunsDiffer, Ranges DEF IInv, TypeOK
    <3>2. at'[p] = at[p]
      BY <2>2 DEF FlushSector, IInv, TypeOK
    <3>3. pc' = "flushCopy" => victim' = victim
      BY DEF FlushSector, flushVars
    <3> QED
      BY <2>1, <2>2, <3>1, <3>2, <3>3 DEF Home
  <2>3. CASE p = victim /\ k + 1 < NSlots
    <3>1. pc' = "flushCopy" /\ victim' = victim /\ j' = j
      BY <2>3, PagerAssumption DEF FlushSector, flushVars, IInv, TypeOK, Slot
    <3> QED
      BY <2>1, <2>3, <3>1 DEF Home
  <2>4. CASE p = victim /\ k + 1 = NSlots
    <3>1. pc' = "flush"
      BY <2>4, PagerAssumption DEF FlushSector
    <3>2. Home(p)' = disk'[SwapRun + p] /\ Home(p) = ram[FlushFirst + j]
      BY <2>1, <2>4, <3>1 DEF Home
    <3>3. /\ ram[FlushFirst + j] \in [Slot -> Byte]
          /\ disk'[SwapRun + p] \in [Slot -> Byte]
      BY <2>4 DEF IInv, TypeOK
    <3>4. ASSUME NEW i \in Slot
          PROVE  disk'[SwapRun + p][i] = ram[FlushFirst + j][i]
      <4>1. i = k \/ i < k
        BY <2>4 DEF Slot, IInv, TypeOK
      <4> QED
        BY <2>4, <4>1 DEF CopiedSoFar, IInv, TypeOK
    <3> QED
      BY <3>2, <3>3, <3>4
  <2> QED
    BY <2>2, <2>3, <2>4 DEF FlushSector
<1>4. ASSUME LoadSector, NEW p \in VPage
      PROVE  Home(p)' = Home(p)
  <2> USE LoadSectorStep, <1>4
  <2>1. Mapped = resident \ {vpage} /\ pc' # "flushCopy"
    BY DEF LoadSector, Mapped
  <2>2. CASE p # vpage
    <3>1. at'[p] = at[p] /\ (p \in Mapped' <=> p \in Mapped)
      BY <2>2 DEF LoadSector, IInv, TypeOK, Mapped
    <3>2. p \in Mapped => ram'[at[p]] = ram[at[p]]
      BY <2>1 DEF IInv, TypeOK, CallState
    <3> QED
      BY <2>1, <3>1, <3>2 DEF Home
  <2>3. CASE p = vpage /\ k + 1 < NSlots
    <3>1. pc' = "load"
      BY <2>3, PagerAssumption DEF LoadSector, IInv, TypeOK, Slot
    <3>2. p \notin Mapped' /\ p \notin Mapped
      BY <2>3, <3>1 DEF Mapped
    <3> QED
      BY <3>1, <3>2 DEF Home
  <2>4. CASE p = vpage /\ k + 1 = NSlots
    <3>1. pc' = "access" /\ at' = [at EXCEPT ![vpage] = frame]
      BY <2>4, PagerAssumption DEF LoadSector
    <3>2. Home(p)' = ram'[frame] /\ Home(p) = disk[SwapRun + p]
      BY <2>1, <2>4, <3>1 DEF Home, Mapped, IInv, TypeOK
    <3>3. ram'[frame] \in [Slot -> Byte] /\ disk[SwapRun + p] \in [Slot -> Byte]
      BY <2>4 DEF IInv, TypeOK
    <3>4. ASSUME NEW i \in Slot
          PROVE  ram'[frame][i] = disk[SwapRun + p][i]
      <4>1. i = k \/ i < k
        BY <2>4 DEF Slot, IInv, TypeOK
      <4> QED
        BY <2>4, <4>1 DEF CopiedSoFar, IInv, TypeOK
    <3> QED
      BY <3>2, <3>3, <3>4
  <2> QED
    BY <2>2, <2>3, <2>4 DEF LoadSector
<1> QED
  BY <1>1, <1>2, <1>3, <1>4 DEF View

LEMMA QuietKeepsView ==
  ASSUME Quiet \/ UNCHANGED vars
  PROVE  View' = View
<1>1. /\ ram' = ram /\ disk' = disk /\ at' = at /\ Mapped' = Mapped
      /\ pc # "flushCopy" /\ pc' # "flushCopy"
      \/ UNCHANGED vars
  BY DEF Quiet, Ask, ReadRequest, ReadFault, WriteRequest, Hit, Miss, StartFlush,
         Retry, FinishRead, Mapped, tableVars, opVars
<1>2. CASE UNCHANGED vars
  BY <1>2 DEF View, Home, Mapped, vars, tableVars, opVars, flushVars
<1> QED
  BY <1>1, <1>2 DEF View, Home

(* A write changes the byte the program named and no other.                *)
LEMMA WriteChangesView ==
  ASSUME IInv, FinishWrite
  PROVE  View' = [View EXCEPT ![vpage][op.slot] = op.byte]
<1> USE DEF IInv
<1>1. /\ vpage \in VPage /\ op.slot \in Slot /\ op.byte \in Byte
      /\ at[vpage] \in Frame
  BY DEF TypeOK, Access
<1>2. ~chip.open /\ vpage \in Mapped /\ Mapped' = Mapped
  BY DEF FinishWrite, StreamCoherent, CallState, Mapped, tableVars
<1>3. /\ ram' = [ram EXCEPT ![at[vpage]][op.slot] = op.byte]
      /\ at' = at /\ disk' = disk /\ pc = "access" /\ pc' = "idle"
  BY <1>2 DEF FinishWrite, ChipWrite, tableVars
<1>4. ASSUME NEW p \in VPage
      PROVE  Home(p)' = IF p = vpage
                        THEN [Home(p) EXCEPT ![op.slot] = op.byte]
                        ELSE Home(p)
  <2>1. CASE p = vpage
    BY <1>1, <1>2, <1>3, <2>1 DEF Home, TypeOK
  <2>2. CASE p # vpage /\ p \in Mapped
    <3>1. at[p] # at[vpage]
      BY <1>2, <2>2 DEF TablesAgree
    <3> QED
      BY <1>1, <1>2, <1>3, <2>2, <3>1 DEF Home, TypeOK
  <2>3. CASE p # vpage /\ p \notin Mapped
    BY <1>2, <1>3, <2>3 DEF Home
  <2> QED
    BY <2>1, <2>2, <2>3
<1> QED
  BY <1>1, <1>4 DEF View

-----------------------------------------------------------------------------
(* The request Memory sees.                                                *)
Req == [kind |-> op.kind, page |-> vpage, slot |-> op.slot, byte |-> op.byte]

LEMMA RequestSeen ==
  ASSUME IInv
  PROVE  /\ pc \in {"idle", "fault"} => Req = NoAccess
         /\ pc \in {"translate", "access"} => Req # NoAccess /\ Req \in Mem!Request
  BY DEF IInv, TypeOK, Access, CallState, Req, NoAccess, Mem!Request

(* Initial states of Pager are initial states of Memory.                   *)
LEMMA InitRefines == Init => Mem!Init
<1> SUFFICES ASSUME Init
             PROVE  Mem!Init
  OBVIOUS
<1>1. View \in [VPage -> [Slot -> Byte]]
  BY InitInv, HomeType DEF View
<1>2. Req = NoAccess /\ result \in Byte /\ pc = "idle"
  BY Ranges DEF Init, Req, NoAccess
<1> QED
  BY <1>1, <1>2 DEF Mem!Init, Req

(* Every step of Pager is a step of Memory or leaves what it shows alone.  *)
LEMMA NextRefines == RInv /\ [Next]_vars => [Mem!Next]_(Mem!vars)
<1> SUFFICES ASSUME RInv, [Next]_vars
             PROVE  [Mem!Next]_(Mem!vars)
  OBVIOUS
<1> USE DEF RInv
<1>0. IInv'
  BY Inductive
<1>1. CASE \E p \in 0 .. SpacePages - 1 :
             \/ \E s \in Slot : ReadRequest(p, s)
             \/ \E s \in Slot, b \in Byte : WriteRequest(p, s, b)
  <2>1. Quiet /\ pc = "idle" /\ pc' = "translate" /\ result' = result
    BY <1>1 DEF Quiet, Ask, ReadRequest, WriteRequest
  <2>2. View' = View
    BY <2>1, QuietKeepsView
  <2>3. Req = NoAccess /\ Req' \in Mem!Request
    BY <1>0, <2>1, RequestSeen
    DEF IInv, TypeOK, Access, CallState, Req, Mem!Request
  <2> QED
    BY <2>1, <2>2, <2>3 DEF Mem!Next, Mem!Issue, Mem!Request, Req
<1>2. CASE \E p \in 0 .. SpacePages - 1 : ReadFault(p)
  <2>1. Quiet /\ pc = "idle" /\ pc' = "fault" /\ UNCHANGED opVars
    BY <1>2 DEF Quiet, Ask, ReadFault
  <2>2. View' = View /\ Req = NoAccess /\ Req' = Req /\ result' = result
    BY <2>1, QuietKeepsView, RequestSeen DEF Req, opVars
  <2> QED
    BY <2>1, <2>2 DEF Mem!Next, Mem!Fault, Req
<1>3. CASE FinishRead
  <2>1. View' = View
    BY <1>3, QuietKeepsView DEF Quiet
  <2>2. /\ pc = "access" /\ pc' = "idle" /\ op.kind = "read"
        /\ op' = NoAccess /\ vpage' = 0
    BY <1>3 DEF FinishRead
  <2>3. result' = ram[at[vpage]][op.slot]
    <3>1. SpiRead8(<<at[vpage], op.slot>>) /\ chip.open = streaming
      BY <1>3 DEF FinishRead, IInv, StreamCoherent
    <3>2. streaming => chip.next = Succ(prev)
      BY DEF IInv, StreamCoherent
    <3> QED
      BY <3>1, <3>2 DEF SpiRead8, ChipRead
  <2>4. View[vpage][op.slot] = ram[at[vpage]][op.slot]
    BY <2>2 DEF View, Home, Mapped, IInv, CallState, TypeOK
  <2>5. Req # NoAccess /\ Req' = NoAccess
    BY <2>2, RequestSeen DEF Req, NoAccess
  <2> QED
    BY <2>1, <2>2, <2>3, <2>4, <2>5 DEF Mem!Next, Mem!Read, Req
<1>4. CASE FinishWrite
  <2>1. View' = [View EXCEPT ![vpage][op.slot] = op.byte]
    BY <1>4, WriteChangesView
  <2>2. /\ pc = "access" /\ pc' = "idle" /\ op.kind = "write"
        /\ op' = NoAccess /\ vpage' = 0 /\ result' = result
    BY <1>4 DEF FinishWrite
  <2>3. Req # NoAccess /\ Req' = NoAccess
    BY <2>2, RequestSeen DEF Req, NoAccess
  <2> QED
    BY <2>1, <2>2, <2>3 DEF Mem!Next, Mem!Write, Req
<1>5. CASE \/ Hit \/ Miss \/ StartFlush \/ Retry
           \/ TakeFrame \/ FlushFrame \/ FlushSector \/ LoadSector
  <2>1. View' = View
    BY <1>5, QuietKeepsView, PagingKeepsView DEF Quiet
  <2>2. UNCHANGED opVars /\ pc # "fault" /\ pc' # "fault"
    BY <1>5 DEF Hit, Miss, StartFlush, Retry, TakeFrame, FlushFrame,
                FlushSector, LoadSector
  <2> QED
    BY <2>1, <2>2 DEF Mem!vars, opVars
<1>6. CASE UNCHANGED vars
  BY <1>6, QuietKeepsView DEF Mem!vars, vars, opVars
<1> QED
  BY <1>1, <1>2, <1>3, <1>4, <1>5, <1>6 DEF Next, Ask, Serve

(* The program sees flat memory: a read returns the byte last written,     *)
(* for every size of the memory, of the frames and of the flushed range.   *)
THEOREM Refinement == Spec => FlatMemory
  BY RInvariance, InitRefines, NextRefines, PTL DEF Spec, FlatMemory, Mem!Spec

-----------------------------------------------------------------------------
(* The disk controller.                                                    *)

(* Where a routine is says what the VM does for it.  The stack is written  *)
(* when it is called, so that its port accesses find the chip free.        *)
RoutineState ==
  /\ bufPtr \in VPage \X Slot
  /\ rpc \in {"user", "pushed", "buffer", "return"}
  /\ cmd \in Command \cup {NoCommand}
  /\ rpc \in {"pushed", "buffer"} =>
       /\ cmd \in Command
       /\ ~streaming /\ op.kind # "read" /\ pc # "fault"
       /\ PinnedOnly => Pinned(cmd.page)
  /\ rpc = "buffer" => pc = "idle" /\ bufPtr = <<cmd.page, cmd.slot>>

DInv == RInv /\ RoutineState

-----------------------------------------------------------------------------
LEMMA DataSectorType ==
  /\ DataSector \subseteq Position
  /\ \A s \in DataSector : s[1] \in Run /\ s[2] \in Slot /\ s = <<s[1], s[2]>>
  /\ \A s \in DataSector, p \in VPage : s[1] # SwapRun + p
BY PagerAssumption DEF DataSector, Position, Run, VPage, Slot

(* A position is found again from its number.                              *)
LEMMA SectorOfNumber ==
  ASSUME NEW a \in Nat, NEW b \in Slot
  PROVE  /\ (a * NSlots + b) \div NSlots = a
         /\ (a * NSlots + b) % NSlots = b
  BY PagerAssumption DEF Slot

(* set_disk_sector reaches the sector asked for from wherever it starts.   *)
LEMMA SeekArrives ==
  ASSUME TypeOK, NEW s \in DataSector
  PROVE  Seek(s) = s
<1>1. /\ s[1] \in Nat /\ s[2] \in Slot /\ s = <<s[1], s[2]>>
      /\ pos[1] \in Nat /\ pos[2] \in Slot /\ pos = <<pos[1], pos[2]>>
  BY PagerAssumption DEF DataSector, TypeOK, Position
<1> DEFINE here == SectorNumber(pos)
           there == SectorNumber(s)
<1>2. here \in Nat /\ there \in Nat
  BY <1>1, PagerAssumption DEF SectorNumber, Slot
<1>3. there \div NSlots = s[1] /\ there % NSlots = s[2]
  BY <1>1, SectorOfNumber DEF SectorNumber
<1>4. here \div NSlots = pos[1] /\ here % NSlots = pos[2]
  BY <1>1, SectorOfNumber DEF SectorNumber
<1>5. Advance(pos, there - here) = <<there \div NSlots, there % NSlots>>
  <2>1. here + (there - here) = there
    BY <1>2
  <2> QED
    BY <2>1 DEF Advance
<1>6. Advance(<<0, 0>>, there) = <<there \div NSlots, there % NSlots>>
  <2>1. SectorNumber(<<0, 0>>) + there = there
    BY <1>2, PagerAssumption DEF SectorNumber
  <2> QED
    BY <2>1 DEF Advance
<1> HIDE DEF here, there
<1>7. here = there => pos = s
  BY <1>1, <1>3, <1>4
<1> QED
  BY <1>1, <1>3, <1>5, <1>6, <1>7 DEF Seek, here, there

-----------------------------------------------------------------------------
LEMMA InitDInv == DiskInit => DInv
<1> SUFFICES ASSUME DiskInit
             PROVE  DInv
  OBVIOUS
<1>1. RInv
  BY InitInv DEF DiskInit, RInv, CopiedSoFar, Init
<1>2. RoutineState
  BY Ranges DEF DiskInit, RoutineState
<1> QED
  BY <1>1, <1>2 DEF DInv

(* The step of the pager in a step of the machine.                         *)
LEMMA PagerStep ==
  ASSUME RInv, Next
  PROVE  /\ RInv'
         /\ \A p \in VPage : Pinned(p) => Pinned(p)'
<1>1. RInv'
  BY Inductive, CopiedInductive DEF RInv
<1>2. ASSUME NEW p \in VPage, Pinned(p)
      PROVE  Pinned(p)'
  BY <1>2, PinnedStays DEF RInv, Pinned
<1> QED
  BY <1>1, <1>2

(* A write never opens a sequential read, nor does paging.                 *)
LEMMA WriteStaysClosed ==
  ASSUME IInv, Serve, ~streaming, op.kind # "read"
  PROVE  ~streaming' /\ op'.kind # "read" /\ pc' # "fault"
<1>1. \/ Hit \/ Miss \/ TakeFrame \/ StartFlush \/ FlushFrame
      \/ FlushSector \/ Retry \/ LoadSector \/ FinishWrite
  BY DEF Serve, FinishRead
<1> QED
  BY <1>1 DEF Hit, Miss, TakeFrame, StartFlush, FlushFrame, FlushSector, Retry,
              LoadSector, FinishWrite, EndSeqRead, chipVars, opVars, NoAccess

(* A transfer is one write to the disk or to memory that nothing else sees.*)
LEMMA TransferStep ==
  ASSUME DInv, ReadIntoMemory \/ WriteFromMemory
  PROVE  RInv' /\ RoutineState'
<1> USE DEF DInv, RInv, IInv
<1>1. /\ rpc = "buffer" /\ cmd \in Command /\ pc = "idle" /\ ~streaming
      /\ bufPtr \in VPage \X Slot
  BY DEF RoutineState, ReadIntoMemory, WriteFromMemory
<1>2. cmd.sector \in DataSector /\ pos' = cmd.sector
  BY <1>1, SeekArrives DEF Command, ReadIntoMemory, WriteFromMemory
<1>3. DmaAddress \in Frame \X Slot
  BY <1>1 DEF DmaAddress, TypeOK
<1>4. chip.open = FALSE /\ chip' = ChipClosed
  BY <1>1 DEF StreamCoherent, ReadIntoMemory, WriteFromMemory
<1>5. /\ UNCHANGED <<tableVars, streaming, prev, pc, opVars, copyVars, retried, flushVars>>
      /\ UNCHANGED <<bufPtr, cmd>> /\ rpc' = "return"
  BY DEF ReadIntoMemory, WriteFromMemory
<1>6. ram' \in [Frame -> [Slot -> Byte]] /\ disk' \in [Run -> [Slot -> Byte]]
  <2>1. CASE ReadIntoMemory
    <3>1. disk[pos'[1]][pos'[2]] \in Byte
      BY <1>2, DataSectorType DEF TypeOK
    <3>2. ram' = [ram EXCEPT ![DmaAddress[1]][DmaAddress[2]] = disk[pos'[1]][pos'[2]]]
      BY <1>4, <2>1 DEF ReadIntoMemory, ChipWrite
    <3> QED
      BY <1>3, <2>1, <3>1, <3>2 DEF ReadIntoMemory, TypeOK
  <2>2. CASE WriteFromMemory
    <3>1. ram[DmaAddress[1]][DmaAddress[2]] \in Byte
      BY <1>3 DEF TypeOK
    <3> QED
      BY <1>2, <1>4, <2>2, <3>1, DataSectorType DEF WriteFromMemory, TypeOK
  <2> QED
    BY <2>1, <2>2
<1>7. TypeOK'
  BY <1>2, <1>4, <1>5, <1>6, DataSectorType, Ranges
  DEF TypeOK, ChipClosed, tableVars, opVars, copyVars, flushVars
<1>8. TablesAgree'
  BY <1>5 DEF TablesAgree, Mapped, tableVars, opVars, copyVars, flushVars
<1>9. NeverStuck' /\ StreamCoherent'
  BY <1>1, <1>4, <1>5 DEF NeverStuck, StreamCoherent, ChipClosed
<1>10. CallState'
  BY <1>1, <1>5 DEF CallState, tableVars, opVars, copyVars, flushVars
<1>11. CopiedSoFar'
  BY <1>1, <1>5 DEF CopiedSoFar
<1>12. RoutineState'
  BY <1>1, <1>5 DEF RoutineState
<1> QED
  BY <1>7, <1>8, <1>9, <1>10, <1>11, <1>12

LEMMA DiskInductive == DInv /\ [DiskNext]_diskVars => DInv'
<1> SUFFICES ASSUME DInv, [DiskNext]_diskVars
             PROVE  DInv'
  OBVIOUS
<1> USE DEF DInv
<1>1. CASE UserAccess
  <2>1. RInv'
    BY <1>1, PagerStep DEF UserAccess, Next
  <2> QED
    BY <1>1, <2>1 DEF UserAccess, RoutineState
<1>2. CASE ServeAccess
  <2>1. RInv' /\ \A p \in VPage : Pinned(p) => Pinned(p)'
    BY <1>2, PagerStep DEF ServeAccess, Next
  <2>2. rpc # "buffer"
    BY <1>2 DEF ServeAccess, RoutineState, Serve, Hit, Miss, TakeFrame, StartFlush,
                FlushFrame, FlushSector, Retry, LoadSector, FinishRead, FinishWrite
  <2>3. rpc = "pushed" => ~streaming' /\ op'.kind # "read" /\ pc' # "fault"
    BY <1>2, WriteStaysClosed DEF ServeAccess, RoutineState, RInv
  <2>4. rpc = "pushed" /\ PinnedOnly => Pinned(cmd.page)'
    <3> SUFFICES ASSUME rpc = "pushed", PinnedOnly
                 PROVE  Pinned(cmd.page)'
      OBVIOUS
    <3>1. cmd.page \in VPage /\ Pinned(cmd.page) /\ cmd' = cmd
      BY <1>2 DEF ServeAccess, RoutineState, Command
    <3> QED
      BY <2>1, <3>1 DEF Pinned
  <2> QED
    BY <1>2, <2>1, <2>2, <2>3, <2>4 DEF ServeAccess, RoutineState, Pinned
<1>3. ASSUME NEW c \in Command, CallSector(c)
      PROVE  DInv'
  <2>1. PICK b \in Byte : WriteRequest(StackPage, StackSlot, b)
    BY <1>3 DEF CallSector
  <2>2. Next
    BY <2>1, DiskAssumption, PagerAssumption DEF Next, Ask, VPage
  <2>3. RInv' /\ \A p \in VPage : Pinned(p) => Pinned(p)'
    BY <2>2, PagerStep
  <2>4. ~streaming' /\ op'.kind # "read" /\ pc' # "fault"
    BY <2>1 DEF WriteRequest, EndSeqRead
  <2>5. PinnedOnly => Pinned(c.page)'
    BY <1>3, <2>3 DEF CallSector, Command
  <2> QED
    BY <1>3, <2>3, <2>4, <2>5 DEF CallSector, RoutineState, Pinned
<1>4. CASE SetBuffer
  <2>1. RInv'
    BY <1>4, Inductive, CopiedInductive DEF SetBuffer, RInv
  <2>2. /\ cmd \in Command /\ bufPtr' = <<cmd.page, cmd.slot>>
    BY <1>4 DEF SetBuffer, RoutineState
  <2>3. bufPtr' \in VPage \X Slot
    BY <2>2 DEF Command
  <2>4. Pinned(cmd.page)' <=> Pinned(cmd.page)
    BY <1>4 DEF SetBuffer, Pinned, Mapped, vars, tableVars, opVars
  <2> QED
    BY <1>4, <2>1, <2>2, <2>3, <2>4
    DEF SetBuffer, RoutineState, vars, chipVars, opVars, Pinned
<1>5. CASE ReadIntoMemory \/ WriteFromMemory
  BY <1>5, TransferStep
<1>6. CASE Return
  <2>1. Next
    BY <1>6, DiskAssumption, PagerAssumption DEF Return, Next, Ask, VPage
  <2>2. RInv'
    BY <2>1, PagerStep
  <2> QED
    BY <1>6, <2>2 DEF Return, RoutineState
<1>7. CASE UNCHANGED diskVars
  <2>1. RInv'
    BY <1>7, Inductive, CopiedInductive DEF diskVars, RInv
  <2> QED
    BY <1>7, <2>1
    DEF diskVars, vars, tableVars, chipVars, opVars, RoutineState, Pinned, Mapped
<1> QED
  BY <1>1, <1>2, <1>3, <1>4, <1>5, <1>6, <1>7 DEF DiskNext

LEMMA DiskInvariance == DiskSpec => []DInv
BY InitDInv, DiskInductive, PTL DEF DiskSpec

-----------------------------------------------------------------------------
(* Both transfer functions find the SPI chip free although neither looks,  *)
(* in any program that may call them: the routine writes to its stack.     *)
THEOREM ChipIsFree == DiskSpec => []ChipFreeAtTransfer
<1>1. DInv => ChipFreeAtTransfer
  BY DEF DInv, RInv, IInv, RoutineState, StreamCoherent, ChipFreeAtTransfer
<1> QED
  BY <1>1, DiskInvariance, PTL
-----------------------------------------------------------------------------
(* Paging writes to the swap area alone, which lies behind the data.       *)
LEMMA PagingKeepsSectors ==
  ASSUME IInv, Next, NEW s \in DataSector
  PROVE  disk'[s[1]][s[2]] = disk[s[1]][s[2]]
<1>1. CASE FlushSector
  <2>1. /\ victim \in VPage
        /\ disk' = [disk EXCEPT ![SwapRun + victim][k] = ram[FlushFirst + j][k]]
    BY <1>1, FlushSectorStep
  <2>2. s[1] \in Run /\ s[1] # SwapRun + victim
    BY <2>1, DataSectorType
  <2> QED
    BY <2>1, <2>2 DEF IInv, TypeOK
<1>2. CASE ~FlushSector
  BY <1>2 DEF Next, Ask, Serve, ReadRequest, ReadFault, WriteRequest, Hit, Miss,
              TakeFrame, StartFlush, FlushFrame, Retry, LoadSector, FinishRead,
              FinishWrite
<1> QED
  BY <1>1, <1>2

(* What WriteFromMemory writes: the sector asked for.                      *)
LEMMA SectorWritten ==
  ASSUME DInv, WriteFromMemory
  PROVE  /\ cmd \in Command /\ cmd.sector \in DataSector
         /\ bufPtr = <<cmd.page, cmd.slot>> /\ pc = "idle"
         /\ disk' = [disk EXCEPT ![cmd.sector[1]][cmd.sector[2]] =
                       ram[at[cmd.page]][cmd.slot]]
<1>1. /\ cmd \in Command /\ bufPtr = <<cmd.page, cmd.slot>> /\ pc = "idle"
      /\ ~streaming
  BY DEF WriteFromMemory, DInv, RoutineState
<1>2. cmd.sector \in DataSector /\ pos' = cmd.sector
  BY <1>1, SeekArrives DEF Command, WriteFromMemory, DInv, RInv, IInv
<1>3. ~chip.open
  BY <1>1 DEF DInv, RInv, IInv, StreamCoherent
<1> QED
  BY <1>1, <1>2, <1>3 DEF WriteFromMemory, DmaAddress

(* What ReadIntoMemory reads it reads into the buffer.                     *)
LEMMA BufferWritten ==
  ASSUME DInv, ReadIntoMemory
  PROVE  /\ cmd \in Command /\ cmd.sector \in DataSector
         /\ bufPtr = <<cmd.page, cmd.slot>> /\ pc = "idle"
         /\ ram' = [ram EXCEPT ![at[cmd.page]][cmd.slot] =
                      disk[cmd.sector[1]][cmd.sector[2]]]
<1>1. /\ cmd \in Command /\ bufPtr = <<cmd.page, cmd.slot>> /\ pc = "idle"
      /\ ~streaming
  BY DEF ReadIntoMemory, DInv, RoutineState
<1>2. cmd.sector \in DataSector /\ pos' = cmd.sector
  BY <1>1, SeekArrives DEF Command, ReadIntoMemory, DInv, RInv, IInv
<1>3. ~chip.open
  BY <1>1 DEF DInv, RInv, IInv, StreamCoherent
<1> QED
  BY <1>1, <1>2, <1>3 DEF ReadIntoMemory, DmaAddress, ChipWrite

(* Paging never touches a sector of the file system, and a transfer        *)
(* touches the one asked for, wherever paging left the position of the     *)
(* file they share.                                                        *)
THEOREM OneSectorATime == DiskSpec => OnlyAskedSector
<1> DEFINE Asked == \A s \in DataSector :
                      disk'[s[1]][s[2]] # disk[s[1]][s[2]] =>
                        cmd.kind = "write" /\ cmd.sector = s /\ rpc = "buffer"
<1>1. ASSUME DInv, [DiskNext]_diskVars
      PROVE  [Asked]_diskVars
  <2> SUFFICES ASSUME NEW s \in DataSector,
                      disk'[s[1]][s[2]] # disk[s[1]][s[2]]
               PROVE  cmd.kind = "write" /\ cmd.sector = s /\ rpc = "buffer"
    OBVIOUS
  <2>1. ~Next
    BY <1>1, PagingKeepsSectors DEF DInv, RInv
  <2>2. disk' # disk
    OBVIOUS
  <2>3. WriteFromMemory
    <3>1. ~UserAccess /\ ~ServeAccess
      BY <2>1 DEF UserAccess, ServeAccess, Next
    <3>2. ~(\E c \in Command : CallSector(c)) /\ ~Return
      BY <2>1, DiskAssumption, PagerAssumption
      DEF CallSector, Return, Next, Ask, VPage
    <3>3. ~SetBuffer /\ ~ReadIntoMemory /\ ~UNCHANGED diskVars
      BY <2>2 DEF SetBuffer, ReadIntoMemory, diskVars, vars
    <3> QED
      BY <1>1, <3>1, <3>2, <3>3 DEF DiskNext
  <2>4. cmd.sector = s
    <3> SUFFICES ASSUME cmd.sector # s
                 PROVE  FALSE
      OBVIOUS
    <3>1. s[1] # cmd.sector[1] \/ s[2] # cmd.sector[2]
      BY <1>1, <2>3, SectorWritten, DataSectorType
    <3> QED
      BY <1>1, <2>3, <3>1, SectorWritten, DataSectorType
      DEF DInv, RInv, IInv, TypeOK
  <2> QED
    BY <2>3, <2>4 DEF WriteFromMemory
<1> QED
  BY <1>1, DiskInvariance, PTL DEF DiskSpec, OnlyAskedSector

-----------------------------------------------------------------------------
(* Machine, the promise of the VM and the ROM routines together.           *)
Sectors == [s \in DataSector |-> disk[s[1]][s[2]]]
Io == IF rpc \in {"pushed", "buffer"} THEN cmd ELSE NoCommand

(* Machine takes over the steps of Memory.                                 *)
LEMMA MemoryStep == Mem!Next => Promise!Next
BY DEF Mem!Next, Mem!Issue, Mem!Read, Mem!Write, Mem!Fault, Mem!Request,
       Promise!Next, Promise!Issue, Promise!Read, Promise!Write, Promise!Fault,
       Promise!Request

LEMMA PagingKeepsSectorsSeen ==
  ASSUME IInv, Next
  PROVE  Sectors' = Sectors
BY PagingKeepsSectors DEF Sectors

(* A step of the pager that calls for nothing is a use of the memory.      *)
LEMMA UseStep ==
  ASSUME RInv, Next, UNCHANGED Io
  PROVE  [Promise!MachineNext]_(Promise!machineVars)
<1>1. Mem!Next \/ UNCHANGED <<View, Req, result, pc = "fault">>
  BY NextRefines DEF Mem!vars, Req
<1>2. Sectors' = Sectors
  BY PagingKeepsSectorsSeen DEF RInv
<1>3. CASE Mem!Next
  BY <1>2, <1>3, MemoryStep DEF Promise!MachineNext, Promise!Use, Sectors, Io
<1>4. CASE UNCHANGED <<View, Req, result, pc = "fault">>
  BY <1>2, <1>4 DEF Promise!machineVars, Promise!vars, Sectors, Io, Req
<1> QED
  BY <1>1, <1>3, <1>4

(* Between accesses what the program sees of a page is where it is kept.   *)
LEMMA IdleView ==
  ASSUME IInv, pc = "idle"
  PROVE  View = [p \in VPage |-> IF p \in resident THEN ram[at[p]]
                                 ELSE disk[SwapRun + p]]
BY DEF View, Home, Mapped

LEMMA ReadStep ==
  ASSUME DInv, PinnedOnly, ReadIntoMemory
  PROVE  Promise!ReadSector
<1> USE DEF DInv, RInv, IInv
<1>1. /\ cmd \in Command /\ cmd.sector \in DataSector /\ pc = "idle"
      /\ cmd.kind = "read" /\ cmd.page \in VPage /\ cmd.slot \in Slot
      /\ ram' = [ram EXCEPT ![at[cmd.page]][cmd.slot] =
                   disk[cmd.sector[1]][cmd.sector[2]]]
  BY BufferWritten DEF Command, ReadIntoMemory
<1>2. /\ UNCHANGED <<disk, resident, at, pc, op, vpage, result, cmd>>
      /\ rpc = "buffer" /\ rpc' = "return"
  BY DEF ReadIntoMemory, tableVars, opVars
<1>3. cmd.page \in resident
  BY <1>2 DEF RoutineState, Pinned, Mapped
<1>4. /\ ram \in [Frame -> [Slot -> Byte]] /\ at[cmd.page] \in Frame
      /\ \A p \in VPage : at[p] \in Frame
  BY <1>1 DEF TypeOK
<1>5. \A p \in resident : p # cmd.page => at[p] # at[cmd.page]
  BY <1>1, <1>3 DEF TablesAgree, Mapped
<1>6. ASSUME NEW p \in VPage
      PROVE  (IF p \in resident' THEN ram'[at'[p]] ELSE disk'[SwapRun + p]) =
               IF p = cmd.page
               THEN [ram[at[p]] EXCEPT ![cmd.slot] =
                       disk[cmd.sector[1]][cmd.sector[2]]]
               ELSE IF p \in resident THEN ram[at[p]] ELSE disk[SwapRun + p]
  BY <1>1, <1>2, <1>3, <1>4, <1>5
<1>7. /\ View = [p \in VPage |-> IF p \in resident THEN ram[at[p]]
                                 ELSE disk[SwapRun + p]]
      /\ View' = [p \in VPage |-> IF p \in resident' THEN ram'[at'[p]]
                                  ELSE disk'[SwapRun + p]]
  BY <1>1, <1>2, IdleView DEF View, Home, Mapped
<1>8. View' = [View EXCEPT ![cmd.page][cmd.slot] =
                 disk[cmd.sector[1]][cmd.sector[2]]]
  BY <1>1, <1>3, <1>6, <1>7
<1>9. /\ Io = cmd /\ Io' = NoCommand /\ cmd # NoCommand
      /\ Sectors' = Sectors /\ Req = NoAccess /\ Req' = Req
      /\ Sectors[cmd.sector] = disk[cmd.sector[1]][cmd.sector[2]]
  BY <1>1, <1>2, RequestSeen DEF Io, Sectors, Req, Command, NoCommand
<1> QED
  BY <1>1, <1>2, <1>8, <1>9 DEF Promise!ReadSector, Io, Sectors, Req

LEMMA WriteStep ==
  ASSUME DInv, PinnedOnly, WriteFromMemory
  PROVE  Promise!WriteSector
<1> USE DEF DInv, RInv, IInv
<1>1. /\ cmd \in Command /\ cmd.sector \in DataSector /\ pc = "idle"
      /\ cmd.kind = "write" /\ cmd.page \in VPage /\ cmd.slot \in Slot
      /\ disk' = [disk EXCEPT ![cmd.sector[1]][cmd.sector[2]] =
                    ram[at[cmd.page]][cmd.slot]]
  BY SectorWritten DEF Command, WriteFromMemory
<1>2. /\ UNCHANGED <<ram, resident, at, pc, op, vpage, result, cmd>>
      /\ rpc = "buffer" /\ rpc' = "return"
  BY DEF WriteFromMemory, tableVars, opVars
<1>3. cmd.page \in resident
  BY <1>2 DEF RoutineState, Pinned, Mapped
<1>4. ASSUME NEW p \in VPage
      PROVE  disk'[SwapRun + p] = disk[SwapRun + p]
  BY <1>1, DataSectorType, Ranges DEF TypeOK
<1>5. View' = View
  BY <1>1, <1>2, <1>4 DEF View, Home, Mapped
<1>6. View[cmd.page][cmd.slot] = ram[at[cmd.page]][cmd.slot]
  BY <1>1, <1>3, IdleView
<1>7. ASSUME NEW s \in DataSector
      PROVE  disk'[s[1]][s[2]] = IF s = cmd.sector
                                 THEN ram[at[cmd.page]][cmd.slot]
                                 ELSE disk[s[1]][s[2]]
  BY <1>1, DataSectorType DEF TypeOK
<1>8. Sectors' = [Sectors EXCEPT ![cmd.sector] = View[cmd.page][cmd.slot]]
  BY <1>1, <1>6, <1>7 DEF Sectors
<1>9. /\ Io = cmd /\ Io' = NoCommand /\ cmd # NoCommand
      /\ Req = NoAccess /\ Req' = Req
  BY <1>1, <1>2, RequestSeen DEF Io, Req, Command, NoCommand
<1> QED
  BY <1>1, <1>2, <1>5, <1>8, <1>9 DEF Promise!WriteSector, Io, Sectors, Req

LEMMA InitMachine == DiskInit => Promise!MachineInit
<1> SUFFICES ASSUME DiskInit
             PROVE  Promise!MachineInit
  OBVIOUS
<1>1. Mem!Init
  BY InitRefines DEF DiskInit
<1>2. Sectors \in [DataSector -> Byte]
  BY DataSectorType DEF DiskInit, Init, Sectors
<1> QED
  BY <1>1, <1>2
  DEF Mem!Init, Promise!Init, Promise!MachineInit, DiskInit, Sectors, Io

LEMMA DiskNextRefines ==
  PinnedOnly /\ DInv /\ [DiskNext]_diskVars
    => [Promise!MachineNext]_(Promise!machineVars)
<1> SUFFICES ASSUME PinnedOnly, DInv, [DiskNext]_diskVars
             PROVE  [Promise!MachineNext]_(Promise!machineVars)
  OBVIOUS
<1>0. RInv
  BY DEF DInv
<1>1. CASE UserAccess \/ ServeAccess
  BY <1>0, <1>1, UseStep DEF UserAccess, ServeAccess, Next, Io
<1>2. ASSUME NEW c \in Command, CallSector(c)
      PROVE  [Promise!MachineNext]_(Promise!machineVars)
  <2>1. PICK b \in Byte : WriteRequest(StackPage, StackSlot, b)
    BY <1>2 DEF CallSector
  <2>2. Next
    BY <2>1, DiskAssumption, PagerAssumption DEF Next, Ask, VPage
  <2>3. RInv' /\ pc = "idle" /\ pc' = "translate"
    BY <1>0, <2>1, <2>2, PagerStep DEF WriteRequest
  <2>4. Req = NoAccess /\ Req' # NoAccess
    BY <1>0, <2>1, <2>3, RequestSeen DEF RInv, WriteRequest, Req, NoAccess
  <2>5. Mem!Issue
    BY <1>0, <2>2, <2>3, <2>4, NextRefines
    DEF Mem!Next, Mem!vars, Mem!Read, Mem!Write, Mem!Fault, Req
  <2>6. Promise!Issue
    BY <2>5 DEF Mem!Issue, Mem!Request, Promise!Issue, Promise!Request
  <2>7. Io = NoCommand /\ Io' = c /\ Sectors' = Sectors
    BY <1>0, <1>2, <2>2, PagingKeepsSectorsSeen DEF CallSector, Io, RInv
  <2>8. c \in Promise!Transfers
    BY DEF Promise!Transfers, Command
  <2> QED
    BY <2>6, <2>7, <2>8 DEF Promise!MachineNext, Promise!Call, Io, Sectors
<1>3. CASE SetBuffer \/ UNCHANGED diskVars
  <2>1. UNCHANGED <<ram, disk, resident, at, pc, op, vpage, result, victim, j, cmd>>
        /\ Io' = Io
    BY <1>3 DEF SetBuffer, diskVars, vars, tableVars, opVars, flushVars, Io
  <2>2. View' = View /\ Sectors' = Sectors
    BY <2>1 DEF View, Home, Mapped, Sectors
  <2> QED
    BY <2>1, <2>2 DEF Promise!machineVars, Promise!vars, Sectors, Io
<1>4. CASE ReadIntoMemory
  BY <1>4, ReadStep DEF Promise!MachineNext
<1>5. CASE WriteFromMemory
  BY <1>5, WriteStep DEF Promise!MachineNext
<1>6. CASE Return
  <2>1. Next
    BY <1>6, DiskAssumption, PagerAssumption DEF Return, Next, Ask, VPage
  <2> QED
    BY <1>0, <1>6, <2>1, UseStep DEF Return, Io
<1> QED
  BY <1>1, <1>2, <1>3, <1>4, <1>5, <1>6 DEF DiskNext

(* As long as the buffers lie in pages that are never flushed, the program *)
(* sees flat memory and a disk of whole sectors, however the transfers and *)
(* the paging of the two programs interleave.                              *)
THEOREM MachineIsFlat == PinnedOnly => (DiskSpec => FlatMachine)
<1> SUFFICES ASSUME PinnedOnly
             PROVE  DiskSpec => FlatMachine
  OBVIOUS
<1>1. DInv /\ [DiskNext]_diskVars
        => [Promise!MachineNext]_(Promise!machineVars)
  BY DiskNextRefines
<1> QED
  BY DiskInvariance, InitMachine, <1>1, PTL
  DEF DiskSpec, FlatMachine, Promise!MachineSpec

-----------------------------------------------------------------------------
(* The ROM.                                                                *)

BootPages   == {EventPage, StackPage, BootPage}
BootByte    == View[BootPage][BootSlot]
BootCommand == [kind |-> "read", sector |-> BootSector,
                page |-> BootPage, slot |-> BootSlot]

(* Three pages are in the first three frames.                              *)
FewPages ==
  /\ resident \subseteq BootPages /\ vpage \in BootPages
  /\ used \subseteq 0 .. 2
  /\ pc \in {"idle", "translate", "find", "load", "access"}
  /\ op.kind = "write" => vpage # BootPage

(* In 0x800 is what was there or the boot sector.                          *)
BootContents == BootByte \in {disk[SwapRun + BootPage][BootSlot], disk[0][0]}

(* What the ROM has asked for.                                             *)
BootProgress ==
  /\ rpc \in {"pushed", "buffer"} => cmd = BootCommand
  /\ bpc = "decide" =>
       /\ rpc = "user"
       /\ pc = "idle" => result = BootByte /\ BootPage \in resident
       /\ pc # "idle" => op.kind = "read" /\ vpage = BootPage /\ op.slot = BootSlot
  /\ bpc = "jumped" => /\ pc = "idle" /\ rpc = "user"
                       /\ BootByte \in Bootable /\ BootPage \in resident

BootInv == DInv /\ FewPages /\ BootContents /\ BootProgress

-----------------------------------------------------------------------------
LEMMA BootRanges ==
  ASSUME BootAssumption
  PROVE  /\ BootPages \subseteq VPage /\ VPage \subseteq 0 .. SpacePages - 1
         /\ \A p \in VPage : p < NPages /\ p % NPages = p
         /\ EventPage # BootPage /\ StackPage # BootPage /\ EventPage # StackPage
         /\ EventSlot \in Slot /\ BootSlot \in Slot /\ StackSlot \in Slot
         /\ {0, 1, 2} \subseteq Frame \ Flushed
         /\ BootCommand \in Command
         /\ SwapRun + BootPage \in Run /\ 0 \in Run /\ 0 \in Slot
BY DiskAssumption, PagerAssumption, Ranges
DEF BootAssumption, BootPages, BootPage, VPage, Slot, Frame, Flushed, BootCommand, BootSector,
    Command, DataSector, Run

LEMMA InitBootInv ==
  ASSUME BootAssumption, BootInit
  PROVE  BootInv
<1>1. DInv
  BY InitDInv DEF BootInit
<1>2. FewPages
  BY DEF BootInit, DiskInit, Init, FewPages, NoAccess, BootPages, BootPage
<1>3. BootByte = disk[SwapRun + BootPage][BootSlot]
  BY BootRanges DEF BootInit, DiskInit, Init, BootByte, View, Home, Mapped, BootPages
<1> QED
  BY <1>1, <1>2, <1>3 DEF BootInit, DiskInit, BootInv, BootContents, BootProgress

(* An access the ROM asks for changes nothing yet.                         *)
LEMMA RequestKeeps ==
  ASSUME BootAssumption, BootInv, NEW p \in BootPages, NEW s \in Slot,
         \/ ReadRequest(p, s)
         \/ p # BootPage /\ \E b \in Byte : WriteRequest(p, s, b)
  PROVE  /\ Ask /\ FewPages' /\ BootContents'
         /\ pc = "idle" /\ pc' = "translate"
<1>1. p \in VPage /\ p \in 0 .. SpacePages - 1 /\ p % NPages = p
  BY BootRanges
<1>2. Ask
  BY <1>1, Zenon DEF Ask
<1>3. View' = View
  BY <1>2, QuietKeepsView DEF Quiet
<1>4. /\ pc = "idle" /\ pc' = "translate" /\ vpage' = p
      /\ disk' = disk /\ resident' = resident /\ used' = used
      /\ op'.kind = "write" => p # BootPage
  BY <1>1 DEF ReadRequest, WriteRequest, tableVars
<1> QED
  BY <1>2, <1>3, <1>4 DEF BootInv, FewPages, BootContents, BootByte

(* The lowest free frame is one of the first three: with vpage missing two *)
(* pages at most have a frame.                                             *)
LEMMA FrameOfThree ==
  ASSUME BootAssumption, BootInv, TakeFrame
  PROVE  frame' \in 0 .. 2
<1> USE DEF BootInv, DInv, RInv, IInv
<1>1. vpage \notin resident /\ Mapped = resident
  BY DEF TakeFrame, CallState, Mapped
<1>2. \A f \in used : \E p \in resident : at[p] = f
  BY <1>1 DEF TablesAgree, TakeFrame, TypeOK
<1>3. \E f \in {0, 1, 2} : f \notin used
  <2> SUFFICES ASSUME {0, 1, 2} \subseteq used
               PROVE  FALSE
    OBVIOUS
  <2>1. PICK p, q, r \in resident : at[p] = 0 /\ at[q] = 1 /\ at[r] = 2
    BY <1>2
  <2>2. p # q /\ q # r /\ p # r
    BY <2>1
  <2>3. /\ {p, q, r} \subseteq BootPages \ {vpage}
        /\ vpage \in BootPages
    BY <1>1 DEF FewPages
  <2> QED
    BY <2>2, <2>3 DEF BootPages
<1>4. PICK f \in {0, 1, 2} : f \in FreeFrames
  BY <1>3, BootRanges DEF FreeFrames
<1>5. frame' \in Frame /\ frame' <= f
  BY <1>4 DEF TakeFrame, FreeFrames
<1> QED
  BY <1>4, <1>5 DEF Frame

(* Serving an access flushes nothing, and changes no byte that the ROM did *)
(* not write.                                                              *)
LEMMA ServeKeeps ==
  ASSUME BootAssumption, BootInv, Serve
  PROVE  /\ FewPages' /\ BootContents' /\ BootByte' = BootByte
         /\ pc # "idle"
         /\ pc' # "idle" => op' = op /\ vpage' = vpage
         /\ pc' = "idle" => vpage \in resident'
         /\ pc' = "idle" /\ op.kind = "read" => result' = View[vpage][op.slot]
<1> USE DEF BootInv, DInv, RInv
<1>1. ~StartFlush
  <2>1. ASSUME StartFlush
        PROVE  FALSE
    <3>1. used = Frame
      BY <2>1 DEF StartFlush, FreeFrames, IInv, TypeOK
    <3>2. 3 \in Frame
      BY PagerAssumption DEF BootAssumption, Frame
    <3> QED
      BY <3>1, <3>2 DEF FewPages
  <2> QED
    BY <2>1
<1>2. ~FlushFrame /\ ~FlushSector /\ ~Retry
  BY DEF FlushFrame, FlushSector, Retry, FewPages
<1>3. CASE Hit \/ Miss
  <2>1. View' = View
    BY <1>3, QuietKeepsView DEF Quiet
  <2> QED
    BY <1>3, <2>1
    DEF Hit, Miss, FewPages, BootContents, BootByte, tableVars, opVars
<1>4. CASE TakeFrame
  <2>1. View' = View
    BY <1>4, PagingKeepsView
  <2>2. frame' \in 0 .. 2
    BY <1>4, FrameOfThree
  <2> QED
    BY <1>4, <2>1, <2>2 DEF TakeFrame, FewPages, BootContents, BootByte, opVars
<1>5. CASE LoadSector
  <2>1. View' = View
    BY <1>5, PagingKeepsView
  <2> QED
    BY <1>5, <2>1 DEF LoadSector, FewPages, BootContents, BootByte, opVars
<1>6. CASE FinishRead
  <2>1. View' = View
    BY <1>6, QuietKeepsView DEF Quiet
  <2>2. result' = View[vpage][op.slot]
    <3>1. Req # NoAccess
      BY <1>6, RequestSeen DEF FinishRead, IInv, CallState, Req, NoAccess
    <3>2. Req' = NoAccess
      BY <1>6 DEF FinishRead, Req, NoAccess
    <3>3. Mem!Next
      BY <1>6, <3>1, <3>2, NextRefines DEF Next, Serve, Mem!vars, Req
    <3>4. Mem!Read
      BY <1>6, <3>1, <3>2, <3>3
      DEF Mem!Next, Mem!Issue, Mem!Write, Mem!Fault, Req, FinishRead
    <3> QED
      BY <3>4 DEF Mem!Read, Req
  <2>3. vpage \in resident
    BY <1>6 DEF FinishRead, IInv, CallState
  <2> QED
    BY <1>6, <2>1, <2>2, <2>3
    DEF FinishRead, FewPages, BootContents, BootByte, tableVars, NoAccess,
        BootPages, BootPage
<1>7. CASE FinishWrite
  <2>1. View' = [View EXCEPT ![vpage][op.slot] = op.byte] /\ vpage # BootPage
    BY <1>7, WriteChangesView DEF FinishWrite, FewPages
  <2>2. BootByte' = BootByte
    <3>1. View \in [VPage -> [Slot -> Byte]] /\ BootPage \in VPage
      BY HomeType, BootRanges DEF View, BootPages
    <3> QED
      BY <2>1, <3>1 DEF BootByte
  <2>3. vpage \in resident
    BY <1>7 DEF FinishWrite, IInv, CallState
  <2> QED
    BY <1>7, <2>2, <2>3
    DEF FinishWrite, FewPages, BootContents, tableVars, NoAccess, BootPages, BootPage
<1> QED
  BY <1>1, <1>2, <1>3, <1>4, <1>5, <1>6, <1>7 DEF Serve

(* The transfer puts the boot sector into page 0, or into a page that does *)
(* not hold what page 0 is going to be loaded with.                        *)
LEMMA TransferKeeps ==
  ASSUME BootAssumption, BootInv, ReadIntoMemory
  PROVE  FewPages' /\ BootContents'
<1> USE DEF BootInv, DInv, RInv, IInv
<1>1. /\ cmd = BootCommand /\ pc = "idle" /\ at[BootPage] \in Frame
      /\ ram' = [ram EXCEPT ![at[BootPage]][BootSlot] = disk[0][0]]
      /\ UNCHANGED <<disk, resident, used, at, pc, op, vpage>>
  <2>1. cmd = BootCommand
    BY DEF ReadIntoMemory, BootProgress
  <2>2. /\ pc = "idle"
        /\ ram' = [ram EXCEPT ![at[cmd.page]][cmd.slot] =
                     disk[cmd.sector[1]][cmd.sector[2]]]
    BY BufferWritten
  <2>3. UNCHANGED <<disk, resident, used, at, pc, op, vpage>>
    BY DEF ReadIntoMemory, tableVars, opVars
  <2>4. at[BootPage] \in Frame
    BY BootRanges DEF TypeOK, BootPages
  <2>5. /\ cmd.page = BootPage /\ cmd.slot = BootSlot
        /\ cmd.sector[1] = 0 /\ cmd.sector[2] = 0
    BY <2>1 DEF BootCommand, BootSector
  <2> QED
    BY <2>1, <2>2, <2>3, <2>4, <2>5
<1>2. FewPages'
  BY <1>1 DEF FewPages
<1>3. /\ BootByte = IF BootPage \in resident THEN ram[at[BootPage]][BootSlot]
                    ELSE disk[SwapRun + BootPage][BootSlot]
      /\ BootByte' = IF BootPage \in resident THEN ram'[at[BootPage]][BootSlot]
                     ELSE disk[SwapRun + BootPage][BootSlot]
  BY <1>1, BootRanges DEF BootByte, View, Home, Mapped, BootPages
<1>4. BootPage \in resident => BootByte' = disk[0][0]
  BY <1>1, <1>3, BootRanges DEF TypeOK
<1> QED
  BY <1>1, <1>2, <1>3, <1>4 DEF BootContents

(* A step of the ROM is one of a program of DiskController.                *)
LEMMA BootStep ==
  ASSUME BootAssumption, BootInv, [BootNext]_bootVars
  PROVE  [DiskNext]_diskVars
<1>1. ASSUME NEW p \in BootPages, NEW s \in Slot,
             \/ Access1(ReadRequest(p, s))
             \/ \E b \in Byte : Access1(WriteRequest(p, s, b)),
             rpc = "user"
      PROVE  UserAccess
  <2>1. p \in 0 .. SpacePages - 1
    BY BootRanges
  <2>2. Ask /\ UNCHANGED <<bufPtr, rpc, cmd>>
    BY <1>1, <2>1, Zenon DEF Ask, Access1
  <2> QED
    BY <1>1, <2>2 DEF UserAccess
<1>2. CASE Entry \/ Welcome \/ EventLoop \/ EventInit \/ CheckMagic
  BY <1>1, <1>2, BootRanges, PagerAssumption
  DEF BootAssumption, Entry, Welcome, EventLoop, EventInit, CheckMagic, At, BootPages, DiskNext
<1>3. CASE StartBoot
  BY <1>3, BootRanges DEF StartBoot, BootCommand, DiskNext
<1>4. CASE Decide \/ UNCHANGED bootVars
  BY <1>4 DEF Decide, bootVars
<1>5. CASE ServeAccess \/ Routine
  BY <1>5 DEF Routine, DiskNext
<1> QED
  BY <1>2, <1>3, <1>4, <1>5 DEF BootNext

LEMMA BootInductive ==
  ASSUME BootAssumption, BootInv, [BootNext]_bootVars
  PROVE  BootInv'
<1>1. DInv'
  BY BootStep, DiskInductive DEF BootInv
<1>2. CASE Entry \/ Welcome \/ EventLoop
  <2>1. PICK p \in BootPages, s \in Slot :
          \/ ReadRequest(p, s)
          \/ p # BootPage /\ \E b \in Byte : WriteRequest(p, s, b)
    BY <1>2, BootRanges, PagerAssumption
    DEF Entry, Welcome, EventLoop, Access1, BootPages
  <2>2. FewPages' /\ BootContents'
    BY <2>1, RequestKeeps
  <2>3. BootProgress'
    BY <1>2 DEF Entry, Welcome, EventLoop, At, Access1, BootInv, BootProgress
  <2> QED
    BY <1>1, <2>2, <2>3 DEF BootInv
<1>3. CASE EventInit
  <2>1. CASE UNCHANGED diskVars
    BY <1>1, <1>3, <2>1
    DEF EventInit, At, BootInv, FewPages, BootContents, BootProgress, BootByte,
        diskVars, vars, tableVars, opVars, flushVars, View, Home, Mapped
  <2>2. CASE \E b \in Byte \ {Zero} : Access1(WriteRequest(EventPage, EventSlot, b))
    <3>1. FewPages' /\ BootContents'
      BY <2>2, RequestKeeps, BootRanges DEF Access1, BootPages
    <3>2. BootProgress'
      BY <1>3, <2>2 DEF EventInit, At, Access1, BootInv, BootProgress
    <3> QED
      BY <1>1, <3>1, <3>2 DEF BootInv
  <2> QED
    BY <1>3, <2>1, <2>2 DEF EventInit
<1>4. CASE StartBoot
  <2>1. PICK b \in Byte : WriteRequest(StackPage, StackSlot, b)
    BY <1>4 DEF StartBoot, CallSector
  <2>2. FewPages' /\ BootContents'
    BY <2>1, RequestKeeps, BootRanges DEF BootPages
  <2>3. BootProgress'
    BY <1>4 DEF StartBoot, At, CallSector, BootCommand, BootInv, BootProgress
  <2> QED
    BY <1>1, <2>2, <2>3 DEF BootInv
<1>5. CASE CheckMagic
  <2>1. ReadRequest(BootPage, BootSlot) /\ rpc' = rpc
    BY <1>5 DEF CheckMagic, Access1
  <2>2. FewPages' /\ BootContents' /\ pc' = "translate"
    BY <2>1, RequestKeeps, BootRanges DEF BootPages
  <2>3. BootProgress'
    BY <1>5, <2>1, <2>2 DEF CheckMagic, At, ReadRequest, BootProgress, BootInv
  <2> QED
    BY <1>1, <2>2, <2>3 DEF BootInv
<1>6. CASE Decide
  <2>1. View' = View
    BY <1>6, QuietKeepsView DEF Decide, diskVars
  <2> QED
    BY <1>1, <1>6, <2>1
    DEF Decide, At, BootInv, FewPages, BootContents, BootProgress, BootByte,
        diskVars, vars, tableVars, opVars
<1>7. CASE ServeAccess /\ UNCHANGED bpc
  <2>1. /\ FewPages' /\ BootContents' /\ BootByte' = BootByte
        /\ pc # "idle"
        /\ pc' # "idle" => op' = op /\ vpage' = vpage
        /\ pc' = "idle" => vpage \in resident'
        /\ pc' = "idle" /\ op.kind = "read" => result' = View[vpage][op.slot]
    BY <1>7, ServeKeeps DEF ServeAccess
  <2>2. BootProgress'
    BY <1>7, <2>1 DEF ServeAccess, BootInv, BootProgress, BootByte
  <2> QED
    BY <1>1, <2>1, <2>2 DEF BootInv
<1>8. CASE SetBuffer /\ UNCHANGED bpc
  <2>1. View' = View
    BY <1>8, QuietKeepsView DEF SetBuffer
  <2> QED
    BY <1>1, <1>8, <2>1
    DEF SetBuffer, BootInv, FewPages, BootContents, BootProgress, BootByte,
        vars, tableVars, opVars
<1>9. CASE ReadIntoMemory /\ UNCHANGED bpc
  <2>1. FewPages' /\ BootContents'
    BY <1>9, TransferKeeps
  <2>2. BootProgress'
    BY <1>9 DEF ReadIntoMemory, BootInv, BootProgress
  <2> QED
    BY <1>1, <2>1, <2>2 DEF BootInv
<1>10. CASE Return /\ UNCHANGED bpc
  <2>1. FewPages' /\ BootContents'
    BY <1>10, RequestKeeps, BootRanges DEF Return, BootPages
  <2>2. BootProgress'
    BY <1>10 DEF Return, BootInv, BootProgress
  <2> QED
    BY <1>1, <2>1, <2>2 DEF BootInv
<1>11. CASE UNCHANGED bootVars
  <2>1. View' = View
    BY <1>11, QuietKeepsView DEF bootVars, diskVars
  <2> QED
    BY <1>1, <1>11, <2>1
    DEF BootInv, FewPages, BootContents, BootProgress, BootByte, bootVars,
        diskVars, vars, tableVars, opVars
<1> QED
  BY <1>2, <1>3, <1>4, <1>5, <1>6, <1>7, <1>8, <1>9, <1>10, <1>11
  DEF BootNext, Routine

LEMMA BootInvariance ==
  ASSUME BootAssumption
  PROVE  BootSpec => []BootInv
<1>1. BootInit => BootInv
  BY InitBootInv
<1>2. BootInv /\ [BootNext]_bootVars => BootInv'
  BY BootInductive
<1> QED
  BY <1>1, <1>2, PTL DEF BootSpec

-----------------------------------------------------------------------------
(* What the ROM jumps to is the boot sector of disk 0, although the first  *)
(* transfer puts it into the page of another address; unless page 0 of the *)
(* swap area has the magic bytes of a boot sector itself: then it may be   *)
(* what that page holds.  Of the disk nothing else is assumed.             *)
THEOREM JumpIsIntoBootSector ==
  ASSUME BootAssumption
  PROVE  BootSpec => []JumpsIntoBootSector
<1>1. BootInv => JumpsIntoBootSector
  BY DEF BootInv, BootContents, BootProgress, BootByte, JumpsIntoBootSector,
         SwapIsBootable
<1> QED
  BY <1>1, BootInvariance, PTL

(* From the jump on page 0 is in a frame that is never flushed: this is    *)
(* what MachineIsFlat asks of the buffers of the file system.              *)
THEOREM BootPinsPageZero ==
  ASSUME BootAssumption
  PROVE  BootSpec => []PinnedAtJump
<1>1. BootInv => PinnedAtJump
  <2> SUFFICES ASSUME BootInv, bpc = "jumped"
               PROVE  Pinned(BootPage)
    BY DEF PinnedAtJump
  <2>1. pc = "idle" /\ Mapped = resident
    BY DEF BootInv, BootProgress, Mapped
  <2>2. BootPage \in resident
    BY DEF BootInv, BootProgress
  <2>3. at[BootPage] \in used
    BY <2>1, <2>2, BootRanges
    DEF BootInv, DInv, RInv, IInv, TablesAgree, TypeOK, BootPages
  <2>4. at[BootPage] \in {0, 1, 2}
    <3>1. at[BootPage] \in 0 .. 2
      BY <2>3 DEF BootInv, FewPages
    <3> QED
      BY <3>1
  <2> QED
    BY <2>1, <2>2, <2>4, BootRanges DEF Pinned
<1> QED
  BY <1>1, BootInvariance, PTL
=============================================================================
