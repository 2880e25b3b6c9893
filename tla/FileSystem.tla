----------------------------- MODULE FileSystem -----------------------------
(***************************************************************************)
(* RYFS, the file system in the ROM (smolrom/RYFS.okm): one directory      *)
(* sector, a bitmap of used sectors, and files that are rows of linked     *)
(* sectors of `Payload' bytes (506 in the code).  An operation writes      *)
(* several sectors one after the other; each action writes one, so that    *)
(* every state is one in which the power may fail.  RYFS runs to its end   *)
(* without yielding, so there is one operation at a time.                  *)
(*                                                                         *)
(* A byte is the file and the offset it was written for, which tells apart *)
(* everything that could end in a wrong place.  `text' is what each file   *)
(* should hold and `held' whose struct the client has; the code has        *)
(* neither.                                                                *)
(***************************************************************************)
EXTENDS Integers, Sequences, FiniteSets, FiniteSetsExt

CONSTANTS Name,         \* file names
          None,         \* no file
          Sectors,      \* bits of the bitmap
          System,       \* boot sector, directory and bitmap are 0..System-1
          Entries,      \* entries of the directory, 31 in the code
          Payload,      \* bytes of a file in a sector
          Lengths,      \* lengths with which files are created
          Pieces,       \* lengths of writes
          MaxLength,    \* bound on the length of a file
          Careful       \* clients stay within what RYFS is able to do

ASSUME FileSystemAssumption ==
  /\ Sectors \in Nat /\ System \in Nat /\ 0 < System /\ System <= Sectors
  /\ Entries \in Nat \ {0, 1} /\ Payload \in Nat \ {0}
  /\ None \notin Name \cup Seq((Name \cup {None}) \X Nat)
  /\ Careful \in BOOLEAN
  /\ Lengths \subseteq Nat /\ Pieces \subseteq Nat \ {0} /\ MaxLength \in Nat

VARIABLES directory,    \* [name, first, count] of each entry
          used,         \* the bits of the bitmap that are set
          disk,         \* [next, size, bytes] of each sector
          file,         \* the client's struct: firstSector and seekOffset
          pc, job,      \* where in RYFS.okm, and the local variables there
          text, held

store == <<directory, used, disk>>
vars  == <<directory, used, disk, file, pc, job, text, held>>

Sector  == 0 .. Sectors - 1
Entry   == 1 .. Entries
Blank   == <<None, 0>>
Zeros   == [o \in 0 .. Payload - 1 |-> Blank]
Cleared == [next |-> 0, size |-> 0, bytes |-> Zeros]
SystemSector == [Cleared EXCEPT !.bytes = [o \in 0 .. Payload - 1 |-> <<None, 1>>]]
NoEntry == [name |-> None, first |-> 0, count |-> 0]
NoFile  == [first |-> 0, seek |-> 0]
NoJob   == [name |-> None, length |-> 0, sector |-> 0, left |-> 0, data |-> <<>>]

-----------------------------------------------------------------------------
(* Searches and traversals.  Zero is "none", as in the code.               *)

Lowest(S) == IF S = {} THEN 0 ELSE Min(S)

SectorsFor(n) == (n + Payload - 1) \div Payload
FreeSector    == Lowest(Sector \ used)
FreeEntry     == Lowest({e \in 1 .. Entries - 1 : directory[e].first = 0})
EntryOf(n)    == Lowest({e \in Entry : directory[e].name = n})
EntryAt(s)    == Lowest({e \in Entry : directory[e].first = s})

Hop(s, k) == LET hop[i \in 0 .. k] == IF i = 0 THEN s ELSE disk[hop[i - 1]].next
             IN  hop[k]
Links(s)  == {k \in 1 .. Sectors : Hop(s, k) = 0}
Size(s)   == LET k == Min(Links(s)) IN Payload * (k - 1) + disk[Hop(s, k - 1)].size

(* What ryfs_read puts at an offset of the destination.                    *)
ReadAt(s, o) == disk[Hop(s, o \div Payload)].bytes[o % Payload]

(* The sector reached by reading n of them, and how many of them lead to   *)
(* the seek offset when `n' is what ryfs_ceil says.                        *)
LastOf(n)  == Hop(file.first, IF n = 0 THEN 0 ELSE n - 1)
ReachedUnaligned(n) == n
Reached(n) == IF file.seek > 0 /\ file.seek % Payload = 0 THEN n + 1 ELSE n

-----------------------------------------------------------------------------
(* A disk that ryfs_format has prepared.  What the directory and the bitmap *)
(* sectors hold is in the first two variables.                             *)
Formatted ==
  /\ directory = [e \in Entry |-> NoEntry]
  /\ used = 0 .. System - 1
  /\ disk = [s \in Sector |-> IF s < System THEN SystemSector ELSE Cleared]

Init ==
  /\ Formatted
  /\ file = NoFile /\ pc = "idle" /\ job = NoJob
  /\ text = [n \in Name |-> None] /\ held = None

(* A file without bytes has a sector that is not marked.  The shell and    *)
(* TEd write the file they made before they turn to another.               *)
NoneLeftEmpty(n) == Careful => \A m \in Name \ {n} : text[m] # <<>>

(* When an operation ends without a file the client's struct is not used   *)
(* again.                                                                  *)
GoTo(place) ==
  /\ pc' = place
  /\ IF place = "idle" THEN file' = NoFile /\ held' = None
                       ELSE UNCHANGED <<file, held>>

(* Clients ask for no more sectors than there are, counting those of the   *)
(* file itself, which Create frees.                                        *)
RoomFor(n, length) ==
  LET own == IF EntryOf(n) = 0 THEN 0 ELSE directory[EntryOf(n)].count
  IN  Careful => SectorsFor(length) <= Cardinality(Sector \ used) + own

Open(n) ==
  LET e == EntryOf(n) IN
  /\ pc = "idle" /\ NoneLeftEmpty(n)
  /\ file' = IF e = 0 THEN [file EXCEPT !.seek = 0]
                      ELSE [first |-> directory[e].first, seek |-> 0]
  /\ held' = IF e = 0 THEN held ELSE n
  /\ UNCHANGED <<store, pc, job, text>>

Seek(o) ==
  /\ pc = "idle" /\ held # None /\ o <= Len(text[held])
  /\ file' = [file EXCEPT !.seek = o]
  /\ UNCHANGED <<store, pc, job, text, held>>

Read(k) == Seek(file.seek + k)

-----------------------------------------------------------------------------
(* Deleting: the entry, then for each sector its bit and its contents.     *)

Delete(n) ==
  /\ pc = "idle" /\ NoneLeftEmpty(n) /\ EntryOf(n) # 0
  /\ file' = [first |-> directory[EntryOf(n)].first, seek |-> 0]
  /\ held' = n /\ text' = [text EXCEPT ![n] = None]
  /\ pc' = "delete" /\ job' = NoJob
  /\ UNCHANGED store

AfterDelete == IF job.name = None THEN "idle" ELSE "create"

ClearEntry ==
  LET e == EntryAt(file.first) IN
  /\ pc = "delete" /\ e # 0
  /\ directory' = [directory EXCEPT ![e] = NoEntry]
  /\ job' = [job EXCEPT !.sector = file.first, !.left = directory[e].count]
  /\ GoTo(IF directory[e].count = 0 THEN AfterDelete ELSE "free")
  /\ UNCHANGED <<used, disk, text>>

MarkFree ==
  /\ pc = "free" /\ pc' = "clear"
  /\ used' = used \ {job.sector}
  /\ UNCHANGED <<directory, disk, file, job, text, held>>

ClearThenFollow ==
  /\ pc = "clear"
  /\ disk' = [disk EXCEPT ![job.sector] = Cleared]
  /\ job' = [job EXCEPT !.sector = disk'[job.sector].next, !.left = @ - 1]
  /\ GoTo(IF job.left = 1 THEN AfterDelete ELSE "free")
  /\ UNCHANGED <<directory, used, text>>

ClearFollowing ==
  /\ pc = "clear"
  /\ disk' = [disk EXCEPT ![disk[job.sector].next] = Cleared]
  /\ job' = [job EXCEPT !.sector = disk[job.sector].next, !.left = @ - 1]
  /\ GoTo(IF job.left = 1 THEN AfterDelete ELSE "free")
  /\ UNCHANGED <<directory, used, text>>

ClearSector ==
  /\ pc = "clear"
  /\ disk' = [disk EXCEPT ![job.sector] = Cleared]
  /\ job' = [job EXCEPT !.sector = disk[job.sector].next, !.left = @ - 1]
  /\ GoTo(IF job.left = 1 THEN AfterDelete ELSE "free")
  /\ UNCHANGED <<directory, used, text>>

-----------------------------------------------------------------------------
(* Creating: the file of that name is deleted, then the entry is written,  *)
(* then for each sector its bit and its contents.                          *)

Create(n, length) ==
  LET e == EntryOf(n) IN
  /\ pc = "idle" /\ NoneLeftEmpty(n) /\ RoomFor(n, length)
  /\ file' = [first |-> IF e = 0 THEN file.first ELSE directory[e].first, seek |-> 0]
  /\ held' = n /\ text' = [text EXCEPT ![n] = None]
  /\ pc' = IF e = 0 THEN "create" ELSE "delete"
  /\ job' = [NoJob EXCEPT !.name = n, !.length = length]
  /\ UNCHANGED store

WriteEntry ==
  LET count == SectorsFor(job.length) IN
  /\ pc = "create" /\ FreeEntry # 0 /\ FreeSector # 0
  /\ directory' = [directory EXCEPT ![FreeEntry] =
                     [name |-> job.name, first |-> FreeSector, count |-> count]]
  /\ job' = [job EXCEPT !.left = count]
  /\ pc' = IF count = 0 THEN "open" ELSE "take"
  /\ UNCHANGED <<used, disk, file, text, held>>

CreateFails ==
  /\ pc = "create" /\ (FreeEntry = 0 \/ FreeSector = 0)
  /\ job' = NoJob /\ GoTo("idle")
  /\ UNCHANGED <<store, text>>

Take ==
  /\ pc = "take" /\ pc' = "header"
  /\ used' = used \cup {FreeSector}
  /\ job' = [job EXCEPT !.sector = FreeSector]
  /\ UNCHANGED <<directory, disk, file, text, held>>

WriteHeader ==
  /\ pc = "header"
  /\ disk' = [disk EXCEPT ![job.sector] =
                IF job.left = 1
                  THEN [next |-> 0, size |-> job.length % Payload, bytes |-> Zeros]
                  ELSE [next |-> FreeSector, size |-> 0, bytes |-> Zeros]]
  /\ job' = [job EXCEPT !.left = @ - 1]
  /\ pc' = IF job.left = 1 THEN "open" ELSE "take"
  /\ UNCHANGED <<directory, used, file, text, held>>

Reopen ==
  /\ pc = "open" /\ pc' = "idle"
  /\ file' = [first |-> directory[EntryOf(job.name)].first, seek |-> 0]
  /\ text' = [text EXCEPT ![job.name] = [o \in 1 .. job.length |-> Blank]]
  /\ job' = NoJob
  /\ UNCHANGED <<store, held>>

-----------------------------------------------------------------------------
(* Writing, one sector's part of the source after the other; a part that   *)
(* ends behind the end of the file first makes the file longer.            *)

(* Appending always works.  A write that begins inside the file works when *)
(* the last sector is not full, since ryfs_get_size takes a full one for   *)
(* an empty one, and when it does not run over the end in the middle of a  *)
(* sector.                                                                 *)
WellPlaced(from, k, length) ==
  \/ from = length
  \/ length % Payload # 0 /\ (k = 1 \/ from + k <= length)

Write(k) ==
  /\ pc = "idle" /\ held # None /\ file.seek + k <= MaxLength
  /\ RoomFor(held, file.seek + k)
  /\ Careful => WellPlaced(file.seek, k, Len(text[held]))
  /\ job' = [NoJob EXCEPT !.sector = LastOf(Reached(SectorsFor(file.seek))),
                          !.data = [i \in 1 .. k |-> <<held, file.seek + i>>]]
  /\ pc' = "write"
  /\ UNCHANGED <<store, file, text, held>>

Part   == Min({Payload - (file.seek % Payload), Len(job.data)})
EndOf  == file.seek + Part
Grows  == EndOf > Size(file.first)
Spills == SectorsFor(EndOf) # SectorsFor(Size(file.first))
LastSector == LastOf(Reached(SectorsFor(Size(file.first))))

(* The last sector has room: only its size is written.                     *)

Extend ==
  /\ pc = "write" /\ Grows /\ ~Spills /\ pc' = "put"
  /\ disk' = [disk EXCEPT ![LastSector].size = EndOf % Payload]
  /\ job' = [job EXCEPT !.sector = LastSector]
  /\ UNCHANGED <<directory, used, file, text, held>>

(* It has none: the directory, the last sector, the bitmap and the new     *)
(* sector are written, in this order.                                      *)
CountSector ==
  /\ pc = "write" /\ Grows /\ Spills /\ pc' = "link"
  /\ directory' = [e \in Entry |->
                     IF directory[e].first = file.first
                       THEN [directory[e] EXCEPT !.count = @ + 1] ELSE directory[e]]
  /\ UNCHANGED <<used, disk, file, job, text, held>>

Link ==
  /\ pc = "link" /\ pc' = "mark"
  /\ disk' = [disk EXCEPT ![LastSector].next = FreeSector, ![LastSector].size = 0]
  /\ job' = [job EXCEPT !.sector = FreeSector]
  /\ UNCHANGED <<directory, used, file, text, held>>

MarkNew ==
  /\ pc = "mark" /\ pc' = "fresh"
  /\ used' = used \cup {job.sector}
  /\ UNCHANGED <<directory, disk, file, job, text, held>>

BlankNew ==
  /\ pc = "fresh" /\ pc' = "put"
  /\ disk' = [disk EXCEPT ![job.sector] =
                [next |-> 0, size |-> EndOf % Payload, bytes |-> Zeros]]
  /\ UNCHANGED <<directory, used, file, job, text, held>>

Overwritten(old, from, data) ==
  [i \in 1 .. Max({Len(old), from + Len(data)}) |->
     IF i > from /\ i <= from + Len(data) THEN data[i - from] ELSE old[i]]

Put ==
  LET from == file.seek % Payload
      now  == SubSeq(job.data, 1, Part)
      rest == SubSeq(job.data, Part + 1, Len(job.data))
  IN
  /\ pc = "put" \/ (pc = "write" /\ ~Grows)
  /\ disk' = [disk EXCEPT ![job.sector].bytes =
                [o \in 0 .. Payload - 1 |->
                   IF o >= from /\ o < from + Part THEN now[o - from + 1] ELSE @[o]]]
  /\ file' = [file EXCEPT !.seek = @ + Part]
  /\ text' = [text EXCEPT ![held] = Overwritten(@, file.seek, now)]
  /\ job' = IF rest = <<>> THEN NoJob
            ELSE [job EXCEPT !.sector = disk[job.sector].next, !.data = rest]
  /\ pc' = IF rest = <<>> THEN "idle" ELSE "write"
  /\ UNCHANGED <<directory, used, held>>

-----------------------------------------------------------------------------
Request ==
  \/ \E n \in Name : Open(n) \/ Delete(n) \/ \E length \in Lengths : Create(n, length)
  \/ \E o \in 0 .. MaxLength : Seek(o)
  \/ \E k \in Pieces : Read(k) \/ Write(k)

Step ==
  \/ ClearEntry \/ MarkFree \/ ClearSector
  \/ WriteEntry \/ CreateFails \/ Take \/ WriteHeader \/ Reopen
  \/ Extend \/ CountSector \/ Link \/ MarkNew \/ BlankNew \/ Put

Next == Request \/ Step

Spec == Init /\ [][Next]_vars

-----------------------------------------------------------------------------

(* What is on the disk under a name is what should be: there is an entry,  *)
(* its links end (ryfs_get_size follows them without counting), ryfs_read  *)
(* returns the text, and ryfs_get_size its length unless the last sector   *)
(* is full, whose size field is zero.                                      *)
Stored(n) ==
  LET s == directory[EntryOf(n)].first IN
  /\ EntryOf(n) # 0 /\ Links(s) # {}
  /\ \A o \in 1 .. Len(text[n]) : ReadAt(s, o - 1) = text[n][o]
  /\ Len(text[n]) % Payload # 0 => Size(s) = Len(text[n])

InUse(n) == pc # "idle" /\ n = held

(* Wherever an operation on one file stands, and so wherever it may be     *)
(* lost with the power, all other files are on the disk and read as what   *)
(* was written to them last; between operations all files are.             *)
FilesKept == \A n \in Name :
  ~InUse(n) => IF text[n] = None THEN EntryOf(n) = 0 ELSE Stored(n)

(* Between operations the directory, the links and the bitmap say the same: *)
(* a file has as many sectors as its entry counts, no sector belongs to    *)
(* two files, and exactly the sectors of files and of the system are       *)
(* marked.  A sector lost here would never be found again: RYFS has no     *)
(* program that repairs a disk.                                            *)
Chain(e) == {Hop(directory[e].first, k) : k \in 0 .. directory[e].count - 1}

StructureAgrees == pc = "idle" =>
  /\ \A e \in Entry : Cardinality(Chain(e)) = directory[e].count
  /\ \A e, f \in Entry : e # f => Chain(e) \cap Chain(f) = {}
  /\ used = 0 .. System - 1 \cup UNION {Chain(e) : e \in Entry}

(* No file is ever written into the boot sector, the directory or the      *)
(* bitmap.                                                                 *)
SystemKept == [][\A s \in 0 .. System - 1 : disk'[s] = disk[s]]_vars
=============================================================================
