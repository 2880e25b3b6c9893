-------------------------- MODULE FileSystem_proofs --------------------------
(***************************************************************************)
(* RYFS keeps the sectors of the system and all files but the one it works *)
(* on, wherever the power fails, for every number of names, sectors and    *)
(* entries, every size of a sector and every sequence of calls of careful  *)
(* clients.                                                                *)
(*                                                                         *)
(* The links and the bitmap are awkward to reason about while they change. *)
(* The invariant names what they should say instead: row[n] are the        *)
(* sectors of the file n in their order, and own[n] is the set of those    *)
(* that are marked for it.                                                 *)
(***************************************************************************)
EXTENDS FileSystem, FiniteSetTheorems, SequenceTheorems, TLAPS

FileSector == System .. Sectors - 1
Byte       == (Name \cup {None}) \X Nat
Content    == [next : Sector, size : Nat, bytes : [0 .. Payload - 1 -> Byte]]
Row        == [Nat -> Sector]

TypeInv ==
  /\ directory \in [Entry -> [name : Name \cup {None}, first : Sector, count : Nat]]
  /\ used \subseteq Sector
  /\ disk \in [Sector -> Content]
  /\ file \in [first : Sector, seek : Nat]
  /\ pc \in {"idle", "delete", "free", "clear", "create", "take", "header", "open",
             "write", "link", "mark", "fresh", "put"}
  /\ job \in [name : Name \cup {None}, length : Nat, sector : Sector, left : Nat,
              data : Seq(Byte)]
  /\ text \in [Name -> {None} \cup Seq(Byte)]
  /\ held \in Name \cup {None}

(* An entry without a name is blank; a name has one entry.                 *)
DirectoryInv ==
  /\ \A e \in Entry : IF directory[e].name = None THEN directory[e] = NoEntry
                      ELSE directory[e].first \in FileSector
  /\ \A d, e \in Entry : directory[d].name = directory[e].name =>
                           d = e \/ directory[d].name = None

(* A sector that is not marked is clear, except the one in work.           *)
CleanInv == \A s \in Sector \ used :
  disk[s] = Cleared \/ (pc \in {"clear", "mark"} /\ s = job.sector)

(* The marked sectors are those of the system and the files, and belong to *)
(* one of them.                                                            *)
Marked(own) ==
  /\ used = (0 .. System - 1) \cup UNION {own[n] : n \in Name}
  /\ \A m, n \in Name : m # n => own[m] \cap own[n] = {}

Entered(n, s, c) ==
  \E e \in Entry : directory[e] = [name |-> n, first |-> s, count |-> c]
Nowhere(n) == \A e \in Entry : directory[e].name # n

(* The first k sectors of f are distinct, and each leads to the next.      *)
Taken(f, k) == {f[i] : i \in 0 .. k - 1}
Linked(f, k) ==
  /\ \A i \in 0 .. k - 1 : f[i] \in FileSector
  /\ \A i, j \in 0 .. k - 1 : f[i] = f[j] => i = j
  /\ \A i \in 0 .. k - 2 : disk[f[i]].next = f[i + 1]
Ends(f, k, size) == k > 0 => disk[f[k - 1]].next = 0 /\ disk[f[k - 1]].size = size

Reads(f, t) == \A o \in 0 .. Len(t) - 1 :
                 disk[f[o \div Payload]].bytes[o % Payload] = t[o + 1]
Blanks(f, k) == \A i \in 0 .. k - 1 : disk[f[i]].bytes = Zeros

(* The sector that the next search of the bitmap finds.                    *)
Spare(s) == s = FreeSector /\ s # 0

(* The file n as it is when nothing works on it: f are its sectors, S the  *)
(* marked ones, `length' its bytes and c what its entry counts.            *)
Complete(n, f, S, length, c) ==
  /\ Entered(n, f[0], c)
  /\ S = Taken(f, SectorsFor(length))
  /\ Linked(f, SectorsFor(length))
  /\ Ends(f, SectorsFor(length), length % Payload)
  /\ length = 0 => Spare(f[0])

Whole(n, f, S) ==
  IF text[n] = None THEN S = {} /\ Nowhere(n)
  ELSE /\ Complete(n, f, S, Len(text[n]), SectorsFor(Len(text[n])))
       /\ Reads(f, text[n])

-----------------------------------------------------------------------------
(* The file that is worked on, at each place of RYFS.okm.                  *)
AtIdle(f) ==
  /\ text[held] # None
  /\ file.first = f[0] /\ file.seek <= Len(text[held])

(* Deleting, and creating over an old file.                                *)
AtDelete(f, S) ==
  /\ text[held] = None /\ job.name \in {None, held}
  /\ file.first = f[0]
  /\ \E c \in Nat : /\ Entered(held, f[0], c) /\ S = Taken(f, c) /\ Linked(f, c)
                    /\ c = 0 => Spare(f[0])
AtFree(f, S) ==
  /\ text[held] = None /\ job.name \in {None, held} /\ Nowhere(held)
  /\ job.left > 0 /\ job.sector = f[0]
  /\ Linked(f, job.left) /\ S = Taken(f, job.left)
AtClear(f, S) ==
  /\ text[held] = None /\ job.name \in {None, held} /\ Nowhere(held)
  /\ job.left > 0 /\ job.sector = f[0] /\ f[0] \notin used
  /\ Linked(f, job.left) /\ S = Taken(f, job.left) \ {f[0]}

(* Creating: t sectors are finished.                                       *)
AtCreate(S) ==
  /\ text[held] = None /\ job.name = held /\ Nowhere(held)
  /\ S = {}
Making(f, t) ==
  /\ text[held] = None /\ job.name = held
  /\ t \in Nat /\ job.left = SectorsFor(job.length) - t /\ job.left > 0
  /\ Entered(held, f[0], SectorsFor(job.length))
  /\ Linked(f, t + 1) /\ Blanks(f, t)
AtTake(f, S)   == \E t \in Nat : Making(f, t) /\ S = Taken(f, t) /\ Spare(f[t])
AtHeader(f, S) == \E t \in Nat : Making(f, t) /\ S = Taken(f, t + 1) /\ job.sector = f[t]
AtOpen(f, S) ==
  /\ text[held] = None /\ job.name = held
  /\ Complete(held, f, S, job.length, SectorsFor(job.length))
  /\ Blanks(f, SectorsFor(job.length))

(* Writing; a write that grows the file is at its end.                     *)
Source(f) ==
  /\ text[held] # None
  /\ file.first = f[0] /\ job.data # <<>>
  /\ Reads(f, text[held])
Fits(f) ==
  LET L == Len(text[held]) IN
  /\ file.seek <= L
  /\ file.seek < L => /\ L % Payload # 0 /\ file.seek + Len(job.data) <= L
                      /\ job.sector = f[file.seek \div Payload]
AtWrite(f, S) ==
  /\ Source(f) /\ Fits(f)
  /\ Complete(held, f, S, Len(text[held]), SectorsFor(Len(text[held])))
Full ==
  /\ file.seek = Len(text[held])
  /\ file.seek % Payload = 0
AtLink(f, S) ==
  LET L == Len(text[held]) IN
  /\ Source(f) /\ Full
  /\ Complete(held, f, S, L, SectorsFor(L) + 1)
Growing(f, c) ==
  /\ Source(f) /\ Full
  /\ c = SectorsFor(Len(text[held]))
  /\ Entered(held, f[0], c + 1)
  /\ Linked(f, c + 1) /\ job.sector = f[c]
AtMark(f, S)  == \E c \in Nat : Growing(f, c) /\ S = Taken(f, c) /\ Spare(f[c])
AtFresh(f, S) == \E c \in Nat : Growing(f, c) /\ S = Taken(f, c + 1)
AtPut(f, S) ==
  /\ Source(f)
  /\ file.seek = Len(text[held])
  /\ Complete(held, f, S, EndOf, SectorsFor(EndOf))
  /\ job.sector = f[file.seek \div Payload]

HeldInv(f, S) ==
  /\ pc = "idle" => AtIdle(f)
  /\ pc = "delete" => AtDelete(f, S)
  /\ pc = "free" => AtFree(f, S)
  /\ pc = "clear" => AtClear(f, S)
  /\ pc = "create" => AtCreate(S)
  /\ pc = "take" => AtTake(f, S)
  /\ pc = "header" => AtHeader(f, S)
  /\ pc = "open" => AtOpen(f, S)
  /\ pc = "write" => AtWrite(f, S)
  /\ pc = "link" => AtLink(f, S)
  /\ pc = "mark" => AtMark(f, S)
  /\ pc = "fresh" => AtFresh(f, S)
  /\ pc = "put" => AtPut(f, S)

(* What the operation needs is there, counting what the file has.          *)
Available(S) == (Sector \ used) \cup S
RoomInv(S) ==
  /\ (pc \in {"create", "take", "header"} \/
        (pc \in {"delete", "free", "clear"} /\ job.name # None)) =>
       SectorsFor(job.length) <= Cardinality(Available(S))
  /\ pc \in {"write", "link", "mark", "fresh", "put"} =>
       SectorsFor(file.seek + Len(job.data)) <= Cardinality(Available(S))

Layout(row, own) ==
  /\ Marked(own)
  /\ \A n \in Name : ~InUse(n) => Whole(n, row[n], own[n])
  /\ \A n \in Name : text[n] = <<>> => n = held
  /\ held # None => HeldInv(row[held], own[held]) /\ RoomInv(own[held])
  /\ pc # "idle" => held # None

Rows == [Name -> Row]
Owns == [Name -> SUBSET FileSector]

IInv ==
  /\ TypeInv /\ DirectoryInv /\ CleanInv
  /\ \E row \in Rows, own \in Owns : Layout(row, own)

-----------------------------------------------------------------------------
LEMMA Constants ==
  /\ Sectors \in Nat /\ System \in Nat \ {0} /\ System <= Sectors
  /\ Entries \in Nat /\ Payload \in Nat \ {0}
  /\ None \notin Name /\ None \notin Seq(Byte)
  /\ FileSector \subseteq Sector /\ Sector \subseteq Nat /\ 0 \in Sector
  /\ \A s \in FileSector : s # 0 /\ s >= System
  /\ \A s \in Sector : s \in FileSector \/ s \in 0 .. System - 1
  /\ 0 .. System - 1 \subseteq Sector /\ 0 \in 0 .. System - 1
  /\ (0 .. System - 1) \cap FileSector = {}
BY FileSystemAssumption DEF FileSector, Sector, Byte

LEMMA PayloadType == Payload \in Nat /\ Payload > 0
BY FileSystemAssumption

LEMMA Division ==
  ASSUME NEW n \in Nat
  PROVE  /\ n \div Payload \in Nat /\ n % Payload \in 0 .. Payload - 1
         /\ n = Payload * (n \div Payload) + (n % Payload)
<1>1. n % Payload \in 0 .. Payload - 1
  BY PayloadType
<1>2. n = Payload * (n \div Payload) + (n % Payload)
  BY PayloadType
<1>3. n \div Payload \in Nat
  BY PayloadType
<1> QED
  BY <1>1, <1>2, <1>3

LEMMA DivisionIsUnique ==
  ASSUME NEW a \in Nat, NEW b \in 0 .. Payload - 1
  PROVE  (Payload * a + b) \div Payload = a /\ (Payload * a + b) % Payload = b
BY PayloadType

(* SectorsFor rounds up.                                                   *)
LEMMA Rounding ==
  ASSUME NEW n \in Nat
  PROVE  /\ SectorsFor(n) \in Nat
         /\ n % Payload = 0 => SectorsFor(n) = n \div Payload
         /\ n % Payload # 0 => SectorsFor(n) = n \div Payload + 1
         /\ SectorsFor(n) = 0 <=> n = 0
<1> DEFINE a == n \div Payload
           b == n % Payload
<1>1. /\ Payload \in Nat /\ Payload > 0 /\ a \in Nat /\ b \in 0 .. Payload - 1
      /\ n = Payload * a + b
  BY PayloadType, Division, Zenon
<1> HIDE DEF a, b
<1>2. CASE b = 0
  <2>1. n + Payload - 1 = Payload * a + (Payload - 1) /\ Payload - 1 \in 0 .. Payload - 1
    BY <1>1, <1>2
  <2>2. SectorsFor(n) = a
    BY <1>1, <2>1, DivisionIsUnique DEF SectorsFor
  <2>3. a = 0 <=> n = 0
    BY <1>1, <1>2
  <2> QED
    BY <1>1, <1>2, <2>2, <2>3 DEF a, b
<1>3. CASE b # 0
  <2>1. n + Payload - 1 = Payload * (a + 1) + (b - 1) /\ b - 1 \in 0 .. Payload - 1
    BY <1>1, <1>3
  <2>2. SectorsFor(n) = a + 1
    BY <1>1, <2>1, DivisionIsUnique DEF SectorsFor
  <2>3. n # 0
    <3>1. Payload * a \in Nat
      BY <1>1
    <3> QED
      BY <1>1, <1>3, <3>1
  <2> QED
    BY <1>1, <1>3, <2>2, <2>3 DEF a, b
<1> QED
  BY <1>2, <1>3

(* What lies in front of offset n lies in the sectors for n bytes.         *)
LEMMA OffsetInRow ==
  ASSUME NEW n \in Nat, NEW o \in Nat, o < n
  PROVE  o \div Payload < SectorsFor(n)
<1> DEFINE a == n \div Payload
           b == n % Payload
           c == o \div Payload
           d == o % Payload
<1>1. /\ Payload \in Nat /\ Payload > 0 /\ a \in Nat /\ b \in 0 .. Payload - 1
      /\ n = Payload * a + b
      /\ c \in Nat /\ d \in 0 .. Payload - 1
      /\ o = Payload * c + d
  BY PayloadType, Division, Zenon
<1>2. /\ b = 0 => SectorsFor(n) = a
      /\ b # 0 => SectorsFor(n) = a + 1
  BY Rounding
<1> HIDE DEF a, b, c, d
<1>3. c < a \/ c = a \/ a < c
  BY <1>1
<1>4. ~ (a < c)
  <2> SUFFICES ASSUME a < c
               PROVE  FALSE
    OBVIOUS
  <2>1. PICK k \in Nat : c = a + 1 + k
    BY <1>1
  <2>2. Payload * c = Payload * a + Payload + Payload * k
    BY <1>1, <2>1
  <2>3. Payload * k \in Nat
    BY <1>1
  <2> QED
    BY <1>1, <2>2, <2>3
<1>5. c = a => b # 0
  BY <1>1
<1>6. c < SectorsFor(n)
  BY <1>1, <1>2, <1>3, <1>4, <1>5
<1> QED
  BY <1>6 DEF c

-----------------------------------------------------------------------------
(* Induction over the numbers, about a set instead of a predicate.         *)
LEMMA LeastExists ==
  ASSUME NEW S \in SUBSET Nat, S # {}
  PROVE  \E n \in S : \A o \in S : n <= o
<1>1. PICK n \in S : \A o \in S : <<o, n>> \notin OpToRel(<, Nat)
  BY NatLessThanWellFounded, WFMin
<1>2. ASSUME NEW l \in Nat, NEW k \in Nat, l < k
      PROVE  <<l, k>> \in OpToRel(<, Nat)
  BY <1>2, Zenon DEF OpToRel
<1>3. \A o \in S : ~ (o < n)
  BY <1>1, <1>2, Zenon
<1> QED
  BY <1>3

LEMMA SetInduction ==
  ASSUME NEW S, 0 \in S, \A n \in Nat : n \in S => n + 1 \in S
  PROVE  Nat \subseteq S
<1> SUFFICES ASSUME Nat \ S # {}
             PROVE  FALSE
  OBVIOUS
<1>1. PICK n \in Nat \ S : \A o \in Nat \ S : n <= o
  <2>1. Nat \ S \in SUBSET Nat
    OBVIOUS
  <2> QED
    BY <2>1, LeastExists
<1>2. n - 1 \in Nat
  BY <1>1
<1>3. n - 1 \in S
  BY <1>1, <1>2
<1>4. (n - 1) + 1 \in S
  BY <1>2, <1>3
<1> QED
  BY <1>1, <1>4

LEMMA MinIsLeast ==
  ASSUME NEW S \in SUBSET Nat, S # {}
  PROVE  Min(S) \in S /\ \A o \in S : Min(S) <= o
<1>1. \E n \in S : \A o \in S : n <= o
  BY LeastExists
<1> QED
  BY <1>1, Zenon DEF Min

LEMMA MaxOfTwo ==
  ASSUME NEW a \in Nat, NEW b \in Nat
  PROVE  Max({a, b}) = IF a >= b THEN a ELSE b
<1> DEFINE m == IF a >= b THEN a ELSE b
<1>1. m \in {a, b} /\ \A o \in {a, b} : m >= o
  OBVIOUS
<1>2. Max({a, b}) \in {a, b} /\ \A o \in {a, b} : Max({a, b}) >= o
  <2> HIDE DEF m
  <2> QED
    BY <1>1, Zenon DEF Max
<1> QED
  BY <1>1, <1>2

LEMMA LowestFound ==
  ASSUME NEW S \in SUBSET Nat
  PROVE  IF S = {} THEN Lowest(S) = 0 ELSE Lowest(S) \in S
BY MinIsLeast DEF Lowest

(* A free sector is one of those for files.                                *)
LEMMA FreeSectorFound ==
  ASSUME TypeInv, 0 .. System - 1 \subseteq used
  PROVE  /\ FreeSector # 0 <=> Sector \ used # {}
         /\ FreeSector # 0 => FreeSector \in FileSector \ used
<1>1. Sector \ used \in SUBSET Nat /\ 0 \notin Sector \ used
  BY Constants
<1>2. IF Sector \ used = {} THEN FreeSector = 0 ELSE FreeSector \in Sector \ used
  BY <1>1, LowestFound DEF FreeSector
<1> QED
  BY <1>1, <1>2, Constants

(* A name that is entered is found at its one entry.                       *)
LEMMA EntryFound ==
  ASSUME TypeInv, DirectoryInv, NEW n \in Name
  PROVE  /\ Nowhere(n) => EntryOf(n) = 0
         /\ ~ Nowhere(n) => EntryOf(n) \in Entry /\ directory[EntryOf(n)].name = n
         /\ \A s, c : Entered(n, s, c) =>
              /\ EntryOf(n) \in Entry
              /\ directory[EntryOf(n)] = [name |-> n, first |-> s, count |-> c]
<1> DEFINE S == {e \in Entry : directory[e].name = n}
<1>1. S \in SUBSET Nat /\ (S = {} <=> Nowhere(n)) /\ EntryOf(n) = Lowest(S)
  BY DEF Entry, Nowhere, EntryOf
<1>2. IF S = {} THEN Lowest(S) = 0 ELSE Lowest(S) \in S
  <2> HIDE DEF S
  <2> QED
    BY <1>1, LowestFound
<1>3. ASSUME NEW s, NEW c, NEW e \in Entry,
             directory[e] = [name |-> n, first |-> s, count |-> c]
      PROVE  EntryOf(n) = e
  <2>1. e \in S /\ S # {}
    BY <1>3
  <2>2. EntryOf(n) \in S
    BY <1>1, <1>2, <2>1
  <2>3. directory[EntryOf(n)].name = directory[e].name /\ directory[e].name # None
    BY <1>3, <2>2, Constants
  <2> QED
    BY <2>2, <2>3 DEF DirectoryInv
<1> QED
  BY <1>1, <1>2, <1>3 DEF Entered

-----------------------------------------------------------------------------
(* Rows of sectors.                                                        *)

LEMMA RowIsShort ==
  ASSUME NEW f, NEW k \in Nat, Linked(f, k)
  PROVE  /\ k <= Sectors
         /\ IsFiniteSet(Taken(f, k)) /\ Cardinality(Taken(f, k)) = k
<1> DEFINE D == 0 .. k - 1
           g == [i \in D |-> f[i]]
           T == Taken(f, k)
<1>1. IsFiniteSet(D) /\ Cardinality(D) = k
  <2>1. 0 \in Int /\ k - 1 \in Int
    OBVIOUS
  <2> QED
    BY <2>1, FS_Interval
<1>2. g \in Surjection(D, T)
  BY DEF Surjection, Taken
<1>3. g \in Injection(D, T)
  BY DEF Injection, IsInjective, Linked, Taken
<1>4. IsFiniteSet(T) /\ Cardinality(T) = k
  <2> HIDE DEF g, D, T
  <2> QED
    BY <1>1, <1>2, <1>3, FS_Surjection
<1>5. k <= Sectors
  <2>1. IsFiniteSet(Sector) /\ Cardinality(Sector) = Sectors
    <3>1. 0 \in Int /\ Sectors - 1 \in Int
      BY Constants
    <3>2. /\ IsFiniteSet(0 .. Sectors - 1)
          /\ Cardinality(0 .. Sectors - 1) =
               IF 0 > Sectors - 1 THEN 0 ELSE (Sectors - 1) - 0 + 1
      BY <3>1, FS_Interval
    <3> QED
      BY <3>2, Constants DEF Sector
  <2>2. T \in SUBSET Sector
    BY Constants DEF Taken, Linked
  <2>3. Cardinality(T) <= Cardinality(Sector)
    <3> HIDE DEF T
    <3> QED
      BY <2>1, <2>2, FS_Subset
  <2> QED
    BY <1>4, <2>1, <2>3
<1> QED
  BY <1>4, <1>5

(* Following the links from the first sector of a row meets its sectors    *)
(* and then zero.                                                          *)
LEMMA HopAlongRow ==
  ASSUME NEW f, NEW n \in Nat, n > 0, Linked(f, n), NEW k \in 0 .. n,
         k = n => disk[f[n - 1]].next = 0
  PROVE  Hop(f[0], k) = IF k < n THEN f[k] ELSE 0
<1> DEFINE D == 0 .. k
           Walk(g) == [i \in D |-> IF i = 0 THEN f[0] ELSE disk[g[i - 1]].next]
           H == CHOOSE g : g = Walk(g)
           chain == [i \in D |-> IF i < n THEN f[i] ELSE 0]
<1>1. Hop(f[0], k) = H[k]
  BY DEF Hop
<1>2. chain = Walk(chain)
  <2>1. ASSUME NEW i \in D, i # 0
        PROVE  chain[i] = disk[chain[i - 1]].next
    <3>1. i - 1 \in D /\ i - 1 < n /\ chain[i - 1] = f[i - 1]
      BY <2>1
    <3>2. CASE i < n
      <4>1. i - 1 \in 0 .. n - 2 /\ (i - 1) + 1 = i
        BY <2>1, <3>2
      <4>2. disk[f[i - 1]].next = f[i]
        BY <4>1 DEF Linked
      <4> QED
        BY <3>1, <3>2, <4>2
    <3>3. CASE i = n /\ k = n
      BY <3>1, <3>3
    <3> QED
      BY <2>1, <3>2, <3>3
  <2>2. chain[0] = f[0]
    OBVIOUS
  <2> QED
    BY <2>1, <2>2
<1>3. H = Walk(H)
  <2>1. \E g : g = Walk(g)
    BY <1>2
  <2> QED
    BY <2>1, Zenon
<1>4. \A i \in D : H[i] = chain[i]
  <2> DEFINE S == {i \in Nat : i \in D => H[i] = chain[i]}
  <2> HIDE DEF H, chain
  <2>1. 0 \in S
    BY <1>2, <1>3
  <2>2. ASSUME NEW i \in Nat, i \in S
        PROVE  i + 1 \in S
    <3>1. CASE i + 1 \in D
      <4>1. i \in D /\ i + 1 # 0 /\ (i + 1) - 1 = i
        BY <3>1
      <4>2. H[i] = chain[i]
        BY <2>2, <4>1
      <4>3. H[i + 1] = disk[H[i]].next
        BY <1>3, <3>1, <4>1
      <4>4. chain[i + 1] = disk[chain[i]].next
        BY <1>2, <3>1, <4>1
      <4> QED
        BY <4>2, <4>3, <4>4
    <3> QED
      BY <3>1
  <2>3. Nat \subseteq S
    <3> HIDE DEF S
    <3> QED
      BY <2>1, <2>2, SetInduction
  <2> QED
    BY <2>3
<1> QED
  BY <1>1, <1>4

(* ryfs_get_size ends, and finds the last sector of a row.                 *)
LEMMA SizeOfRow ==
  ASSUME NEW f, NEW n \in Nat, n > 0, Linked(f, n), NEW z, Ends(f, n, z)
  PROVE  /\ Links(f[0]) # {}
         /\ Size(f[0]) = Payload * (n - 1) + z
<1>1. \A k \in 0 .. n : Hop(f[0], k) = IF k < n THEN f[k] ELSE 0
  BY HopAlongRow DEF Ends
<1>2. n \in 1 .. Sectors
  BY RowIsShort
<1>3. n \in Links(f[0])
  BY <1>1, <1>2 DEF Links
<1>4. \A k \in Links(f[0]) : n <= k
  <2> SUFFICES ASSUME NEW k \in 1 .. Sectors, k < n, Hop(f[0], k) = 0
               PROVE  FALSE
    BY DEF Links
  <2>1. k \in 0 .. n /\ k \in 0 .. n - 1
    OBVIOUS
  <2>2. f[k] = 0 /\ f[k] \in FileSector
    BY <1>1, <2>1 DEF Linked
  <2> QED
    BY <2>2, Constants
<1>5. Min(Links(f[0])) = n
  <2>1. Links(f[0]) \in SUBSET Nat
    BY Constants DEF Links
  <2>2. /\ Min(Links(f[0])) \in Links(f[0])
        /\ \A o \in Links(f[0]) : Min(Links(f[0])) <= o
    BY <1>3, <2>1, MinIsLeast
  <2>3. Min(Links(f[0])) \in Nat
    BY <2>1, <2>2
  <2> QED
    BY <1>3, <1>4, <2>2, <2>3
<1>6. Hop(f[0], n - 1) = f[n - 1]
  BY <1>1
<1> QED
  BY <1>3, <1>5, <1>6 DEF Size, Ends

(* A row whose sectors are not written is what it was.                     *)
LEMMA RowStays ==
  ASSUME NEW f, NEW k \in Nat, \A i \in 0 .. k - 1 : disk'[f[i]] = disk[f[i]]
  PROVE  /\ Linked(f, k) => Linked(f, k)'
         /\ \A z : Ends(f, k, z) => Ends(f, k, z)'
         /\ Blanks(f, k) => Blanks(f, k)'
<1>1. Linked(f, k) => Linked(f, k)'
  <2>1. \A i \in 0 .. k - 2 : i \in 0 .. k - 1
    OBVIOUS
  <2> QED
    BY <2>1 DEF Linked
<1>2. ASSUME NEW z PROVE Ends(f, k, z) => Ends(f, k, z)'
  <2>1. k > 0 => k - 1 \in 0 .. k - 1
    OBVIOUS
  <2> QED
    BY <2>1 DEF Ends
<1>3. Blanks(f, k) => Blanks(f, k)'
  BY DEF Blanks
<1> QED
  BY <1>1, <1>2, <1>3

LEMMA ReadsStay ==
  ASSUME NEW f, NEW t \in Seq(Byte), Reads(f, t),
         \A i \in 0 .. SectorsFor(Len(t)) - 1 :
           disk'[f[i]].bytes = disk[f[i]].bytes
  PROVE  Reads(f, t)'
<1> SUFFICES ASSUME NEW o \in 0 .. Len(t) - 1
             PROVE  disk'[f[o \div Payload]].bytes[o % Payload] = t[o + 1]
  BY DEF Reads
<1>1. Len(t) \in Nat /\ o \in Nat /\ o < Len(t)
  OBVIOUS
<1>2. o \div Payload \in 0 .. SectorsFor(Len(t)) - 1
  BY <1>1, Division, Rounding, OffsetInRow
<1> QED
  BY <1>2 DEF Reads

(* What is needed and not in the file is free.                             *)
LEMMA RoomMeansFree ==
  ASSUME TypeInv, 0 .. System - 1 \subseteq used,
         NEW f, NEW k \in Nat, Linked(f, k), NEW S, S = Taken(f, k),
         NEW n \in Nat, k < n, n <= Cardinality(Available(S))
  PROVE  FreeSector # 0 /\ FreeSector \in FileSector \ used
<1>1. FreeSector # 0
  <2> SUFFICES ASSUME Sector \ used = {}
               PROVE  FALSE
    BY FreeSectorFound
  <2>1. Available(S) = Taken(f, k)
    BY DEF Available
  <2> QED
    BY <2>1, RowIsShort
<1> QED
  BY <1>1, FreeSectorFound

-----------------------------------------------------------------------------
(* A step that works on one file only.                                     *)

SystemSame == \A s \in 0 .. System - 1 : disk'[s] = disk[s]

(* Nothing changes in the entries of other files than h.                   *)
EntriesStay(h) ==
  \A e \in Entry : \/ directory'[e] = directory[e]
                   \/ /\ directory[e].name \in {h, None}
                      /\ directory'[e].name \in {h, None}

LEMMA OtherStays ==
  ASSUME TypeInv, NEW h \in Name, NEW n \in Name \ {h}, NEW f, NEW S,
         Whole(n, f, S), text[n] # <<>>, text'[n] = text[n], EntriesStay(h),
         \A s \in S : disk'[s] = disk[s]
  PROVE  Whole(n, f, S)'
<1>1. n # None
  BY Constants
<1>2. \A s, c : Entered(n, s, c) => Entered(n, s, c)'
  BY <1>1 DEF Entered, EntriesStay
<1>3. Nowhere(n) => Nowhere(n)'
  BY <1>1 DEF Nowhere, EntriesStay
<1>4. CASE text[n] = None
  BY <1>3, <1>4 DEF Whole
<1>5. CASE text[n] # None
  <2>1. text[n] \in Seq(Byte)
    BY <1>5 DEF TypeInv
  <2>2. PICK L \in Nat : L = Len(text[n]) /\ L # 0
    BY <2>1
  <2>3. PICK c \in Nat : c = SectorsFor(L)
    BY Rounding
  <2>4. Complete(n, f, S, L, c) /\ Reads(f, text[n])
    BY <1>5, <2>2, <2>3 DEF Whole
  <2>5. \A i \in 0 .. c - 1 : disk'[f[i]] = disk[f[i]]
    BY <2>3, <2>4 DEF Complete, Taken
  <2>6. Linked(f, c)' /\ Ends(f, c, L % Payload)'
    <3>1. Linked(f, c) /\ Ends(f, c, L % Payload)
      BY <2>3, <2>4 DEF Complete
    <3>2. Linked(f, c)'
      BY <2>5, <3>1, RowStays
    <3>3. Ends(f, c, L % Payload)'
      BY <2>5, <3>1, RowStays
    <3> QED
      BY <3>2, <3>3
  <2>7. PICK t \in Seq(Byte) : t = text[n]
    BY <2>1
  <2>8. Reads(f, t)'
    BY <2>2, <2>3, <2>4, <2>5, <2>7, ReadsStay
  <2>9. Complete(n, f, S, L, c)'
    BY <1>2, <2>2, <2>3, <2>4, <2>6 DEF Complete, SectorsFor
  <2> QED
    BY <1>5, <2>2, <2>3, <2>7, <2>8, <2>9 DEF Whole, SectorsFor, Reads
<1> QED
  BY <1>4, <1>5

(* The row of h is now f, and S is marked for it.                          *)
LEMMA Installed ==
  ASSUME TypeInv, NEW row \in Rows, NEW own \in Owns, Layout(row, own),
         NEW h \in Name, NEW f \in Row, NEW S \in SUBSET FileSector,
         used' = (used \ own[h]) \cup S, S \cap (used \ own[h]) = {},
         \A s \in used \ own[h] : disk'[s] = disk[s],
         \A n \in Name \ {h} : ~ InUse(n) /\ text[n] # <<>> /\ text'[n] = text[n],
         EntriesStay(h),
         TypeInv', DirectoryInv', CleanInv',
         held' \in {h, None}, pc' # "idle" => held' = h,
         ~ InUse(h)' => Whole(h, f, S)',
         text'[h] = <<>> => held' = h,
         held' = h => HeldInv(f, S)' /\ RoomInv(S)'
  PROVE  IInv' /\ SystemSame
<1> DEFINE row2 == [row EXCEPT ![h] = f]
           own2 == [own EXCEPT ![h] = S]
<1>1. row2 \in Rows /\ own2 \in Owns
  BY DEF Rows, Owns
<1>2. row2[h] = f /\ own2[h] = S
  BY DEF Rows, Owns
<1>3. \A n \in Name \ {h} : row2[n] = row[n] /\ own2[n] = own[n]
  BY DEF Rows, Owns
<1>4. Marked(own)
  BY DEF Layout
<1>5. \A n \in Name \ {h} : own[n] \subseteq used \ own[h]
  BY <1>4 DEF Marked
<1>6. 0 .. System - 1 \subseteq used \ own[h]
  <2>1. own[h] \subseteq FileSector
    BY DEF Owns
  <2> QED
    BY <1>4, <2>1, Constants DEF Marked
<1>7. Marked(own2)'
  <2> HIDE DEF own2
  <2>1. used' = (0 .. System - 1) \cup UNION {own2[n] : n \in Name}
    <3>1. ASSUME NEW s \in used'
          PROVE  s \in (0 .. System - 1) \cup UNION {own2[n] : n \in Name}
      BY <1>2, <1>3, <1>4 DEF Marked
    <3>2. ASSUME NEW s \in (0 .. System - 1) \cup UNION {own2[n] : n \in Name}
          PROVE  s \in used'
      BY <1>2, <1>3, <1>5, <1>6
    <3> QED
      BY <3>1, <3>2
  <2>2. ASSUME NEW m \in Name, NEW n \in Name, m # n
        PROVE  own2[m] \cap own2[n] = {}
    BY <1>2, <1>3, <1>4, <1>5, <2>2 DEF Marked
  <2> QED
    BY <2>1, <2>2 DEF Marked
<1>8. ASSUME NEW n \in Name \ {h}
      PROVE  Whole(n, row2[n], own2[n])'
  <2> HIDE DEF row2, own2
  <2>1. Whole(n, row[n], own[n])
    BY DEF Layout
  <2>2. \A s \in own[n] : disk'[s] = disk[s]
    BY <1>5
  <2>3. Whole(n, row[n], own[n])'
    BY <2>1, <2>2, OtherStays
  <2> QED
    BY <1>3, <2>3
<1>9. Layout(row2, own2)'
  <2> HIDE DEF row2, own2
  <2>1. \A n \in Name : ~ InUse(n)' => Whole(n, row2[n], own2[n])'
    BY <1>2, <1>8
  <2>2. \A n \in Name : text'[n] = <<>> => n = held'
    OBVIOUS
  <2>3. (held # None => HeldInv(row2[held], own2[held]) /\ RoomInv(own2[held]))'
    BY <1>2
  <2> QED
    BY <1>7, <2>1, <2>2, <2>3, Constants DEF Layout
<1>10. SystemSame
  BY <1>6 DEF SystemSame
<1> HIDE DEF row2, own2
<1> QED
  BY <1>1, <1>9, <1>10 DEF IInv

-----------------------------------------------------------------------------
LEMMA InitIInv == Init => IInv
<1> SUFFICES ASSUME Init
             PROVE  IInv
  OBVIOUS
<1>1. Zeros \in [0 .. Payload - 1 -> Byte] /\ Cleared \in Content
  BY Constants DEF Zeros, Blank, Byte, Cleared, Content
<1>2. SystemSector \in Content
  <2>1. [o \in 0 .. Payload - 1 |-> <<None, 1>>] \in [0 .. Payload - 1 -> Byte]
    BY DEF Byte
  <2> QED
    BY <2>1, Constants DEF SystemSector, Cleared, Content
<1>3. TypeInv
  <2>1. NoJob \in [name : Name \cup {None}, length : Nat, sector : Sector, left : Nat,
                  data : Seq(Byte)]
    BY Constants DEF NoJob
  <2>2. disk \in [Sector -> Content]
    BY <1>1, <1>2 DEF Init, Formatted
  <2>3. file \in [first : Sector, seek : Nat]
    BY Constants DEF Init, NoFile
  <2>4. directory \in [Entry -> [name : Name \cup {None}, first : Sector, count : Nat]]
    BY Constants DEF Init, Formatted, NoEntry
  <2> QED
    BY <2>1, <2>2, <2>3, <2>4, Constants DEF TypeInv, Init, Formatted
<1>4. DirectoryInv
  BY DEF DirectoryInv, Init, Formatted, NoEntry
<1>5. CleanInv
  BY Constants DEF CleanInv, Init, Formatted, Sector
<1> DEFINE row == [n \in Name |-> [i \in Nat |-> 0]]
           own == [n \in Name |-> {}]
<1>6. row \in Rows /\ own \in Owns
  BY Constants DEF Rows, Row, Owns
<1>7. Marked(own)
  BY DEF Marked, Init, Formatted
<1>8. \A n \in Name : Whole(n, row[n], own[n]) /\ text[n] = None
  BY Constants DEF Whole, Nowhere, Init, Formatted, NoEntry
<1>9. None # <<>>
  BY Constants, EmptySeq
<1>10. Layout(row, own)
  BY <1>7, <1>8, <1>9 DEF Layout, Init
<1> QED
  BY <1>3, <1>4, <1>5, <1>6, <1>10 DEF IInv

-----------------------------------------------------------------------------
LEMMA Owned ==
  ASSUME NEW row \in Rows, NEW own \in Owns, Layout(row, own), NEW n \in Name
  PROVE  /\ row[n] \in Row /\ own[n] \in SUBSET FileSector /\ own[n] \subseteq used
         /\ 0 .. System - 1 \subseteq used
BY DEF Rows, Owns, Layout, Marked

LEMMA Working ==
  ASSUME TypeInv, NEW row, NEW own, Layout(row, own), pc # "idle"
  PROVE  /\ held \in Name
         /\ HeldInv(row[held], own[held]) /\ RoomInv(own[held])
         /\ \A n \in Name \ {held} : ~ InUse(n) /\ text[n] # <<>>
BY Constants DEF TypeInv, Layout, InUse

(* What a file that nothing works on looks like in the directory.          *)
LEMMA WholeEntered ==
  ASSUME TypeInv, DirectoryInv, NEW n \in Name, NEW f \in Row, NEW S, Whole(n, f, S)
  PROVE  /\ EntryOf(n) = 0 <=> text[n] = None
         /\ EntryOf(n) # 0 =>
              /\ EntryOf(n) \in Entry
              /\ directory[EntryOf(n)] =
                   [name |-> n, first |-> f[0], count |-> SectorsFor(Len(text[n]))]
<1>1. CASE text[n] = None
  BY <1>1, EntryFound DEF Whole
<1>2. CASE text[n] # None
  <2>1. Entered(n, f[0], SectorsFor(Len(text[n])))
    BY <1>2 DEF Whole, Complete
  <2>2. /\ EntryOf(n) \in Entry
        /\ directory[EntryOf(n)] =
             [name |-> n, first |-> f[0], count |-> SectorsFor(Len(text[n]))]
    BY <2>1, EntryFound
  <2>3. EntryOf(n) # 0
    BY <2>2 DEF Entry
  <2> QED
    BY <1>2, <2>2, <2>3
<1> QED
  BY <1>1, <1>2

LEMMA StoreSame ==
  ASSUME UNCHANGED store, NEW n, NEW f, NEW S, Whole(n, f, S), text'[n] = text[n]
  PROVE  Whole(n, f, S)'
BY DEF store, Whole, Complete, Entered, Nowhere, Taken, Linked, Ends, Reads, Spare,
       SectorsFor, FreeSector, Lowest

(* Clients ask for what there is.                                          *)
LEMMA RoomIsThere ==
  ASSUME Careful, TypeInv, DirectoryInv, NEW n \in Name, NEW f \in Row,
         NEW S \in SUBSET used, Whole(n, f, S), NEW length \in Nat, RoomFor(n, length)
  PROVE  SectorsFor(length) <= Cardinality(Available(S))
<1> DEFINE free == Sector \ used
           own == IF EntryOf(n) = 0 THEN 0 ELSE directory[EntryOf(n)].count
<1>1. IsFiniteSet(free) /\ Cardinality(free) \in Nat
  <2>1. 0 \in Int /\ Sectors - 1 \in Int
    BY Constants
  <2>2. IsFiniteSet(Sector)
    BY <2>1, FS_Interval DEF Sector
  <2>3. free \in SUBSET Sector
    OBVIOUS
  <2>4. IsFiniteSet(free)
    <3> HIDE DEF free
    <3> QED
      BY <2>2, <2>3, FS_Subset
  <2> QED
    BY <2>4, FS_CardinalityType
<1>2. IsFiniteSet(S) /\ Cardinality(S) = own
  <2>1. CASE text[n] = None
    BY <2>1, WholeEntered, FS_EmptySet DEF Whole
  <2>2. CASE text[n] # None
    <3>1. own = SectorsFor(Len(text[n]))
      <4>1. /\ EntryOf(n) # 0
            /\ directory[EntryOf(n)] =
                 [name |-> n, first |-> f[0], count |-> SectorsFor(Len(text[n]))]
        BY <2>2, WholeEntered
      <4> QED
        BY <4>1
    <3>2. PICK c \in Nat : c = SectorsFor(Len(text[n]))
      BY <2>2, Rounding DEF TypeInv
    <3>3. Linked(f, c) /\ S = Taken(f, c)
      BY <2>2, <3>2 DEF Whole, Complete
    <3> QED
      BY <3>1, <3>2, <3>3, RowIsShort
  <2> QED
    BY <2>1, <2>2
<1>3. Cardinality(Available(S)) = Cardinality(free) + own
  <2>1. free \cap S = {}
    OBVIOUS
  <2>2. Cardinality(free \cap S) = 0
    BY <2>1, FS_EmptySet
  <2>3. Cardinality(free \cup S) = Cardinality(free) + Cardinality(S) - Cardinality(free \cap S)
    <3> HIDE DEF free, own
    <3> QED
      BY <1>1, <1>2, FS_Union
  <2>4. own \in Nat
    BY <1>2, FS_CardinalityType
  <2> HIDE DEF own
  <2> QED
    BY <1>1, <1>2, <2>2, <2>3, <2>4 DEF Available
<1> QED
  BY <1>3 DEF RoomFor

(* Open, Seek and Read do not touch the disk.                              *)
LEMMA LookStep ==
  ASSUME Careful, TypeInv, DirectoryInv, CleanInv,
         NEW row \in Rows, NEW own \in Owns, Layout(row, own),
         \/ \E n \in Name : Open(n)
         \/ \E o \in Nat : Seek(o)
  PROVE  IInv' /\ SystemSame
<1>1. /\ UNCHANGED <<store, pc, job, text>> /\ pc = "idle"
      /\ directory' = directory /\ used' = used /\ disk' = disk
  BY DEF Open, Seek, store
<1>2. SystemSame
  BY <1>1 DEF SystemSame
<1>3. DirectoryInv' /\ CleanInv'
  BY <1>1 DEF DirectoryInv, CleanInv
<1>4. Marked(own)'
  BY <1>1 DEF Marked, Layout
<1>5. \A n \in Name : Whole(n, row[n], own[n])
  BY <1>1 DEF Layout, InUse
<1>6. \A n \in Name : Whole(n, row[n], own[n])'
  BY <1>1, <1>5, StoreSame
<1>7. /\ file' \in [first : Sector, seek : Nat]
      /\ held' \in Name \cup {None}
      /\ \A m \in Name : text[m] = <<>> => m = held'
      /\ held' # None => /\ text[held'] # None
                         /\ file'.first = row[held'][0]
                         /\ file'.seek <= Len(text[held'])
  <2>1. ASSUME NEW n \in Name, Open(n)
        PROVE  <1>7!:
    <3>1. row[n] \in Row
      BY Owned
    <3>2. CASE EntryOf(n) = 0
      <4>1. text[n] = None /\ None # <<>>
        <5>1. Whole(n, row[n], own[n])
          BY <1>5
        <5>2. text[n] = None
          BY <3>1, <3>2, <5>1, WholeEntered
        <5> QED
          BY <5>2, Constants, EmptySeq
      <4>2. held' = held /\ file' = [file EXCEPT !.seek = 0]
        BY <2>1, <3>2 DEF Open
      <4>3. file' \in [first : Sector, seek : Nat] /\ file'.first = file.first /\ file'.seek = 0
        BY <4>2 DEF TypeInv
      <4>4. held # None => /\ text[held] # None /\ file.first = row[held][0]
                           /\ 0 <= Len(text[held])
        <5>1. held # None => text[held] # None /\ file.first = row[held][0]
          BY <1>1 DEF Layout, HeldInv, AtIdle
        <5> QED
          BY <5>1 DEF TypeInv
      <4>5. \A m \in Name : text[m] # <<>>
        BY <2>1, <4>1 DEF Open, NoneLeftEmpty
      <4> QED
        BY <4>2, <4>3, <4>4, <4>5 DEF TypeInv
    <3>3. CASE EntryOf(n) # 0
      <4>1. /\ text[n] # None
            /\ directory[EntryOf(n)].first = row[n][0]
        <5>1. Whole(n, row[n], own[n])
          BY <1>5
        <5>2. /\ text[n] # None
              /\ directory[EntryOf(n)] =
                   [name |-> n, first |-> row[n][0], count |-> SectorsFor(Len(text[n]))]
          BY <3>1, <3>3, <5>1, WholeEntered
        <5> QED
          BY <5>2
      <4>2. held' = n /\ file' = [first |-> row[n][0], seek |-> 0]
        BY <2>1, <3>3, <4>1 DEF Open
      <4>3. \A m \in Name : text[m] = <<>> => m = n
        BY <2>1 DEF Open, NoneLeftEmpty
      <4>4. Len(text[n]) \in Nat /\ row[n][0] \in Sector
        BY <3>1, <4>1 DEF TypeInv, Row
      <4> QED
        BY <4>1, <4>2, <4>3, <4>4
    <3> QED
      BY <3>2, <3>3
  <2>2. ASSUME NEW o \in Nat, Seek(o)
        PROVE  <1>7!:
    <3>1. held' = held /\ held # None /\ o <= Len(text[held]) /\ file' = [file EXCEPT !.seek = o]
      BY <2>2 DEF Seek
    <3>2. text[held] # None /\ file.first = row[held][0]
      BY <1>1, <3>1 DEF Layout, HeldInv, AtIdle
    <3>3. file' \in [first : Sector, seek : Nat] /\ file'.first = file.first /\ file'.seek = o
      BY <3>1 DEF TypeInv
    <3> QED
      BY <3>1, <3>2, <3>3 DEF TypeInv, Layout
  <2> QED
    BY <2>1, <2>2
<1>8. TypeInv'
  BY <1>1, <1>7 DEF TypeInv
<1>9. (held # None => HeldInv(row[held], own[held]) /\ RoomInv(own[held]))'
  BY <1>1, <1>7 DEF HeldInv, AtIdle, RoomInv
<1>10. Layout(row, own)'
  BY <1>1, <1>4, <1>6, <1>7, <1>9 DEF Layout
<1> QED
  BY <1>2, <1>3, <1>8, <1>10 DEF IInv

(* Delete and Create leave the file without a text before anything else.   *)
LEMMA DiscardStep ==
  ASSUME Careful, TypeInv, DirectoryInv, CleanInv,
         NEW row \in Rows, NEW own \in Owns, Layout(row, own), NEW n \in Name,
         Delete(n) \/ \E length \in Lengths : Create(n, length)
  PROVE  IInv' /\ SystemSame
<1> DEFINE f == row[n]
           S == own[n]
           e == EntryOf(n)
<1>1. /\ pc = "idle" /\ held' = n /\ text' = [text EXCEPT ![n] = None]
      /\ directory' = directory /\ used' = used /\ disk' = disk
      /\ \A m \in Name \ {n} : text[m] # <<>>
  BY DEF Delete, Create, store, NoneLeftEmpty
<1>2. Whole(n, f, S)
  BY <1>1 DEF Layout, InUse
<1>3. f \in Row /\ S \in SUBSET FileSector /\ S \subseteq used
  BY Owned
<1> HIDE DEF f, S
<1>4. /\ e = 0 <=> text[n] = None
      /\ e # 0 => /\ e \in Entry
                 /\ directory[e] =
                      [name |-> n, first |-> f[0], count |-> SectorsFor(Len(text[n]))]
  BY <1>2, <1>3, WholeEntered
<1> HIDE DEF e
<1>5. f[0] \in Sector
  BY <1>3 DEF Row
<1>6. /\ pc' = IF e = 0 THEN "create" ELSE "delete"
      /\ file' = [first |-> IF e = 0 THEN file.first ELSE f[0], seek |-> 0]
      /\ job'.name \in {None, n} /\ (e = 0 => job'.name = n)
      /\ job' \in [name : Name \cup {None}, length : Nat, sector : Sector, left : Nat,
                  data : Seq(Byte)]
      /\ job'.name = n => SectorsFor(job'.length) <= Cardinality(Available(S))
  <2>1. CASE Delete(n)
    <3>1. e # 0 /\ directory[e].first = f[0]
      BY <1>4, <2>1 DEF Delete, e
    <3>2. job' = NoJob /\ pc' = "delete" /\ file' = [first |-> f[0], seek |-> 0]
      BY <2>1, <3>1 DEF Delete, e
    <3> QED
      BY <3>1, <3>2, Constants DEF NoJob
  <2>2. ASSUME NEW length \in Lengths, Create(n, length)
        PROVE  <1>6!:
    <3>1. length \in Nat
      BY FileSystemAssumption
    <3>2. /\ job' = [NoJob EXCEPT !.name = n, !.length = length]
          /\ pc' = IF e = 0 THEN "create" ELSE "delete"
          /\ file' = [first |-> IF e = 0 THEN file.first ELSE directory[e].first, seek |-> 0]
          /\ RoomFor(n, length)
      BY <2>2 DEF Create, e
    <3>3. SectorsFor(length) <= Cardinality(Available(S))
      BY <1>2, <1>3, <3>1, <3>2, RoomIsThere
    <3>4. job' = [name |-> n, length |-> length, sector |-> 0, left |-> 0, data |-> <<>>]
      BY <3>2 DEF NoJob
    <3>5. job' \in [name : Name \cup {None}, length : Nat, sector : Sector, left : Nat,
                   data : Seq(Byte)]
      BY <3>1, <3>4, Constants
    <3>6. job'.name = n /\ job'.length = length
      BY <3>4
    <3>7. file' = [first |-> IF e = 0 THEN file.first ELSE f[0], seek |-> 0]
      BY <1>4, <3>2
    <3> QED
      BY <3>2, <3>3, <3>5, <3>6, <3>7
  <2> QED
    BY <2>1, <2>2
<1>7. TypeInv'
  BY <1>1, <1>5, <1>6 DEF TypeInv
<1>8. DirectoryInv'
  BY <1>1 DEF DirectoryInv
<1>9. CleanInv'
  BY <1>1 DEF CleanInv
<1>10. text'[n] = None /\ None # <<>>
  <2>1. text'[n] = None
    BY <1>1 DEF TypeInv
  <2>2. None # <<>>
    BY Constants, EmptySeq
  <2> QED
    BY <2>1, <2>2
<1>11. HeldInv(f, S)'
  <2>1. CASE e = 0
    <3>1. S = {} /\ Nowhere(n)
      BY <1>2, <1>4, <2>1 DEF Whole
    <3>2. AtCreate(S)'
      BY <1>1, <1>6, <1>10, <2>1, <3>1 DEF AtCreate, Nowhere
    <3> QED
      BY <1>6, <2>1, <3>2 DEF HeldInv
  <2>2. CASE e # 0
    <3>1. PICK L \in Nat : L = Len(text[n])
      BY <1>4, <2>2 DEF TypeInv
    <3>2. PICK c \in Nat : c = SectorsFor(L) /\ (c = 0 <=> L = 0)
      BY Rounding
    <3>3. Complete(n, f, S, L, c)
      BY <1>2, <1>4, <2>2, <3>1, <3>2 DEF Whole
    <3>4. (Entered(n, f[0], c) /\ S = Taken(f, c) /\ Linked(f, c) /\ (c = 0 => Spare(f[0])))'
      BY <1>1, <3>2, <3>3
      DEF Complete, Entered, Taken, Linked, Spare, FreeSector, Lowest
    <3>5. AtDelete(f, S)'
      BY <1>1, <1>6, <1>10, <2>2, <3>4 DEF AtDelete
    <3> QED
      BY <1>6, <2>2, <3>5 DEF HeldInv
  <2> QED
    BY <2>1, <2>2
<1>12. RoomInv(S)'
  <2>1. pc' \in {"create", "delete"} /\ (pc' = "create" => job'.name = n)
    BY <1>6
  <2>2. job'.name # None => job'.name = n
    BY <1>6
  <2> QED
    BY <1>1, <1>6, <2>1, <2>2 DEF RoomInv, Available, SectorsFor
<1>13. EntriesStay(n) /\ \A m \in Name \ {n} : text'[m] = text[m]
  BY <1>1 DEF EntriesStay, TypeInv
<1>14. InUse(n)' /\ pc' # "idle"
  BY <1>1, <1>6 DEF InUse
<1>15. \A m \in Name \ {n} : ~ InUse(m)
  BY <1>1 DEF InUse
<1>16. S = own[n]
  BY DEF S
<1> QED
  BY <1>1, <1>3, <1>7, <1>8, <1>9, <1>10, <1>11, <1>12, <1>13, <1>14, <1>15, <1>16,
     Installed

-----------------------------------------------------------------------------
(* The arithmetic of ryfs_write and ryfs_get_size.                         *)

LEMMA PartFits ==
  ASSUME NEW n \in Nat, NEW p \in Nat, p > 0, p <= Payload - (n % Payload)
  PROVE  SectorsFor(n + p) = n \div Payload + 1
<1>1. PICK a \in Nat : a = n \div Payload
  BY Division
<1>2. PICK b \in 0 .. Payload - 1 : b = n % Payload
  BY Division
<1>3. n = Payload * a + b
  BY <1>1, <1>2, Division
<1>4. n + p + Payload - 1 = Payload * (a + 1) + (b + p - 1) /\ b + p - 1 \in 0 .. Payload - 1
  BY <1>2, <1>3, PayloadType
<1>5. SectorsFor(n + p) = a + 1
  BY <1>4, DivisionIsUnique DEF SectorsFor
<1> QED
  BY <1>1, <1>5

LEMMA PartType ==
  ASSUME TypeInv, job.data # <<>>
  PROVE  /\ Part \in Nat /\ Part > 0 /\ Part <= Len(job.data)
         /\ Part <= Payload - (file.seek % Payload)
         /\ Part = Len(job.data) \/ Part = Payload - (file.seek % Payload)
         /\ file.seek \in Nat /\ EndOf = file.seek + Part /\ Len(job.data) \in Nat
<1>1. PICK b \in 0 .. Payload - 1 : b = file.seek % Payload
  BY Division DEF TypeInv
<1>2. PICK k \in Nat \ {0} : k = Len(job.data)
  BY DEF TypeInv
<1>3. Payload - b \in Nat /\ Payload - b > 0
  BY <1>1, PayloadType
<1> DEFINE T == {Payload - b, k}
<1>4. T \in SUBSET Nat /\ T # {} /\ Part = Min(T)
  BY <1>1, <1>2, <1>3 DEF Part
<1>5. Part \in T /\ \A o \in T : Part <= o
  <2> HIDE DEF T
  <2> QED
    BY <1>4, MinIsLeast
<1> QED
  BY <1>1, <1>2, <1>3, <1>5 DEF EndOf, TypeInv

(* A file is a row of at least one sector; that of an empty one is not     *)
(* marked.                                                                 *)
RowLength(L) == IF L = 0 THEN 1 ELSE SectorsFor(L)

LEMMA RowOfFile ==
  ASSUME TypeInv, CleanInv, 0 .. System - 1 \subseteq used,
         NEW n, NEW f \in Row, NEW S, NEW L \in Nat, NEW c, Complete(n, f, S, L, c),
         L # 0 \/ pc \notin {"clear", "mark"}
  PROVE  /\ RowLength(L) \in Nat /\ RowLength(L) > 0
         /\ Linked(f, RowLength(L)) /\ Ends(f, RowLength(L), L % Payload)
<1>1. CASE L = 0
  <2>1. f[0] \in FileSector \ used /\ f[0] \in Sector
    BY <1>1, FreeSectorFound, Constants DEF Complete, Spare
  <2>2. disk[f[0]] = Cleared
    BY <1>1, <2>1 DEF CleanInv
  <2>3. disk[f[0]].next = 0 /\ disk[f[0]].size = 0
    BY <2>2 DEF Cleared
  <2>4. Linked(f, 1)
    BY <2>1 DEF Linked
  <2>5. L % Payload = 0
    BY <1>1, PayloadType
  <2>6. Ends(f, 1, L % Payload)
    BY <2>3, <2>5 DEF Ends
  <2> QED
    BY <1>1, <2>4, <2>6 DEF RowLength
<1>2. CASE L # 0
  BY <1>2, Rounding DEF Complete, RowLength
<1> QED
  BY <1>1, <1>2

(* ryfs_get_size is right unless the last sector is full.                  *)
LEMMA SizeOfFile ==
  ASSUME TypeInv, CleanInv, 0 .. System - 1 \subseteq used,
         NEW n, NEW f \in Row, NEW S, NEW L \in Nat, NEW c, Complete(n, f, S, L, c),
         L # 0 \/ pc \notin {"clear", "mark"}
  PROVE  /\ Size(f[0]) \in Nat /\ Size(f[0]) <= L
         /\ L % Payload # 0 => Size(f[0]) = L
         /\ L % Payload = 0 => SectorsFor(Size(f[0])) = RowLength(L) - 1
         /\ Links(f[0]) # {}
<1>1. PICK m \in Nat : m = RowLength(L) /\ m > 0 /\ Linked(f, m) /\ Ends(f, m, L % Payload)
  BY RowOfFile
<1>2. Links(f[0]) # {} /\ Size(f[0]) = Payload * (m - 1) + (L % Payload)
  BY <1>1, SizeOfRow
<1>3. PICK a \in Nat : a = L \div Payload
  BY Division
<1>4. PICK b \in 0 .. Payload - 1 : b = L % Payload
  BY Division
<1>5. L = Payload * a + b /\ Size(f[0]) = Payload * (m - 1) + b
  BY <1>2, <1>3, <1>4, Division
<1>6. CASE b # 0
  <2>1. L # 0
    BY <1>4, <1>6, PayloadType
  <2>2. m = a + 1
    BY <1>1, <1>3, <1>4, <1>6, <2>1, Rounding DEF RowLength
  <2>3. m - 1 = a
    BY <2>2
  <2> QED
    BY <1>2, <1>4, <1>5, <1>6, <2>3
<1>7. CASE b = 0
  <2>1. PICK d \in Nat : m = d + 1
    BY <1>1
  <2>2. Size(f[0]) = Payload * d + 0 /\ 0 \in 0 .. Payload - 1
    BY <1>5, <1>7, <2>1, PayloadType
  <2>3. Size(f[0]) \in Nat
    BY <2>2, PayloadType
  <2>4. Size(f[0]) \div Payload = d /\ Size(f[0]) % Payload = 0
    BY <2>2, DivisionIsUnique
  <2>5. SectorsFor(Size(f[0])) = d
    BY <2>3, <2>4, Rounding
  <2>6. Size(f[0]) <= L
    <3>1. CASE L = 0
      <4>1. d = 0
        BY <1>1, <2>1, <3>1 DEF RowLength
      <4> QED
        BY <2>2, <3>1, <4>1, PayloadType
    <3>2. CASE L # 0
      <4>1. a = d + 1
        BY <1>1, <1>3, <1>4, <1>7, <2>1, <3>2, Rounding DEF RowLength
      <4>2. L = Payload * d + Payload
        BY <1>5, <1>7, <4>1, PayloadType
      <4> QED
        BY <2>2, <2>3, <4>2, PayloadType
    <3> QED
      BY <3>1, <3>2
  <2> QED
    BY <1>1, <1>2, <1>4, <1>7, <2>1, <2>3, <2>5, <2>6
<1> QED
  BY <1>6, <1>7

(* Reading as many sectors as the seek offset asks for ends in its sector. *)
LEMMA SeekReached ==
  ASSUME file.seek \in Nat
  PROVE  LastOf(Reached(SectorsFor(file.seek))) = Hop(file.first, file.seek \div Payload)
<1>1. PICK q \in Nat : q = file.seek \div Payload
  BY Division
<1>2. PICK c \in Nat : c = SectorsFor(file.seek)
  BY Rounding
<1>3. /\ file.seek % Payload = 0 => c = q
      /\ file.seek % Payload # 0 => c = q + 1
      /\ c = 0 <=> file.seek = 0
  BY <1>1, <1>2, Rounding
<1>4. CASE file.seek = 0
  <2>1. c = 0 /\ q = 0
    BY <1>1, <1>3, <1>4, PayloadType
  <2> QED
    BY <1>1, <1>2, <1>4, <2>1 DEF LastOf, Reached
<1>5. CASE file.seek # 0 /\ file.seek % Payload = 0
  <2>1. Reached(c) = q + 1
    BY <1>3, <1>5 DEF Reached
  <2> QED
    BY <1>1, <1>2, <2>1 DEF LastOf
<1>6. CASE file.seek # 0 /\ file.seek % Payload # 0
  <2>1. Reached(c) = q + 1
    BY <1>3, <1>6 DEF Reached
  <2> QED
    BY <1>1, <1>2, <2>1 DEF LastOf
<1> QED
  BY <1>4, <1>5, <1>6

(* At the end of a file LastSector is its last sector.                     *)
LEMMA LastSectorFound ==
  ASSUME TypeInv, CleanInv, 0 .. System - 1 \subseteq used, pc \notin {"clear", "mark"},
         NEW n, NEW f \in Row, NEW S, NEW c, Complete(n, f, S, file.seek, c),
         file.first = f[0]
  PROVE  LastSector = f[RowLength(file.seek) - 1]
<1>1. PICK L \in Nat : L = file.seek
  BY DEF TypeInv
<1>2. PICK m \in Nat : m = RowLength(L) /\ m > 0 /\ Linked(f, m)
  BY <1>1, RowOfFile
<1>3. Hop(f[0], m - 1) = f[m - 1]
  BY <1>2, HopAlongRow
<1>4. /\ L % Payload # 0 => Size(f[0]) = L
      /\ L % Payload = 0 => SectorsFor(Size(f[0])) = m - 1
  BY <1>1, <1>2, SizeOfFile
<1>5. CASE L % Payload # 0
  <2>1. L # 0
    BY <1>5, PayloadType
  <2>2. SectorsFor(L) = m
    BY <1>2, <2>1 DEF RowLength
  <2>3. Reached(m) = m
    BY <1>1, <1>5 DEF Reached
  <2> QED
    BY <1>1, <1>2, <1>3, <1>4, <1>5, <2>2, <2>3 DEF LastSector, LastOf
<1>6. CASE L % Payload = 0 /\ L # 0
  <2>1. Reached(m - 1) = m
    BY <1>1, <1>2, <1>6 DEF Reached
  <2> QED
    BY <1>1, <1>2, <1>3, <1>4, <1>6, <2>1 DEF LastSector, LastOf
<1>7. CASE L = 0
  <2>1. m = 1 /\ L % Payload = 0
    BY <1>2, <1>7, PayloadType DEF RowLength
  <2>2. Reached(m - 1) = 0
    BY <1>1, <1>7, <2>1 DEF Reached
  <2> QED
    BY <1>1, <1>2, <1>3, <1>4, <2>1, <2>2 DEF LastSector, LastOf
<1> QED
  BY <1>5, <1>6, <1>7

-----------------------------------------------------------------------------
LEMMA CompleteSame ==
  ASSUME directory' = directory, used' = used, disk' = disk,
         NEW n, NEW f, NEW S, NEW L, NEW c, Complete(n, f, S, L, c)
  PROVE  Complete(n, f, S, L, c)'
BY DEF Complete, Entered, Taken, Linked, Ends, Spare, SectorsFor, FreeSector, Lowest

(* The actions that are steps of one file, and what they leave alone.      *)
LEMMA WriteStep ==
  ASSUME Careful, TypeInv, DirectoryInv, CleanInv,
         NEW row \in Rows, NEW own \in Owns, Layout(row, own),
         NEW k \in Nat \ {0}, Write(k)
  PROVE  IInv' /\ SystemSame
<1>1. /\ pc = "idle" /\ held \in Name /\ pc' = "write" /\ held' = held
      /\ directory' = directory /\ used' = used /\ disk' = disk
      /\ file' = file /\ text' = text
  BY Constants DEF Write, store, TypeInv
<1>2. PICK f \in Row : f = row[held]
  BY <1>1, Owned
<1>3. PICK S \in SUBSET FileSector : S = own[held] /\ S \subseteq used
  BY <1>1, Owned
<1>4. 0 .. System - 1 \subseteq used
  BY <1>1, Owned
<1>5. text[held] # None /\ file.first = f[0] /\ file.seek <= Len(text[held])
  BY <1>1, <1>2, Constants DEF Layout, HeldInv, AtIdle
<1>6. PICK L \in Nat : L = Len(text[held])
  BY <1>1, <1>5 DEF TypeInv
<1>7. PICK q \in Nat : q = file.seek \div Payload
  BY Division DEF TypeInv
<1>8. Whole(held, f, S)
  BY <1>1, <1>2, <1>3 DEF Layout, InUse
<1>9. Complete(held, f, S, L, SectorsFor(L)) /\ Reads(f, text[held])
  BY <1>5, <1>6, <1>8 DEF Whole
<1>10. PICK m \in Nat : /\ m = RowLength(L) /\ m > 0 /\ Linked(f, m)
                        /\ Ends(f, m, L % Payload)
  BY <1>1, <1>4, <1>9, RowOfFile
<1>11. q <= m /\ (file.seek < L => q < m)
  <2>1. file.seek \in Nat
    BY DEF TypeInv
  <2>2. CASE file.seek < L
    BY <1>6, <1>7, <1>10, <2>1, <2>2, OffsetInRow DEF RowLength
  <2>3. CASE file.seek = L
    <3>1. L = 0 => q = 0
      BY <1>7, <2>3, PayloadType
    <3>2. SectorsFor(L) = q \/ SectorsFor(L) = q + 1
      BY <1>7, <2>1, <2>3, Rounding
    <3> QED
      BY <1>10, <2>3, <3>1, <3>2 DEF RowLength
  <2> QED
    BY <1>5, <1>6, <2>1, <2>2, <2>3
<1>12. \/ q < m /\ Hop(f[0], q) = f[q]
       \/ q = m /\ Hop(f[0], q) \in Sector
  <2>1. CASE q < m
    BY <1>10, <2>1, HopAlongRow
  <2>2. CASE q = m
    BY <1>10, <2>2, HopAlongRow, Constants DEF Ends
  <2> QED
    BY <1>11, <2>1, <2>2
<1>13. PICK j \in Sector : j = LastOf(Reached(SectorsFor(file.seek))) /\ (file.seek < L => j = f[q])
  <2>1. LastOf(Reached(SectorsFor(file.seek))) = Hop(f[0], q)
    BY <1>5, <1>7, SeekReached DEF TypeInv
  <2>2. q < m => f[q] \in Sector
    BY <1>2 DEF Row
  <2> QED
    BY <1>11, <1>12, <2>1, <2>2
<1>14. PICK d \in Seq(Byte) : d = [i \in 1 .. k |-> <<held, file.seek + i>>] /\ Len(d) = k
  <2>1. \A i \in 1 .. k : <<held, file.seek + i>> \in Byte
    BY <1>1 DEF TypeInv, Byte
  <2> DEFINE e == [i \in 1 .. k |-> <<held, file.seek + i>>]
  <2>2. e \in [1 .. k -> Byte]
    BY <2>1
  <2> HIDE DEF e
  <2>3. e \in Seq(Byte)
    BY <2>2, SeqDef
  <2>4. Len(e) = k
    BY <2>2, <2>3, LenProperties
  <2> QED
    BY <2>3, <2>4 DEF e
<1>15. job' = [name |-> None, length |-> 0, sector |-> j, left |-> 0, data |-> d]
  BY <1>13, <1>14 DEF Write, NoJob
<1>16. /\ job'.name = None /\ job'.sector = j /\ job'.data = d
       /\ job' \in [name : Name \cup {None}, length : Nat, sector : Sector, left : Nat,
                   data : Seq(Byte)]
  BY <1>15
<1>17. TypeInv'
  BY <1>1, <1>16 DEF TypeInv
<1>18. DirectoryInv' /\ CleanInv'
  BY <1>1 DEF DirectoryInv, CleanInv
<1>19. Complete(held, f, S, L, SectorsFor(L))'
  <2>1. PICK c \in Nat : c = SectorsFor(L)
    BY Rounding
  <2>2. Complete(held, f, S, L, c)'
    <3>1. PICK h \in Name : h = held
      BY <1>1
    <3>2. Complete(h, f, S, L, c)'
      BY <1>1, <1>9, <2>1, <3>1, CompleteSame
    <3> QED
      BY <1>1, <3>1, <3>2
  <2> QED
    BY <2>1, <2>2 DEF SectorsFor
<1>20. AtWrite(f, S)'
  <2>1. Reads(f, text[held])'
    BY <1>1, <1>9 DEF Reads
  <2>2. d # <<>>
    BY <1>14
  <2>3. Source(f)'
    BY <1>1, <1>5, <1>16, <2>1, <2>2 DEF Source
  <2>4. WellPlaced(file.seek, k, L)
    BY <1>6 DEF Write
  <2>5. file.seek < L => L % Payload # 0 /\ file.seek + k <= L
    BY <2>4 DEF WellPlaced, TypeInv
  <2>6. Fits(f)'
    BY <1>1, <1>5, <1>6, <1>7, <1>13, <1>14, <1>16, <2>5 DEF Fits
  <2> QED
    BY <1>1, <1>6, <1>19, <2>3, <2>6 DEF AtWrite, SectorsFor
<1>21. RoomInv(S)'
  <2>1. SectorsFor(file.seek + k) <= Cardinality(Available(S))
    <3>1. RoomFor(held, file.seek + k) /\ file.seek + k \in Nat
      BY DEF Write, TypeInv
    <3> QED
      BY <1>1, <1>3, <1>8, <3>1, RoomIsThere
  <2> QED
    BY <1>1, <1>14, <1>16, <2>1 DEF RoomInv, Available, SectorsFor
<1>22. HeldInv(f, S)'
  BY <1>1, <1>20 DEF HeldInv
<1>23. \A n \in Name \ {held} : ~ InUse(n) /\ text[n] # <<>> /\ text'[n] = text[n]
  BY <1>1 DEF Layout, InUse
<1>24. EntriesStay(held) /\ InUse(held)'
  BY <1>1 DEF EntriesStay, InUse
<1>25. PICK h \in Name : h = held
  BY <1>1
<1> QED
  BY <1>1, <1>3, <1>17, <1>18, <1>21, <1>22, <1>23, <1>24, <1>25, Installed

(* The facts that the steps of one file have in common.                    *)
LEMMA SameFile ==
  ASSUME TypeInv, NEW row \in Rows, NEW own \in Owns, Layout(row, own),
         pc # "idle", pc' # "idle", held' = held, text' = text,
         NEW f \in Row, NEW S \in SUBSET FileSector,
         used' = (used \ own[held]) \cup S, S \cap (used \ own[held]) = {},
         \A s \in used \ own[held] : disk'[s] = disk[s],
         EntriesStay(held), TypeInv', DirectoryInv', CleanInv',
         HeldInv(f, S)', RoomInv(S)'
  PROVE  IInv' /\ SystemSame
<1>1. PICK h \in Name : h = held
  BY Working
<1>2. \A n \in Name \ {h} : ~ InUse(n) /\ text[n] # <<>> /\ text'[n] = text[n]
  BY <1>1, Working
<1>3. InUse(h)'
  BY <1>1 DEF InUse
<1> QED
  BY <1>1, <1>2, <1>3, Installed

-----------------------------------------------------------------------------
(* The offset at the end of a file lies behind its full sectors.           *)
LEMMA EndOfRow ==
  ASSUME NEW L \in Nat
  PROVE  /\ L % Payload # 0 => RowLength(L) = L \div Payload + 1 /\ L # 0
         /\ L % Payload = 0 => SectorsFor(L) = L \div Payload
         /\ L # 0 => RowLength(L) = SectorsFor(L) /\ SectorsFor(L) # 0
         /\ L = 0 => RowLength(L) = 1 /\ SectorsFor(L) = 0 /\ L \div Payload = 0
BY Rounding, PayloadType DEF RowLength

(* A part inside of the file does not grow it; at its end it needs a new   *)
(* sector when the last one is full or there is none.                      *)
LEMMA GrowthDecided ==
  ASSUME TypeInv, CleanInv, 0 .. System - 1 \subseteq used, pc = "write",
         NEW f \in Row, NEW S, AtWrite(f, S), NEW L \in Nat, L = Len(text[held])
  PROVE  /\ file.seek < L => ~ Grows
         /\ file.seek = L => Grows /\ (Spills <=> L % Payload = 0)
         /\ file.seek <= L
<1>1. /\ file.first = f[0] /\ file.seek \in Nat /\ job.data # <<>>
      /\ file.seek <= L
      /\ file.seek < L => L % Payload # 0 /\ file.seek + Len(job.data) <= L
  BY DEF AtWrite, Source, Fits, TypeInv
<1>2. PICK p \in Nat : /\ p = Part /\ p > 0 /\ p <= Len(job.data)
                       /\ p <= Payload - (file.seek % Payload) /\ EndOf = file.seek + p
                       /\ Len(job.data) \in Nat
  BY <1>1, PartType
<1>3. PICK z \in Nat : /\ z = Size(f[0]) /\ z <= L
                       /\ L % Payload # 0 => z = L
                       /\ L % Payload = 0 => SectorsFor(z) = RowLength(L) - 1
  <2>1. Complete(held, f, S, L, SectorsFor(L))
    BY DEF AtWrite
  <2> QED
    BY <2>1, SizeOfFile
<1>4. CASE file.seek < L
  <2>1. EndOf <= z
    BY <1>1, <1>2, <1>3, <1>4
  <2> QED
    BY <1>1, <1>2, <1>3, <1>4, <2>1 DEF Grows
<1>5. CASE file.seek = L
  <2>1. Grows
    BY <1>1, <1>2, <1>3, <1>5 DEF Grows
  <2>2. PICK a \in Nat : a = L \div Payload
    BY Division
  <2>3. SectorsFor(EndOf) = a + 1
    BY <1>2, <1>5, <2>2, PartFits
  <2>4. CASE L % Payload # 0
    <3>1. SectorsFor(z) = a + 1
      BY <1>3, <2>2, <2>4, Rounding
    <3> QED
      BY <1>1, <1>3, <1>5, <2>1, <2>3, <2>4, <3>1 DEF Spills
  <2>5. CASE L % Payload = 0
    <3>1. SectorsFor(L) = a /\ SectorsFor(z) = RowLength(L) - 1
      BY <1>3, <2>2, <2>5, Rounding
    <3>2. RowLength(L) - 1 # a + 1
      BY <2>2, <3>1, EndOfRow
    <3> QED
      BY <1>1, <1>3, <1>5, <2>1, <2>3, <2>5, <3>1, <3>2 DEF Spills
  <2> QED
    BY <2>4, <2>5
<1> QED
  BY <1>1, <1>4, <1>5

LEMMA ExtendStep ==
  ASSUME TypeInv, DirectoryInv, CleanInv,
         NEW row \in Rows, NEW own \in Owns, Layout(row, own), Extend
  PROVE  IInv' /\ SystemSame
<1>1. /\ pc = "write" /\ Grows /\ ~ Spills /\ pc' = "put"
      /\ directory' = directory /\ used' = used
      /\ file' = file /\ text' = text /\ held' = held
  BY DEF Extend
<1>2. /\ held \in Name /\ HeldInv(row[held], own[held]) /\ RoomInv(own[held])
  BY <1>1, Working
<1>3. PICK f \in Row : f = row[held]
  BY <1>2, Owned
<1>4. PICK S \in SUBSET FileSector : S = own[held] /\ S \subseteq used
  BY <1>2, Owned
<1>5. 0 .. System - 1 \subseteq used
  BY <1>2, Owned
<1>6. AtWrite(f, S)
  BY <1>1, <1>2, <1>3, <1>4 DEF HeldInv
<1>7. PICK L \in Nat : L = Len(text[held])
  BY <1>2, <1>6 DEF AtWrite, Source, TypeInv
<1>8. file.seek = L /\ L % Payload # 0
  <2>1. file.seek \in Nat
    BY DEF TypeInv
  <2> QED
    BY <1>1, <1>5, <1>6, <1>7, <2>1, GrowthDecided
<1>9. Complete(held, f, S, L, SectorsFor(L)) /\ file.first = f[0] /\ job.data # <<>>
      /\ Reads(f, text[held]) /\ text[held] # None
  BY <1>6, <1>7 DEF AtWrite, Source
<1>10. PICK a \in Nat : a = L \div Payload /\ SectorsFor(L) = a + 1 /\ RowLength(L) = a + 1
  BY <1>8, Division, Rounding, EndOfRow
<1>11. PICK s \in FileSector : s = f[a] /\ s \in S
  BY <1>9, <1>10 DEF Complete, Linked, Taken
<1>12. LastSector = s
  <2>1. LastSector = f[RowLength(L) - 1]
    BY <1>1, <1>5, <1>8, <1>9, LastSectorFound
  <2> QED
    BY <1>10, <1>11, <2>1
<1>13. PICK E \in Nat : E = EndOf /\ SectorsFor(E) = a + 1 /\ E # 0
  BY <1>8, <1>9, <1>10, PartType, PartFits
<1>14. s \in Sector /\ (E % Payload) \in Nat
  <2>1. (E % Payload) \in 0 .. Payload - 1
    BY Division
  <2> QED
    BY <1>11, <2>1, Constants, PayloadType
<1>15. disk' = [disk EXCEPT ![s].size = E % Payload]
  BY <1>12, <1>13 DEF Extend
<1>16. job' = [job EXCEPT !.sector = s]
  BY <1>12 DEF Extend
<1>17. job' \in [name : Name \cup {None}, length : Nat, sector : Sector, left : Nat,
                data : Seq(Byte)]
       /\ job'.sector = s /\ job'.data = job.data /\ job'.name = job.name
  BY <1>14, <1>16 DEF TypeInv
<1>18. /\ disk' \in [Sector -> Content]
       /\ \A t \in Sector : /\ disk'[t].next = disk[t].next
                            /\ disk'[t].bytes = disk[t].bytes
                            /\ t # s => disk'[t] = disk[t]
       /\ disk'[s].size = E % Payload
  <2>1. disk \in [Sector -> Content] /\ disk[s] \in Content
    BY <1>14 DEF TypeInv
  <2>2. PICK x \in Content : x = [disk[s] EXCEPT !.size = E % Payload]
    BY <1>14, <2>1 DEF Content
  <2>3. x.next = disk[s].next /\ x.bytes = disk[s].bytes /\ x.size = E % Payload
    BY <2>1, <2>2 DEF Content
  <2>4. disk' = [disk EXCEPT ![s] = x]
    BY <1>15, <2>2
  <2> QED
    BY <1>14, <2>1, <2>3, <2>4
<1>19. TypeInv'
  BY <1>1, <1>17, <1>18 DEF TypeInv
<1>20. DirectoryInv' /\ EntriesStay(held)
  BY <1>1 DEF DirectoryInv, EntriesStay
<1>21. CleanInv'
  BY <1>1, <1>4, <1>11, <1>18 DEF CleanInv
<1>22. \A i \in Nat : f[i] \in Sector
  BY DEF Row
<1>23. Complete(held, f, S, E, a + 1)'
  <2>1. Linked(f, a + 1)'
    BY <1>9, <1>10, <1>18, <1>22 DEF Complete, Linked
  <2>2. Ends(f, a + 1, E % Payload)'
    BY <1>9, <1>10, <1>11, <1>18, <1>22 DEF Complete, Ends
  <2>3. Entered(held, f[0], a + 1)'
    BY <1>1, <1>9, <1>10 DEF Complete, Entered
  <2> QED
    BY <1>9, <1>10, <1>13, <2>1, <2>2, <2>3 DEF Complete, SectorsFor
<1>24. Reads(f, text[held])'
  <2>1. Len(text[held]) \in Nat
    BY <1>7
  <2>2. ASSUME NEW o \in 0 .. Len(text[held]) - 1
        PROVE  o \div Payload \in Nat
    <3>1. o \in Nat
      BY <2>1
    <3> QED
      BY <3>1, Division
  <2> QED
    BY <1>1, <1>9, <1>18, <1>22, <2>2 DEF Reads
<1>25. EndOf' = E
  BY <1>1, <1>13, <1>17 DEF EndOf, Part
<1>26. AtPut(f, S)'
  <2>1. Source(f)'
    BY <1>1, <1>9, <1>17, <1>24 DEF Source
  <2>2. Complete(held, f, S, EndOf, SectorsFor(EndOf))'
    BY <1>13, <1>23, <1>25 DEF SectorsFor
  <2> QED
    BY <1>1, <1>7, <1>8, <1>10, <1>11, <1>17, <2>1, <2>2 DEF AtPut
<1>27. HeldInv(f, S)'
  BY <1>1, <1>26 DEF HeldInv
<1>28. RoomInv(S)'
  BY <1>1, <1>2, <1>4, <1>17 DEF RoomInv, Available, SectorsFor
<1>29. \A t \in used \ own[held] : disk'[t] = disk[t]
  BY <1>4, <1>11, <1>18 DEF TypeInv
<1> QED
  BY <1>1, <1>4, <1>19, <1>20, <1>21, <1>27, <1>28, <1>29, SameFile

-----------------------------------------------------------------------------
(* Where an operation on a file stands.                                    *)
LEMMA Setting ==
  ASSUME TypeInv, NEW row \in Rows, NEW own \in Owns, Layout(row, own), pc # "idle"
  PROVE  /\ held \in Name
         /\ \E f \in Row, S \in SUBSET FileSector :
              /\ f = row[held] /\ S = own[held] /\ S \subseteq used
              /\ HeldInv(f, S) /\ RoomInv(S)
         /\ 0 .. System - 1 \subseteq used
BY Working, Owned

(* No entry but its own begins with the first sector of the file that is   *)
(* worked on.                                                              *)
LEMMA FirstIsMine ==
  ASSUME TypeInv, DirectoryInv,
         NEW row \in Rows, NEW own \in Owns, Layout(row, own), pc # "idle",
         NEW s \in FileSector, s \in own[held] \/ Spare(s), NEW c, Entered(held, s, c)
  PROVE  \E d \in Entry : /\ directory[d] = [name |-> held, first |-> s, count |-> c]
                          /\ \A e \in Entry : directory[e].first = s <=> e = d
                          /\ EntryAt(s) = d /\ d # 0
<1>1. PICK d \in Entry : directory[d] = [name |-> held, first |-> s, count |-> c]
  BY DEF Entered
<1>2. ASSUME NEW e \in Entry, directory[e].first = s
      PROVE  e = d
  <2>1. held \in Name /\ held # None /\ s # 0 /\ s \in Sector
    BY Working, Constants
  <2>2. PICK n \in Name : n = directory[e].name
    <3>1. directory[e] # NoEntry
      BY <1>2, <2>1 DEF NoEntry
    <3> QED
      BY <3>1 DEF DirectoryInv, TypeInv
  <2>3. CASE n = held
    <3>1. directory[d].name = directory[e].name /\ directory[d].name # None
      BY <1>1, <2>1, <2>2, <2>3
    <3> QED
      BY <3>1 DEF DirectoryInv
  <2>4. CASE n # held
    <3>1. Whole(n, row[n], own[n]) /\ text[n] # <<>>
      BY <2>4, Working DEF Layout
    <3>2. text[n] # None
      BY <2>2, <3>1 DEF Whole, Nowhere
    <3>3. PICK L \in Nat : L = Len(text[n]) /\ L # 0
      BY <3>1, <3>2 DEF TypeInv
    <3>4. PICK k \in Nat : k = SectorsFor(L) /\ k # 0
      BY <3>3, Rounding
    <3>5. Complete(n, row[n], own[n], L, k)
      BY <3>1, <3>2, <3>3, <3>4 DEF Whole
    <3>6. /\ EntryOf(n) \in Entry
          /\ directory[EntryOf(n)] = [name |-> n, first |-> row[n][0], count |-> k]
      BY <3>5, EntryFound DEF Complete
    <3>7. EntryOf(n) = e
      BY <2>2, <3>6, Constants DEF DirectoryInv
    <3>8. s = row[n][0]
      BY <1>2, <3>6, <3>7
    <3>9. s \in own[n]
      BY <3>4, <3>5, <3>8 DEF Complete, Taken
    <3>10. own[n] \cap own[held] = {} /\ own[n] \subseteq used /\ 0 .. System - 1 \subseteq used
      BY <2>1, <2>4, Owned DEF Layout, Marked
    <3>11. ~ Spare(s)
      BY <3>9, <3>10, FreeSectorFound DEF Spare
    <3> QED
      BY <3>9, <3>10, <3>11
  <2> QED
    BY <2>3, <2>4
<1>3. EntryAt(s) = d
  <2>1. {e \in Entry : directory[e].first = s} = {d}
    BY <1>1, <1>2
  <2>2. {d} \in SUBSET Nat /\ {d} # {}
    BY DEF Entry
  <2>3. Lowest({d}) \in {d}
    BY <2>2, LowestFound
  <2> QED
    BY <2>1, <2>3 DEF EntryAt
<1>4. d # 0
  BY DEF Entry
<1> QED
  BY <1>1, <1>2, <1>3, <1>4

(* The directory is written first when a sector is added.                  *)
LEMMA CountStep ==
  ASSUME TypeInv, DirectoryInv, CleanInv,
         NEW row \in Rows, NEW own \in Owns, Layout(row, own), CountSector
  PROVE  IInv' /\ SystemSame
<1>1. /\ pc = "write" /\ Grows /\ Spills /\ pc' = "link"
      /\ used' = used /\ disk' = disk /\ job' = job
      /\ file' = file /\ text' = text /\ held' = held
  BY DEF CountSector
<1>2. held \in Name /\ 0 .. System - 1 \subseteq used
  BY <1>1, Setting
<1>3. PICK f \in Row, S \in SUBSET FileSector :
        /\ f = row[held] /\ S = own[held] /\ S \subseteq used
        /\ HeldInv(f, S) /\ RoomInv(S)
  BY <1>1, Setting
<1>4. AtWrite(f, S)
  BY <1>1, <1>3 DEF HeldInv
<1>5. PICK L \in Nat : L = Len(text[held])
  BY <1>2, <1>4 DEF AtWrite, Source, TypeInv
<1>6. file.seek = L /\ L % Payload = 0
  <2>1. file.seek \in Nat
    BY DEF TypeInv
  <2> QED
    BY <1>1, <1>2, <1>4, <1>5, <2>1, GrowthDecided
<1>7. PICK c \in Nat : c = SectorsFor(L) /\ (c = 0 <=> L = 0)
  BY Rounding
<1>8. Complete(held, f, S, L, c) /\ file.first = f[0] /\ Source(f)
  BY <1>4, <1>5, <1>7 DEF AtWrite, Source
<1>9. f[0] \in FileSector /\ (f[0] \in own[held] \/ Spare(f[0]))
  <2>1. CASE c = 0
    BY <1>2, <1>7, <1>8, <2>1, FreeSectorFound DEF Complete, Spare
  <2>2. CASE c # 0
    BY <1>3, <1>7, <1>8, <2>2 DEF Complete, Taken
  <2> QED
    BY <2>1, <2>2
<1>10. PICK d \in Entry : /\ directory[d] = [name |-> held, first |-> f[0], count |-> c]
                          /\ \A e \in Entry : directory[e].first = f[0] <=> e = d
  BY <1>1, <1>8, <1>9, FirstIsMine DEF Complete
<1>11. /\ directory' \in [Entry -> [name : Name \cup {None}, first : Sector, count : Nat]]
       /\ directory'[d] = [name |-> held, first |-> f[0], count |-> c + 1]
       /\ \A e \in Entry : e # d => directory'[e] = directory[e]
  <2>1. [directory[d] EXCEPT !.count = @ + 1] = [name |-> held, first |-> f[0], count |-> c + 1]
    BY <1>10
  <2>2. directory' = [e \in Entry |-> IF e = d THEN [name |-> held, first |-> f[0], count |-> c + 1]
                                      ELSE directory[e]]
    BY <1>8, <1>10, <2>1 DEF CountSector
  <2>3. [name |-> held, first |-> f[0], count |-> c + 1] \in
          [name : Name \cup {None}, first : Sector, count : Nat]
    <3>1. f[0] \in Sector
      BY <1>9 DEF Row
    <3>2. held \in Name \cup {None}
      BY <1>2
    <3>3. c + 1 \in Nat
      OBVIOUS
    <3> QED
      BY <3>1, <3>2, <3>3
  <2> QED
    BY <2>2, <2>3 DEF TypeInv
<1>12. TypeInv'
  BY <1>1, <1>11 DEF TypeInv
<1>13. DirectoryInv' /\ EntriesStay(held)
  BY <1>1, <1>2, <1>9, <1>10, <1>11, Constants DEF DirectoryInv, EntriesStay
<1>14. CleanInv'
  BY <1>1 DEF CleanInv
<1>15. Complete(held, f, S, L, SectorsFor(L) + 1)'
  <2>1. Entered(held, f[0], c + 1)'
    BY <1>1, <1>11 DEF Entered
  <2>2. (/\ S = Taken(f, c) /\ Linked(f, c) /\ Ends(f, c, L % Payload)
         /\ L = 0 => Spare(f[0]))'
    BY <1>1, <1>7, <1>8
    DEF Complete, Taken, Linked, Ends, Spare, FreeSector, Lowest
  <2> QED
    BY <1>7, <2>1, <2>2 DEF Complete, SectorsFor
<1>16. AtLink(f, S)'
  <2>1. Source(f)'
    BY <1>1, <1>8 DEF Source, Reads
  <2>2. Full'
    BY <1>1, <1>5, <1>6 DEF Full
  <2> QED
    BY <1>1, <1>5, <1>15, <2>1, <2>2 DEF AtLink, SectorsFor
<1>17. HeldInv(f, S)'
  BY <1>1, <1>16 DEF HeldInv
<1>18. RoomInv(S)'
  BY <1>1, <1>3 DEF RoomInv, Available, SectorsFor
<1> QED
  BY <1>1, <1>3, <1>12, <1>13, <1>14, <1>17, <1>18, SameFile

(* Then the last sector leads to a free one.                               *)
LEMMA LinkStep ==
  ASSUME TypeInv, DirectoryInv, CleanInv,
         NEW row \in Rows, NEW own \in Owns, Layout(row, own), Link
  PROVE  IInv' /\ SystemSame
<1>1. /\ pc = "link" /\ pc' = "mark"
      /\ directory' = directory /\ used' = used
      /\ file' = file /\ text' = text /\ held' = held
      /\ disk' = [disk EXCEPT ![LastSector].next = FreeSector, ![LastSector].size = 0]
      /\ job' = [job EXCEPT !.sector = FreeSector]
  BY DEF Link
<1>2. held \in Name /\ 0 .. System - 1 \subseteq used
  BY <1>1, Setting
<1>3. PICK f \in Row, S \in SUBSET FileSector :
        /\ f = row[held] /\ S = own[held] /\ S \subseteq used
        /\ HeldInv(f, S) /\ RoomInv(S)
  BY <1>1, Setting
<1>4. AtLink(f, S)
  BY <1>1, <1>3 DEF HeldInv
<1>5. PICK L \in Nat : L = Len(text[held])
  BY <1>2, <1>4 DEF AtLink, Source, TypeInv
<1>6. PICK c \in Nat : c = SectorsFor(L) /\ (c = 0 <=> L = 0)
  BY Rounding
<1>7. /\ Complete(held, f, S, L, c + 1) /\ Source(f) /\ Full
      /\ file.first = f[0] /\ file.seek = L /\ L % Payload = 0
  BY <1>4, <1>5, <1>6 DEF AtLink, Source, Full
<1>8. c = L \div Payload
  BY <1>6, <1>7, Rounding
<1>9. /\ S = Taken(f, c) /\ Linked(f, c) /\ Entered(held, f[0], c + 1)
      /\ L = 0 => Spare(f[0])
  BY <1>6, <1>7 DEF Complete
<1>10. PICK z \in FileSector \ used : z = FreeSector /\ z # 0
  <2>1. PICK n \in Nat : n = L + Len(job.data) /\ L < n
    BY <1>7 DEF Source, TypeInv
  <2>2. SectorsFor(n) <= Cardinality(Available(S)) /\ SectorsFor(n) \in Nat
    BY <1>1, <1>3, <1>7, <2>1, Rounding DEF RoomInv
  <2>3. c < SectorsFor(n)
    BY <1>8, <2>1, OffsetInRow
  <2> QED
    BY <1>2, <1>9, <2>2, <2>3, RoomMeansFree
<1>11. PICK s \in FileSector : /\ s = LastSector
                               /\ c = 0 => s = z /\ f[0] = z
                               /\ c # 0 => s = f[c - 1] /\ s \in S
  <2>1. LastSector = f[RowLength(L) - 1]
    BY <1>1, <1>2, <1>7, LastSectorFound
  <2>2. CASE c = 0
    BY <1>6, <1>9, <1>10, <2>1, <2>2 DEF RowLength, Spare
  <2>3. CASE c # 0
    <3>1. RowLength(L) = c /\ c - 1 \in 0 .. c - 1
      BY <1>6, <2>3 DEF RowLength
    <3>2. f[c - 1] \in S /\ f[c - 1] \in FileSector
      BY <1>9, <3>1 DEF Taken, Linked
    <3> QED
      BY <2>1, <2>3, <3>1, <3>2
  <2> QED
    BY <2>2, <2>3
<1>12. z \in Sector /\ s \in Sector
  BY <1>10, <1>11, Constants
<1>13. /\ disk' \in [Sector -> Content]
       /\ \A t \in Sector : /\ disk'[t].bytes = disk[t].bytes
                            /\ t # s => disk'[t] = disk[t]
       /\ disk'[s].next = z
  <2>1. disk \in [Sector -> Content] /\ disk[s] \in Content
    BY <1>12 DEF TypeInv
  <2>2. PICK x \in Content : x = [disk[s] EXCEPT !.next = z, !.size = 0]
    BY <1>12, <2>1 DEF Content
  <2>3. x.next = z /\ x.bytes = disk[s].bytes
    BY <2>1, <2>2 DEF Content
  <2>4. disk' = [disk EXCEPT ![s] = x]
    BY <1>1, <1>10, <1>11, <2>2
  <2> QED
    BY <1>12, <2>1, <2>3, <2>4
<1>14. job' \in [name : Name \cup {None}, length : Nat, sector : Sector, left : Nat,
                data : Seq(Byte)]
       /\ job'.sector = z /\ job'.data = job.data /\ job'.name = job.name
  BY <1>1, <1>10, <1>12 DEF TypeInv
<1>15. TypeInv'
  BY <1>1, <1>13, <1>14 DEF TypeInv
<1>16. DirectoryInv' /\ EntriesStay(held)
  BY <1>1 DEF DirectoryInv, EntriesStay
<1>17. CleanInv'
  BY <1>1, <1>3, <1>10, <1>11, <1>13, <1>14 DEF CleanInv
<1>18. PICK g \in Row : g = [f EXCEPT ![c] = z]
  BY <1>12 DEF Row
<1>19. g[c] = z /\ g[0] = f[0] /\ \A i \in 0 .. c - 1 : g[i] = f[i] /\ f[i] \in S
  BY <1>9, <1>11, <1>18 DEF Row, Taken
<1>20. S = Taken(g, c)
  BY <1>9, <1>19 DEF Taken
<1>21. Linked(g, c + 1)'
  <2>1. \A i \in 0 .. c : g[i] \in FileSector
    BY <1>9, <1>10, <1>19 DEF Linked
  <2>2. ASSUME NEW i \in 0 .. c, NEW j \in 0 .. c, g[i] = g[j]
        PROVE  i = j
    <3>1. \A k \in 0 .. c - 1 : g[k] # z
      BY <1>3, <1>10, <1>19
    <3>2. CASE i # c /\ j # c
      <4>1. i \in 0 .. c - 1 /\ j \in 0 .. c - 1
        BY <3>2
      <4> QED
        BY <1>9, <1>19, <2>2, <4>1 DEF Linked
    <3> QED
      BY <1>19, <2>2, <3>1, <3>2
  <2>3. ASSUME NEW i \in 0 .. c - 1
        PROVE  disk'[g[i]].next = g[i + 1]
    <3>1. c # 0 /\ g[i] = f[i] /\ f[i] \in Sector
      BY <1>18, <1>19 DEF Row
    <3>2. CASE i = c - 1
      BY <1>11, <1>13, <1>19, <3>1, <3>2
    <3>3. CASE i # c - 1
      <4>1. i \in 0 .. c - 2 /\ i + 1 \in 0 .. c - 1 /\ c - 1 \in 0 .. c - 1
        BY <3>3
      <4>2. disk[f[i]].next = f[i + 1] /\ f[i] # f[c - 1]
        BY <1>9, <3>3, <4>1 DEF Linked
      <4> QED
        BY <1>11, <1>13, <1>19, <3>1, <4>1, <4>2
    <3> QED
      BY <3>2, <3>3
  <2> QED
    BY <2>1, <2>2, <2>3 DEF Linked
<1>22. Reads(g, text[held])'
  <2>1. ASSUME NEW o \in 0 .. L - 1
        PROVE  disk'[g[o \div Payload]].bytes[o % Payload] = text[held][o + 1]
    <3>1. o \in Nat /\ o < L
      OBVIOUS
    <3>2. o \div Payload \in 0 .. c - 1 /\ o \div Payload \in Nat
      BY <1>6, <3>1, OffsetInRow, Division
    <3>3. g[o \div Payload] = f[o \div Payload] /\ f[o \div Payload] \in Sector
      BY <1>19, <3>2 DEF Row
    <3> QED
      BY <1>5, <1>7, <1>13, <3>3 DEF Source, Reads
  <2> QED
    BY <1>1, <1>5, <2>1 DEF Reads
<1>23. AtMark(g, S)'
  <2>1. Source(g)'
    BY <1>1, <1>7, <1>14, <1>19, <1>22 DEF Source
  <2>2. Full'
    BY <1>1, <1>7 DEF Full
  <2>3. Entered(held, g[0], c + 1)'
    BY <1>1, <1>9, <1>19 DEF Entered
  <2>4. Spare(g[c])'
    BY <1>1, <1>10, <1>19 DEF Spare, FreeSector, Lowest
  <2>5. Growing(g, c)'
    BY <1>1, <1>5, <1>6, <1>14, <1>19, <1>21, <2>1, <2>2, <2>3 DEF Growing, SectorsFor
  <2>6. (S = Taken(g, c))'
    BY <1>20 DEF Taken
  <2> QED
    BY <2>4, <2>5, <2>6 DEF AtMark
<1>24. HeldInv(g, S)'
  BY <1>1, <1>23 DEF HeldInv
<1>25. RoomInv(S)'
  BY <1>1, <1>3, <1>14 DEF RoomInv, Available, SectorsFor
<1>26. \A t \in used \ own[held] : disk'[t] = disk[t]
  BY <1>3, <1>10, <1>11, <1>13 DEF TypeInv
<1> QED
  BY <1>1, <1>3, <1>15, <1>16, <1>17, <1>24, <1>25, <1>26, SameFile

(* Then its bit is set.                                                    *)
LEMMA MarkStep ==
  ASSUME TypeInv, DirectoryInv, CleanInv,
         NEW row \in Rows, NEW own \in Owns, Layout(row, own), MarkNew
  PROVE  IInv' /\ SystemSame
<1>1. /\ pc = "mark" /\ pc' = "fresh" /\ used' = used \cup {job.sector}
      /\ directory' = directory /\ disk' = disk /\ job' = job
      /\ file' = file /\ text' = text /\ held' = held
  BY DEF MarkNew
<1>2. held \in Name /\ 0 .. System - 1 \subseteq used
  BY <1>1, Setting
<1>3. PICK f \in Row, S \in SUBSET FileSector :
        /\ f = row[held] /\ S = own[held] /\ S \subseteq used
        /\ HeldInv(f, S) /\ RoomInv(S)
  BY <1>1, Setting
<1>4. AtMark(f, S)
  BY <1>1, <1>3 DEF HeldInv
<1>5. PICK c \in Nat : Growing(f, c) /\ S = Taken(f, c) /\ Spare(f[c])
  BY <1>4 DEF AtMark
<1>6. PICK z \in FileSector \ used : z = f[c] /\ z = job.sector
  BY <1>2, <1>5, FreeSectorFound DEF Growing, Spare
<1>7. PICK T \in SUBSET FileSector : T = S \cup {z}
  OBVIOUS
<1>8. T = Taken(f, c + 1)
  <2>1. 0 .. (c + 1) - 1 = (0 .. c - 1) \cup {c}
    OBVIOUS
  <2> QED
    BY <1>5, <1>6, <1>7, <2>1 DEF Taken
<1>9. TypeInv'
  BY <1>1, <1>6, Constants DEF TypeInv
<1>10. DirectoryInv' /\ EntriesStay(held)
  BY <1>1 DEF DirectoryInv, EntriesStay
<1>11. CleanInv'
  BY <1>1 DEF CleanInv
<1>12. Growing(f, c)'
  BY <1>1, <1>5 DEF Growing, Source, Reads, Full, Entered, Linked, SectorsFor
<1>13. AtFresh(f, T)'
  BY <1>8, <1>12 DEF AtFresh, Taken
<1>14. HeldInv(f, T)'
  BY <1>1, <1>13 DEF HeldInv
<1>15. Available(T)' = Available(S)
  BY <1>1, <1>6, <1>7, Constants DEF Available
<1>16. RoomInv(T)'
  BY <1>1, <1>3, <1>15 DEF RoomInv, SectorsFor
<1> QED
  BY <1>1, <1>3, <1>6, <1>7, <1>9, <1>10, <1>11, <1>14, <1>16, SameFile

(* Then it is written.                                                     *)
LEMMA BlankStep ==
  ASSUME TypeInv, DirectoryInv, CleanInv,
         NEW row \in Rows, NEW own \in Owns, Layout(row, own), BlankNew
  PROVE  IInv' /\ SystemSame
<1>1. /\ pc = "fresh" /\ pc' = "put" /\ used' = used
      /\ directory' = directory /\ job' = job
      /\ file' = file /\ text' = text /\ held' = held
      /\ disk' = [disk EXCEPT ![job.sector] =
                    [next |-> 0, size |-> EndOf % Payload, bytes |-> Zeros]]
  BY DEF BlankNew
<1>2. held \in Name /\ 0 .. System - 1 \subseteq used
  BY <1>1, Setting
<1>3. PICK f \in Row, S \in SUBSET FileSector :
        /\ f = row[held] /\ S = own[held] /\ S \subseteq used
        /\ HeldInv(f, S) /\ RoomInv(S)
  BY <1>1, Setting
<1>4. AtFresh(f, S)
  BY <1>1, <1>3 DEF HeldInv
<1>5. PICK c \in Nat : Growing(f, c) /\ S = Taken(f, c + 1)
  BY <1>4 DEF AtFresh
<1>6. PICK L \in Nat : L = Len(text[held])
  BY <1>2, <1>5 DEF Growing, Source, TypeInv
<1>7. /\ Source(f) /\ Full /\ file.seek = L /\ L % Payload = 0 /\ c = SectorsFor(L)
      /\ Entered(held, f[0], c + 1) /\ Linked(f, c + 1)
      /\ job.data # <<>> /\ c = L \div Payload
  BY <1>5, <1>6, Rounding DEF Growing, Full, Source
<1>8. PICK s \in FileSector : s = f[c] /\ s = job.sector /\ s \in S
  BY <1>5 DEF Growing, Linked, Taken
<1>9. PICK E \in Nat : E = EndOf /\ SectorsFor(E) = c + 1 /\ E # 0
  BY <1>7, PartType, PartFits
<1>10. PICK x \in Content : x = [next |-> 0, size |-> E % Payload, bytes |-> Zeros]
  <2>1. (E % Payload) \in Nat
    <3>1. (E % Payload) \in 0 .. Payload - 1
      BY Division
    <3> QED
      BY <3>1, PayloadType
  <2>2. Zeros \in [0 .. Payload - 1 -> Byte]
    BY DEF Zeros, Blank, Byte
  <2> QED
    BY <2>1, <2>2, Constants DEF Content
<1>11. /\ s \in Sector /\ disk' \in [Sector -> Content] /\ disk'[s] = x
       /\ \A t \in Sector : t # s => disk'[t] = disk[t]
  BY <1>1, <1>8, <1>9, <1>10, Constants DEF TypeInv
<1>12. TypeInv'
  BY <1>1, <1>11 DEF TypeInv
<1>13. DirectoryInv' /\ EntriesStay(held)
  BY <1>1 DEF DirectoryInv, EntriesStay
<1>14. CleanInv'
  BY <1>1, <1>3, <1>8, <1>11 DEF CleanInv
<1>15. Linked(f, c + 1)
  BY <1>7
<1>16. ASSUME NEW i \in 0 .. c - 1
       PROVE  f[i] # s /\ f[i] \in Sector
  <2>1. i \in 0 .. (c + 1) - 1 /\ c \in 0 .. (c + 1) - 1 /\ i # c
    OBVIOUS
  <2>2. f[i] # f[c]
    BY <1>15, <2>1 DEF Linked
  <2> QED
    BY <1>8, <2>2 DEF Row
<1>17. Linked(f, c + 1)'
  BY <1>11, <1>15, <1>16 DEF Linked
<1>18. Complete(held, f, S, E, c + 1)'
  <2>1. Ends(f, c + 1, E % Payload)'
    <3>1. disk'[f[c]].next = 0 /\ disk'[f[c]].size = E % Payload
      BY <1>8, <1>10, <1>11
    <3> QED
      BY <3>1 DEF Ends
  <2>2. Entered(held, f[0], c + 1)'
    BY <1>1, <1>7 DEF Entered
  <2>3. (S = Taken(f, c + 1))'
    BY <1>5 DEF Taken
  <2> QED
    BY <1>9, <1>17, <2>1, <2>2, <2>3 DEF Complete, SectorsFor
<1>19. EndOf' = E
  BY <1>1, <1>9 DEF EndOf, Part
<1>20. Reads(f, text[held])'
  <2>1. ASSUME NEW o \in 0 .. L - 1
        PROVE  disk'[f[o \div Payload]].bytes[o % Payload] = text[held][o + 1]
    <3>1. o \in Nat /\ o < L
      OBVIOUS
    <3>2. o \div Payload \in 0 .. c - 1
      <4>1. o \div Payload < SectorsFor(L) /\ o \div Payload \in Nat
        BY <3>1, OffsetInRow, Division
      <4>2. c = SectorsFor(L)
        BY <1>7
      <4> QED
        BY <4>1, <4>2
    <3>3. disk'[f[o \div Payload]] = disk[f[o \div Payload]]
      BY <1>11, <1>16, <3>2
    <3> QED
      BY <1>6, <1>7, <3>3 DEF Source, Reads
  <2> QED
    BY <1>1, <1>6, <2>1 DEF Reads
<1>21. AtPut(f, S)'
  <2>1. Source(f)'
    BY <1>1, <1>7, <1>20 DEF Source
  <2>2. Complete(held, f, S, EndOf, SectorsFor(EndOf))'
    BY <1>9, <1>18, <1>19 DEF SectorsFor
  <2> QED
    BY <1>1, <1>6, <1>7, <1>8, <2>1, <2>2 DEF AtPut
<1>22. HeldInv(f, S)'
  BY <1>1, <1>21 DEF HeldInv
<1>23. RoomInv(S)'
  BY <1>1, <1>3 DEF RoomInv, Available, SectorsFor
<1>24. \A t \in used \ own[held] : disk'[t] = disk[t]
  BY <1>3, <1>8, <1>11 DEF TypeInv
<1> QED
  BY <1>1, <1>3, <1>12, <1>13, <1>14, <1>22, <1>23, <1>24, SameFile

-----------------------------------------------------------------------------
(* What a part of the source does to the text.                             *)

LEMMA SourceSplits ==
  ASSUME NEW data \in Seq(Byte), NEW p \in Nat, p > 0, p <= Len(data)
  PROVE  /\ SubSeq(data, 1, p) \in Seq(Byte) /\ Len(SubSeq(data, 1, p)) = p
         /\ SubSeq(data, p + 1, Len(data)) \in Seq(Byte)
         /\ Len(SubSeq(data, p + 1, Len(data))) = Len(data) - p
<1>1. Len(data) \in Nat /\ \A i \in 1 .. Len(data) : data[i] \in Byte
  BY ElementOfSeq, LenProperties
<1>2. \A i \in 1 .. p : data[i] \in Byte
  BY <1>1
<1>3. \A i \in p + 1 .. Len(data) : data[i] \in Byte
  BY <1>1
<1>4. 1 \in Int /\ p \in Int /\ p + 1 \in Int /\ Len(data) \in Int
  BY <1>1
<1>5. /\ SubSeq(data, 1, p) \in Seq(Byte)
      /\ Len(SubSeq(data, 1, p)) = IF 1 <= p THEN p - 1 + 1 ELSE 0
  BY <1>2, <1>4, SubSeqProperties
<1>6. /\ SubSeq(data, p + 1, Len(data)) \in Seq(Byte)
      /\ Len(SubSeq(data, p + 1, Len(data))) =
           IF p + 1 <= Len(data) THEN Len(data) - (p + 1) + 1 ELSE 0
  BY <1>3, <1>4, SubSeqProperties
<1> QED
  BY <1>1, <1>5, <1>6

LEMMA TextOverwritten ==
  ASSUME NEW old \in Seq(Byte), NEW from \in Nat, from <= Len(old), NEW data \in Seq(Byte),
         NEW M \in Nat, M = IF Len(old) >= from + Len(data) THEN Len(old) ELSE from + Len(data)
  PROVE  /\ Overwritten(old, from, data) \in Seq(Byte)
         /\ Len(Overwritten(old, from, data)) = M
         /\ \A i \in 1 .. M : Overwritten(old, from, data)[i] =
              IF i > from /\ i <= from + Len(data) THEN data[i - from] ELSE old[i]
<1> DEFINE e(i) == IF i > from /\ i <= from + Len(data) THEN data[i - from] ELSE old[i]
           t == [i \in 1 .. M |-> e(i)]
<1>1. Len(old) \in Nat /\ Len(data) \in Nat
  BY LenProperties
<1>2. Overwritten(old, from, data) = t
  <2>1. Max({Len(old), from + Len(data)}) = M
    BY <1>1, MaxOfTwo
  <2> QED
    BY <2>1 DEF Overwritten
<1>3. ASSUME NEW i \in 1 .. M
      PROVE  e(i) \in Byte
  <2>1. CASE i > from /\ i <= from + Len(data)
    <3>1. i - from \in 1 .. Len(data)
      BY <1>1, <2>1
    <3> QED
      BY <2>1, <3>1, ElementOfSeq
  <2>2. CASE ~ (i > from /\ i <= from + Len(data))
    <3>1. i \in 1 .. Len(old)
      BY <1>1, <2>2
    <3> QED
      BY <2>2, <3>1, ElementOfSeq
  <2> QED
    BY <2>1, <2>2
<1>4. t \in [1 .. M -> Byte]
  BY <1>3
<1>5. t \in Seq(Byte) /\ Len(t) = M
  <2> HIDE DEF t
  <2>1. t \in Seq(Byte)
    BY <1>4, SeqDef
  <2> QED
    BY <1>4, <2>1, LenProperties
<1> QED
  BY <1>2, <1>5

(* Where a part is written: into the sector of the seek offset, in a file  *)
(* that is long enough.                                                    *)
LEMMA PutSetting ==
  ASSUME TypeInv, CleanInv, 0 .. System - 1 \subseteq used, held \in Name,
         NEW f \in Row, NEW S, HeldInv(f, S),
         pc = "put" \/ (pc = "write" /\ ~ Grows),
         NEW L \in Nat, L = Len(text[held]), NEW p \in Nat, p = Part
  PROVE  /\ Source(f) /\ file.seek <= L /\ EndOf = file.seek + p
         /\ job.sector = f[file.seek \div Payload]
         /\ \E M \in Nat : /\ M = IF L >= file.seek + p THEN L ELSE file.seek + p
                           /\ Complete(held, f, S, M, SectorsFor(M))
         /\ file.seek < L => L % Payload # 0 /\ file.seek + Len(job.data) <= L
<1>1. CASE pc = "put"
  <2>1. AtPut(f, S)
    BY <1>1 DEF HeldInv
  <2>2. file.seek \in Nat /\ file.seek = L /\ Source(f) /\ job.data # <<>>
    BY <2>1 DEF AtPut, Source, TypeInv
  <2>3. EndOf = file.seek + p /\ p > 0
    BY <2>2, PartType
  <2>4. Complete(held, f, S, EndOf, SectorsFor(EndOf)) /\ job.sector = f[file.seek \div Payload]
    BY <2>1 DEF AtPut
  <2>5. PICK M \in Nat : M = file.seek + p
    BY <2>2
  <2>6. M = IF L >= file.seek + p THEN L ELSE file.seek + p
    BY <2>2, <2>3, <2>5
  <2>7. Complete(held, f, S, M, SectorsFor(M))
    BY <2>3, <2>4, <2>5
  <2>8. ~ (file.seek < L) /\ file.seek <= L
    BY <2>2
  <2> QED
    BY <2>2, <2>3, <2>4, <2>6, <2>7, <2>8
<1>2. CASE pc = "write" /\ ~ Grows
  <2>1. AtWrite(f, S)
    BY <1>2 DEF HeldInv
  <2>2. /\ file.seek \in Nat /\ Source(f) /\ job.data # <<>> /\ Fits(f)
        /\ Complete(held, f, S, L, SectorsFor(L))
    BY <2>1 DEF AtWrite, Source, TypeInv
  <2>3. file.seek < L /\ file.seek <= L
    <3>1. file.seek = L => Grows
      BY <1>2, <2>1, GrowthDecided
    <3> QED
      BY <1>2, <2>2, <3>1 DEF Fits
  <2>4. /\ L % Payload # 0 /\ file.seek + Len(job.data) <= L
        /\ job.sector = f[file.seek \div Payload]
    BY <2>2, <2>3 DEF Fits
  <2>5. EndOf = file.seek + p /\ p <= Len(job.data) /\ Len(job.data) \in Nat
    BY <2>2, PartType
  <2>6. L = IF L >= file.seek + p THEN L ELSE file.seek + p
    BY <2>2, <2>4, <2>5
  <2> QED
    BY <2>2, <2>3, <2>4, <2>5, <2>6
<1> QED
  BY <1>1, <1>2

(* Offset o lies in the part exactly when it lies in its sector and there  *)
(* between the part's ends.                                                *)
LEMMA PartInSector ==
  ASSUME NEW n \in Nat, NEW p \in Nat, p <= Payload - (n % Payload), NEW o \in Nat
  PROVE  /\ (o \div Payload = n \div Payload) =>
              /\ o >= n <=> o % Payload >= n % Payload
              /\ o < n + p <=> o % Payload < (n % Payload) + p
              /\ (o % Payload) - (n % Payload) = o - n
         /\ o >= n /\ o < n + p => o \div Payload = n \div Payload
<1>1. PICK a \in Nat : a = n \div Payload
  BY Division
<1>2. PICK b \in 0 .. Payload - 1 : b = n % Payload
  BY Division
<1>3. PICK c \in Nat : c = o \div Payload
  BY Division
<1>4. PICK d \in 0 .. Payload - 1 : d = o % Payload
  BY Division
<1>5. n = Payload * a + b /\ o = Payload * c + d
  BY <1>1, <1>2, <1>3, <1>4, Division
<1>6. c = a => o - n = d - b
  BY <1>5, PayloadType
<1>7. ASSUME o >= n, o < n + p
      PROVE  c = a
  <2>1. PICK m \in 0 .. Payload - 1 : o = Payload * a + m
    <3>1. PICK A \in Nat : A = Payload * a
      BY PayloadType
    <3>2. o = A + (o - A) /\ o - A \in 0 .. Payload - 1
      BY <1>2, <1>5, <1>7, <3>1, PayloadType
    <3> QED
      BY <3>1, <3>2
  <2> QED
    BY <1>3, <2>1, DivisionIsUnique
<1>8. /\ c = a => (o >= n <=> d >= b) /\ (o < n + p <=> d < b + p) /\ d - b = o - n
      /\ o >= n /\ o < n + p => c = a
  BY <1>6, <1>7, PayloadType
<1> QED
  BY <1>1, <1>2, <1>3, <1>4, <1>8

(* p bytes, `now', are written at offset n of the row f, whose text `old'  *)
(* becomes `new' and M bytes long.                                         *)
PartWritten(f, old, new, now, n, p, M) ==
  /\ p > 0 /\ p <= Payload - (n % Payload) /\ n <= Len(old)
  /\ M = IF Len(old) >= n + p THEN Len(old) ELSE n + p
  /\ Len(new) = M
  /\ \A i \in 1 .. M : new[i] = IF i > n /\ i <= n + p THEN now[i - n] ELSE old[i]
  /\ Linked(f, SectorsFor(M)) /\ Reads(f, old)
  /\ \A i \in 0 .. SectorsFor(M) - 1 : i # n \div Payload => disk'[f[i]] = disk[f[i]]
  /\ disk'[f[n \div Payload]].bytes =
       [r \in 0 .. Payload - 1 |->
          IF r >= n % Payload /\ r < (n % Payload) + p
            THEN now[r - (n % Payload) + 1] ELSE disk[f[n \div Payload]].bytes[r]]

(* Writing the part changes just these bytes of the file.                  *)
LEMMA PartRead ==
  ASSUME NEW f, NEW old \in Seq(Byte), NEW new \in Seq(Byte), NEW now,
         NEW n \in Nat, NEW p \in Nat, NEW M \in Nat, PartWritten(f, old, new, now, n, p, M)
  PROVE  Reads(f, new)'
<1> USE DEF PartWritten
<1> SUFFICES ASSUME NEW o \in 0 .. M - 1
             PROVE  disk'[f[o \div Payload]].bytes[o % Payload] = new[o + 1]
  BY DEF Reads
<1>1. o \in Nat /\ o < M /\ o + 1 \in 1 .. M
  OBVIOUS
<1>2. PICK q \in Nat : q = n \div Payload
  BY Division
<1>3. PICK b \in 0 .. Payload - 1 : b = n % Payload
  BY Division
<1>4. PICK c \in Nat : c = o \div Payload
  BY <1>1, Division
<1>5. PICK r \in 0 .. Payload - 1 : r = o % Payload
  BY <1>1, Division
<1>6. /\ c = q => (o >= n <=> r >= b) /\ (o < n + p <=> r < b + p) /\ r - b = o - n
      /\ o >= n /\ o < n + p => c = q
  BY <1>1, <1>2, <1>3, <1>4, <1>5, PartInSector
<1>7. c \in 0 .. SectorsFor(M) - 1
  <2>1. c < SectorsFor(M) /\ SectorsFor(M) \in Nat
    BY <1>1, <1>4, OffsetInRow, Rounding
  <2> QED
    BY <2>1
<1>8. new[o + 1] = IF o >= n /\ o < n + p THEN now[(o - n) + 1] ELSE old[o + 1]
  <2>1. new[o + 1] = IF o + 1 > n /\ o + 1 <= n + p THEN now[(o + 1) - n] ELSE old[o + 1]
    BY <1>1
  <2>2. (o + 1 > n <=> o >= n) /\ (o + 1 <= n + p <=> o < n + p) /\ (o + 1) - n = (o - n) + 1
    BY <1>1
  <2> QED
    BY <2>1, <2>2
<1>9. ~ (o >= n /\ o < n + p) => disk[f[c]].bytes[r] = old[o + 1]
  <2> SUFFICES ASSUME ~ (o >= n /\ o < n + p)
               PROVE  disk[f[c]].bytes[r] = old[o + 1]
    OBVIOUS
  <2>1. Len(old) \in Nat
    BY LenProperties
  <2>2. o \in 0 .. Len(old) - 1
    BY <1>1, <2>1
  <2> QED
    BY <1>4, <1>5, <2>2 DEF Reads
<1>10. CASE c = q
  <2>1. disk'[f[c]].bytes[r] = IF r >= b /\ r < b + p THEN now[(r - b) + 1] ELSE disk[f[c]].bytes[r]
    BY <1>2, <1>3, <1>5, <1>10
  <2>2. r >= b /\ r < b + p <=> o >= n /\ o < n + p
    BY <1>6, <1>10
  <2>3. r - b = o - n
    BY <1>6, <1>10
  <2> QED
    BY <1>4, <1>5, <1>8, <1>9, <2>1, <2>2, <2>3
<1>11. CASE c # q
  <2>1. disk'[f[c]] = disk[f[c]]
    BY <1>2, <1>7, <1>11
  <2> QED
    BY <1>4, <1>5, <1>6, <1>8, <1>9, <1>11, <2>1
<1> QED
  BY <1>10, <1>11

LEMMA PutStep ==
  ASSUME TypeInv, DirectoryInv, CleanInv,
         NEW row \in Rows, NEW own \in Owns, Layout(row, own), Put
  PROVE  IInv' /\ SystemSame
<1>1. /\ pc = "put" \/ (pc = "write" /\ ~ Grows)
      /\ pc \notin {"idle", "clear", "mark"}
      /\ directory' = directory /\ used' = used /\ held' = held
  BY DEF Put
<1>2. held \in Name /\ 0 .. System - 1 \subseteq used
  BY <1>1, Setting
<1>3. PICK f \in Row, S \in SUBSET FileSector :
        /\ f = row[held] /\ S = own[held] /\ S \subseteq used
        /\ HeldInv(f, S) /\ RoomInv(S)
  BY <1>1, Setting
<1>4. text[held] # None /\ job.data # <<>> /\ text[held] \in Seq(Byte)
  <2>1. AtPut(f, S) \/ AtWrite(f, S)
    BY <1>1, <1>3 DEF HeldInv
  <2>2. Source(f)
    BY <2>1 DEF AtPut, AtWrite
  <2> QED
    BY <1>2, <2>2 DEF Source, TypeInv
<1>5. PICK L \in Nat : L = Len(text[held])
  BY <1>4
<1>6. PICK old \in Seq(Byte) : old = text[held] /\ Len(old) = L
  BY <1>4, <1>5
<1>7. PICK n \in Nat : n = file.seek
  BY DEF TypeInv
<1>8. PICK D \in Nat : D = Len(job.data)
  BY DEF TypeInv
<1>9. PICK p \in Nat : /\ p = Part /\ p > 0 /\ p <= D /\ p <= Payload - (n % Payload)
                       /\ p = D \/ p = Payload - (n % Payload)
  BY <1>4, <1>7, <1>8, PartType
<1>10. /\ Source(f) /\ n <= L /\ EndOf = n + p /\ job.sector = f[n \div Payload]
       /\ n < L => L % Payload # 0 /\ n + D <= L
  BY <1>1, <1>2, <1>3, <1>5, <1>7, <1>8, <1>9, PutSetting
<1>11. PICK M \in Nat : /\ M = IF L >= n + p THEN L ELSE n + p
                        /\ Complete(held, f, S, M, SectorsFor(M))
  BY <1>1, <1>2, <1>3, <1>5, <1>7, <1>9, PutSetting
<1>12. PICK c \in Nat : c = SectorsFor(M) /\ c > 0
  <2>1. M # 0
    BY <1>9, <1>11
  <2> QED
    BY <2>1, Rounding
<1>13. /\ Complete(held, f, S, M, c) /\ Linked(f, c) /\ S = Taken(f, c)
       /\ Ends(f, c, M % Payload) /\ Entered(held, f[0], c) /\ file.first = f[0]
  BY <1>10, <1>11, <1>12 DEF Complete, Source
<1>14. PICK q \in Nat : q = n \div Payload
  BY Division
<1>15. q \in 0 .. c - 1
  <2>1. n < M
    BY <1>9, <1>10, <1>11
  <2>2. q < SectorsFor(M)
    BY <1>14, <2>1, OffsetInRow
  <2> QED
    BY <1>12, <2>2
<1>16. PICK s \in FileSector : /\ s = f[q] /\ s = job.sector /\ s \in S
                               /\ \A i \in 0 .. c - 1 : i # q => f[i] # s
  BY <1>10, <1>13, <1>14, <1>15 DEF Linked, Taken
<1>17. PICK now \in Seq(Byte) : now = SubSeq(job.data, 1, Part) /\ Len(now) = p
  <2>1. job.data \in Seq(Byte)
    BY DEF TypeInv
  <2> QED
    BY <1>8, <1>9, <2>1, SourceSplits
<1>18. PICK rest \in Seq(Byte) :
        rest = SubSeq(job.data, Part + 1, Len(job.data)) /\ Len(rest) = D - p
  <2>1. job.data \in Seq(Byte)
    BY DEF TypeInv
  <2> QED
    BY <1>8, <1>9, <2>1, SourceSplits
<1>19. Len(rest) \in Nat /\ Len(rest) = D - p
  <2>1. Len(rest) = D - p
    BY <1>18, Zenon
  <2> QED
    BY <2>1, LenProperties
<1>20. PICK new \in Seq(Byte) :
        /\ new = Overwritten(old, n, now) /\ Len(new) = M
        /\ \A i \in 1 .. M : new[i] = IF i > n /\ i <= n + p THEN now[i - n] ELSE old[i]
  <2>1. M = IF Len(old) >= n + Len(now) THEN Len(old) ELSE n + Len(now)
    BY <1>6, <1>11, <1>17
  <2>2. n <= Len(old)
    BY <1>6, <1>10
  <2>3. /\ Overwritten(old, n, now) \in Seq(Byte)
        /\ Len(Overwritten(old, n, now)) = M
        /\ \A i \in 1 .. M : Overwritten(old, n, now)[i] =
             IF i > n /\ i <= n + Len(now) THEN now[i - n] ELSE old[i]
    BY <2>1, <2>2, TextOverwritten
  <2> QED
    BY <1>17, <2>3
<1>21. /\ file' = [file EXCEPT !.seek = n + p]
       /\ text' = [text EXCEPT ![held] = new]
       /\ job' = IF rest = <<>> THEN NoJob
                 ELSE [job EXCEPT !.sector = disk[s].next, !.data = rest]
       /\ pc' = IF rest = <<>> THEN "idle" ELSE "write"
  BY <1>6, <1>7, <1>9, <1>16, <1>17, <1>18, <1>20 DEF Put, TypeInv
<1>22. disk' = [disk EXCEPT ![s].bytes =
                [o \in 0 .. Payload - 1 |->
                   IF o >= n % Payload /\ o < (n % Payload) + p
                     THEN now[o - (n % Payload) + 1] ELSE disk[s].bytes[o]]]
  <2>1. s \in Sector
    BY <1>16, Constants
  <2> QED
    BY <1>7, <1>9, <1>16, <1>17, <2>1 DEF Put, TypeInv
<1>23. PICK b \in 0 .. Payload - 1 : b = n % Payload
  BY Division
<1>24. PICK x \in [0 .. Payload - 1 -> Byte] :
         x = [o \in 0 .. Payload - 1 |->
                IF o >= b /\ o < b + p THEN now[o - b + 1] ELSE disk[s].bytes[o]]
  <2>1. disk[s].bytes \in [0 .. Payload - 1 -> Byte]
    <3>1. s \in Sector
      BY <1>16, Constants
    <3> QED
      BY <3>1 DEF TypeInv, Content
  <2>2. ASSUME NEW o \in 0 .. Payload - 1, o >= b, o < b + p
        PROVE  now[o - b + 1] \in Byte
    <3>1. o - b + 1 \in 1 .. Len(now)
      BY <1>17, <2>2
    <3> QED
      BY <1>17, <3>1, ElementOfSeq
  <2> QED
    BY <2>1, <2>2
<1>25. /\ disk' \in [Sector -> Content] /\ s \in Sector
       /\ \A t \in Sector : /\ disk'[t].next = disk[t].next
                            /\ disk'[t].size = disk[t].size
                            /\ t # s => disk'[t] = disk[t]
       /\ disk'[s].bytes = x
  <2>1. disk \in [Sector -> Content] /\ s \in Sector
    BY <1>16, Constants DEF TypeInv
  <2>2. disk' = [disk EXCEPT ![s].bytes = x]
    BY <1>22, <1>23, <1>24
  <2>3. PICK y \in Content : y = [disk[s] EXCEPT !.bytes = x]
    <3>1. disk[s] \in Content
      BY <2>1
    <3> QED
      BY <3>1 DEF Content
  <2>4. y.next = disk[s].next /\ y.size = disk[s].size /\ y.bytes = x
    BY <2>1, <2>3 DEF Content
  <2>5. disk' = [disk EXCEPT ![s] = y]
    BY <2>2, <2>3
  <2> QED
    BY <2>1, <2>4, <2>5
<1>26. /\ text' \in [Name -> {None} \cup Seq(Byte)] /\ text'[held] = new
       /\ \A m \in Name \ {held} : text'[m] = text[m]
  BY <1>2, <1>21 DEF TypeInv
<1>27. new # None
  BY Constants
<1>28. /\ file' \in [first : Sector, seek : Nat]
       /\ file'.first = f[0] /\ file'.seek = n + p
  <2>1. file' = [file EXCEPT !.seek = n + p] /\ n + p \in Nat
    BY <1>21
  <2> QED
    BY <1>13, <2>1 DEF TypeInv
<1>29. /\ job' \in [name : Name \cup {None}, length : Nat, sector : Sector, left : Nat,
                   data : Seq(Byte)]
       /\ rest # <<>> => job'.sector = disk[s].next /\ job'.data = rest
  <2>1. CASE rest = <<>>
    <3>1. job' = NoJob
      BY <1>21, <2>1
    <3> QED
      BY <2>1, <3>1, Constants DEF NoJob
  <2>2. CASE rest # <<>>
    <3>1. disk[s].next \in Sector
      BY <1>25 DEF TypeInv, Content
    <3> QED
      BY <1>17, <1>21, <2>2, <3>1 DEF TypeInv
  <2> QED
    BY <2>1, <2>2
<1>30. TypeInv'
  BY <1>1, <1>21, <1>25, <1>26, <1>28, <1>29 DEF TypeInv
<1>31. DirectoryInv' /\ EntriesStay(held)
  BY <1>1 DEF DirectoryInv, EntriesStay
<1>32. CleanInv'
  BY <1>1, <1>3, <1>16, <1>21, <1>25 DEF CleanInv
<1>33. \A i \in Nat : f[i] \in Sector
  BY DEF Row
<1>34. Complete(held, f, S, M, c)'
  <2>1. Linked(f, c)'
    BY <1>13, <1>25, <1>33 DEF Linked
  <2>2. Ends(f, c, M % Payload)'
    BY <1>13, <1>25, <1>33 DEF Ends
  <2>3. Entered(held, f[0], c)' /\ (S = Taken(f, c))'
    BY <1>1, <1>13 DEF Entered, Taken
  <2>4. M # 0
    BY <1>9, <1>11
  <2> QED
    BY <1>12, <2>1, <2>2, <2>3, <2>4 DEF Complete, SectorsFor
<1>35. Reads(f, new)'
  <2>1. \A i \in 0 .. SectorsFor(M) - 1 : i # n \div Payload => disk'[f[i]] = disk[f[i]]
    BY <1>12, <1>14, <1>16, <1>25, <1>33
  <2>2. Reads(f, old) /\ Linked(f, SectorsFor(M))
    BY <1>6, <1>10, <1>12, <1>13 DEF Source
  <2>3. disk'[f[n \div Payload]].bytes = [o \in 0 .. Payload - 1 |->
          IF o >= n % Payload /\ o < (n % Payload) + p
            THEN now[o - (n % Payload) + 1] ELSE disk[f[n \div Payload]].bytes[o]]
    BY <1>14, <1>16, <1>23, <1>24, <1>25
  <2>4. M = IF Len(old) >= n + p THEN Len(old) ELSE n + p
    BY <1>6, <1>11
  <2>5. p > 0 /\ p <= Payload - (n % Payload) /\ n <= Len(old)
    BY <1>6, <1>9, <1>10
  <2>6. /\ Len(new) = M
        /\ \A i \in 1 .. M : new[i] = IF i > n /\ i <= n + p THEN now[i - n] ELSE old[i]
    BY <1>20, Zenon
  <2>7. PartWritten(f, old, new, now, n, p, M)
    BY <2>1, <2>2, <2>3, <2>4, <2>5, <2>6, Zenon DEF PartWritten
  <2> QED
    BY <2>7, PartRead
<1>36. Reads(f, text[held])' /\ Len(text'[held']) = M /\ text'[held'] # None
  BY <1>1, <1>20, <1>26, <1>27, <1>35 DEF Reads
<1>37. Whole(held, f, S)'
  BY <1>1, <1>12, <1>34, <1>36 DEF Whole, SectorsFor
<1>38. HeldInv(f, S)'
  <2>1. CASE rest = <<>>
    <3>1. pc' = "idle"
      BY <1>21, <2>1
    <3>2. n + p <= M
      BY <1>11
    <3>3. AtIdle(f)'
      BY <1>28, <1>36, <3>2 DEF AtIdle
    <3> QED
      BY <3>1, <3>3 DEF HeldInv
  <2>2. CASE rest # <<>>
    <3>1. pc' = "write" /\ job'.sector = disk[s].next /\ job'.data = rest
      BY <1>21, <1>29, <2>2
    <3>2. p # D
      <4>1. Len(rest) # 0
        BY <2>2
      <4> QED
        BY <1>18, <4>1
    <3>3. Source(f)'
      BY <1>28, <1>36, <2>2, <3>1 DEF Source
    <3>4. n + p <= M
      BY <1>11
    <3>5. ASSUME n + p < M
          PROVE  /\ M % Payload # 0 /\ (n + p) + Len(rest) <= M
                 /\ job'.sector = f[(n + p) \div Payload]
      <4>1. M = L /\ n < L
        BY <1>9, <1>11, <3>5
      <4>2. M % Payload # 0 /\ n + D <= M
        BY <1>10, <4>1
      <4>3. (n + p) \div Payload = q + 1
        <5>1. n = Payload * q + b /\ p = Payload - b
          BY <1>9, <1>14, <1>23, <3>2, Division
        <5>2. n + p = Payload * (q + 1) + 0 /\ 0 \in 0 .. Payload - 1
          BY <5>1, PayloadType
        <5> QED
          BY <5>2, DivisionIsUnique
      <4>4. q + 1 \in 0 .. c - 1
        <5>1. q + 1 < SectorsFor(M)
          BY <3>5, <4>3, OffsetInRow
        <5> QED
          BY <1>12, <5>1
      <4>5. disk[f[q]].next = f[q + 1]
        BY <1>13, <4>4 DEF Linked
      <4>6. job'.sector = f[(n + p) \div Payload]
        BY <1>16, <3>1, <4>3, <4>5
      <4>7. (n + p) + Len(rest) <= M
        BY <1>19, <4>2
      <4> QED
        BY <4>2, <4>6, <4>7
    <3>6. Fits(f)'
      BY <1>28, <1>36, <3>1, <3>4, <3>5 DEF Fits
    <3>7. AtWrite(f, S)'
      BY <1>1, <1>12, <1>34, <1>36, <3>3, <3>6 DEF AtWrite, SectorsFor
    <3> QED
      BY <3>1, <3>7 DEF HeldInv
  <2> QED
    BY <2>1, <2>2
<1>39. RoomInv(S)'
  <2>1. CASE rest = <<>>
    <3>1. pc' = "idle"
      BY <1>21, <2>1
    <3> QED
      BY <3>1 DEF RoomInv
  <2>2. CASE rest # <<>>
    <3>1. pc' = "write" /\ job'.data = rest
      BY <1>21, <1>29, <2>2
    <3>2. (n + p) + Len(rest) = n + D
      BY <1>19
    <3>3. SectorsFor(n + D) <= Cardinality(Available(S))
      BY <1>1, <1>3, <1>7, <1>8 DEF RoomInv
    <3> QED
      BY <1>1, <1>28, <3>1, <3>2, <3>3 DEF RoomInv, Available, SectorsFor
  <2> QED
    BY <2>1, <2>2
<1>40. \A t \in used \ own[held] : disk'[t] = disk[t]
  BY <1>3, <1>16, <1>25 DEF TypeInv
<1>41. \A m \in Name \ {held} : ~ InUse(m) /\ text[m] # <<>> /\ text'[m] = text[m]
  BY <1>1, <1>26, Working
<1>42. PICK h \in Name : h = held
  BY <1>2
<1> QED
  BY <1>1, <1>3, <1>30, <1>31, <1>32, <1>37, <1>38, <1>39, <1>40, <1>41, <1>42, Installed

-----------------------------------------------------------------------------
(* Deleting.                                                               *)

LEMMA GoToType ==
  ASSUME TypeInv, NEW place, GoTo(place)
  PROVE  /\ file' \in [first : Sector, seek : Nat] /\ held' \in Name \cup {None}
         /\ pc' = place
         /\ place = "idle" => held' = None
         /\ place # "idle" => held' = held /\ file' = file
BY Constants DEF TypeInv, GoTo, NoFile

(* The last sector of the old file is free again.                          *)
LEMMA Deleted ==
  ASSUME TypeInv, NEW row \in Rows, NEW own \in Owns, Layout(row, own),
         pc \in {"delete", "clear"}, own[held] = {}, used' = used,
         \A s \in used : disk'[s] = disk[s],
         text' = text, text[held] = None, job.name \in {None, held},
         job'.name = job.name, job'.length = job.length, GoTo(AfterDelete),
         \A e \in Entry : directory'[e].name # held,
         EntriesStay(held), TypeInv', DirectoryInv', CleanInv'
  PROVE  IInv' /\ SystemSame
<1>1. /\ held' \in {held, None} /\ pc' = AfterDelete
      /\ pc' = "idle" => held' = None
      /\ pc' # "idle" => held' = held
  BY GoToType
<1>2. held \in Name /\ held # None /\ RoomInv(own[held])
  BY Working, Constants
<1>3. PICK f \in Row : f = row[held]
  BY <1>2, Owned
<1>4. PICK S \in SUBSET FileSector : S = own[held] /\ S = {}
  OBVIOUS
<1>5. PICK h \in Name : h = held
  BY <1>2
<1>6. text'[h] = None /\ None # <<>>
  BY <1>5, Constants, EmptySeq
<1>7. Whole(h, f, S)'
  <2>1. Nowhere(h)'
    BY <1>5 DEF Nowhere
  <2> QED
    BY <1>4, <1>6, <2>1 DEF Whole
<1>8. held' = h => pc' = "create" /\ job'.name = h
  BY <1>1, <1>2, <1>5 DEF AfterDelete
<1>9. held' = h => HeldInv(f, S)'
  <2> SUFFICES ASSUME held' = h
               PROVE  HeldInv(f, S)'
    OBVIOUS
  <2>1. AtCreate(S)'
    BY <1>4, <1>5, <1>6, <1>8 DEF AtCreate, Nowhere
  <2> QED
    BY <1>8, <2>1 DEF HeldInv
<1>10. held' = h => RoomInv(S)'
  BY <1>2, <1>4, <1>5, <1>8 DEF RoomInv, Available, SectorsFor
<1>11. \A n \in Name \ {h} : ~ InUse(n) /\ text[n] # <<>> /\ text'[n] = text[n]
  BY <1>5, Working
<1>12. used' = (used \ own[h]) \cup S /\ S \cap (used \ own[h]) = {}
  BY <1>4, <1>5
<1>13. held' \in {h, None} /\ (pc' # "idle" => held' = h)
  BY <1>1, <1>5
<1>14. \A s \in used \ own[h] : disk'[s] = disk[s]
  OBVIOUS
<1>15. EntriesStay(h)
  BY <1>5
<1> QED
  BY <1>6, <1>7, <1>9, <1>10, <1>11, <1>12, <1>13, <1>14, <1>15, Installed

LEMMA ClearEntryStep ==
  ASSUME TypeInv, DirectoryInv, CleanInv,
         NEW row \in Rows, NEW own \in Owns, Layout(row, own), ClearEntry
  PROVE  IInv' /\ SystemSame
<1>1. /\ pc = "delete" /\ used' = used /\ disk' = disk /\ text' = text
  BY DEF ClearEntry
<1>2. held \in Name /\ 0 .. System - 1 \subseteq used
  BY <1>1, Setting
<1>3. PICK f \in Row, S \in SUBSET FileSector :
        /\ f = row[held] /\ S = own[held] /\ S \subseteq used
        /\ HeldInv(f, S) /\ RoomInv(S)
  BY <1>1, Setting
<1>4. AtDelete(f, S)
  BY <1>1, <1>3 DEF HeldInv
<1>5. text[held] = None /\ job.name \in {None, held} /\ file.first = f[0]
  BY <1>4 DEF AtDelete
<1>6. PICK c \in Nat : /\ Entered(held, f[0], c) /\ S = Taken(f, c) /\ Linked(f, c)
                       /\ c = 0 => Spare(f[0])
  BY <1>4 DEF AtDelete
<1>7. f[0] \in FileSector /\ (f[0] \in own[held] \/ Spare(f[0])) /\ f[0] \in Sector
  <2>1. CASE c = 0
    BY <1>2, <1>6, <2>1, FreeSectorFound, Constants DEF Spare
  <2>2. CASE c # 0
    <3>1. 0 \in 0 .. c - 1
      BY <2>2
    <3>2. f[0] \in S /\ f[0] \in FileSector
      BY <1>6, <3>1 DEF Taken, Linked
    <3> QED
      BY <1>3, <3>2, Constants
  <2> QED
    BY <2>1, <2>2
<1>8. PICK d \in Entry : /\ directory[d] = [name |-> held, first |-> f[0], count |-> c]
                         /\ EntryAt(f[0]) = d /\ d # 0
  BY <1>1, <1>6, <1>7, FirstIsMine
<1>9. /\ directory' = [directory EXCEPT ![d] = NoEntry]
      /\ job' = [job EXCEPT !.sector = f[0], !.left = c]
      /\ GoTo(IF c = 0 THEN AfterDelete ELSE "free")
  <2>1. directory[d].count = c
    BY <1>8
  <2> QED
    BY <1>5, <1>8, <2>1 DEF ClearEntry
<1>10. /\ job' \in [name : Name \cup {None}, length : Nat, sector : Sector, left : Nat,
                   data : Seq(Byte)]
       /\ job'.name = job.name /\ job'.length = job.length
       /\ job'.left = c /\ job'.sector = f[0]
  BY <1>7, <1>9 DEF TypeInv
<1>11. /\ directory' \in [Entry -> [name : Name \cup {None}, first : Sector, count : Nat]]
       /\ directory'[d] = NoEntry /\ \A e \in Entry : e # d => directory'[e] = directory[e]
  <2>1. NoEntry \in [name : Name \cup {None}, first : Sector, count : Nat]
    BY Constants DEF NoEntry
  <2> QED
    BY <1>9, <2>1 DEF TypeInv
<1>12. pc' = IF c = 0 THEN AfterDelete ELSE "free"
  BY <1>9, GoToType
<1>13. TypeInv'
  <2>1. file' \in [first : Sector, seek : Nat] /\ held' \in Name \cup {None}
    BY <1>9, GoToType
  <2>2. pc' \in {"idle", "create", "free"}
    BY <1>12 DEF AfterDelete
  <2> QED
    BY <1>1, <1>10, <1>11, <2>1, <2>2 DEF TypeInv
<1>14. /\ DirectoryInv' /\ EntriesStay(held)
       /\ \A e \in Entry : directory'[e].name # held
  <2>1. held # None /\ directory'[d].name = None /\ directory[d].name = held
    BY <1>2, <1>8, <1>11, Constants DEF NoEntry
  <2>2. \A e \in Entry : e # d => directory[e].name # held
    BY <2>1 DEF DirectoryInv
  <2>3. DirectoryInv'
    BY <1>11, <2>1 DEF DirectoryInv
  <2>4. EntriesStay(held)
    BY <1>11, <2>1 DEF EntriesStay
  <2> QED
    BY <1>11, <2>1, <2>2, <2>3, <2>4
<1>15. CleanInv'
  BY <1>1 DEF CleanInv
<1>16. CASE c = 0
  <2>1. own[held] = {}
    BY <1>3, <1>6, <1>16 DEF Taken
  <2>2. GoTo(AfterDelete)
    BY <1>9, <1>16
  <2> QED
    BY <1>1, <1>5, <1>10, <1>13, <1>14, <1>15, <2>1, <2>2, Deleted
<1>17. CASE c # 0
  <2>1. pc' = "free" /\ held' = held /\ file' = file
    BY <1>9, <1>17, GoToType
  <2>2. AtFree(f, S)'
    <3>1. Nowhere(held)'
      BY <1>14, <2>1 DEF Nowhere
    <3>2. Linked(f, c)' /\ (S = Taken(f, c))'
      BY <1>1, <1>6 DEF Linked, Taken
    <3> QED
      BY <1>1, <1>5, <1>10, <1>17, <2>1, <3>1, <3>2 DEF AtFree
  <2>3. HeldInv(f, S)'
    BY <2>1, <2>2 DEF HeldInv
  <2>4. RoomInv(S)'
    BY <1>1, <1>3, <1>10, <2>1 DEF RoomInv, Available, SectorsFor
  <2> QED
    BY <1>1, <1>3, <1>13, <1>14, <1>15, <2>1, <2>3, <2>4, SameFile
<1> QED
  BY <1>16, <1>17

LEMMA MarkFreeStep ==
  ASSUME TypeInv, DirectoryInv, CleanInv,
         NEW row \in Rows, NEW own \in Owns, Layout(row, own), MarkFree
  PROVE  IInv' /\ SystemSame
<1>1. /\ pc = "free" /\ pc' = "clear" /\ used' = used \ {job.sector}
      /\ directory' = directory /\ disk' = disk /\ job' = job
      /\ file' = file /\ text' = text /\ held' = held
  BY DEF MarkFree
<1>2. held \in Name /\ 0 .. System - 1 \subseteq used
  BY <1>1, Setting
<1>3. PICK f \in Row, S \in SUBSET FileSector :
        /\ f = row[held] /\ S = own[held] /\ S \subseteq used
        /\ HeldInv(f, S) /\ RoomInv(S)
  BY <1>1, Setting
<1>4. AtFree(f, S)
  BY <1>1, <1>3 DEF HeldInv
<1>5. PICK k \in Nat : k = job.left
  BY DEF TypeInv
<1>6. /\ text[held] = None /\ job.name \in {None, held} /\ Nowhere(held)
      /\ k > 0 /\ job.sector = f[0] /\ Linked(f, k) /\ S = Taken(f, k)
  BY <1>4, <1>5 DEF AtFree
<1>7. f[0] \in S /\ f[0] \in Sector
  BY <1>6 DEF Taken, Row
<1>8. PICK T \in SUBSET FileSector : T = S \ {f[0]}
  OBVIOUS
<1>9. TypeInv'
  BY <1>1 DEF TypeInv
<1>10. DirectoryInv' /\ EntriesStay(held)
  BY <1>1 DEF DirectoryInv, EntriesStay
<1>11. CleanInv'
  BY <1>1 DEF CleanInv
<1>12. AtClear(f, T)'
  <2>1. Nowhere(held)' /\ Linked(f, k)' /\ (T = Taken(f, k) \ {f[0]})'
    BY <1>1, <1>6, <1>8 DEF Nowhere, Linked, Taken
  <2> QED
    BY <1>1, <1>5, <1>6, <2>1 DEF AtClear
<1>13. HeldInv(f, T)'
  BY <1>1, <1>12 DEF HeldInv
<1>14. Available(T)' = Available(S)
  BY <1>1, <1>6, <1>7, <1>8 DEF Available
<1>15. RoomInv(T)'
  BY <1>1, <1>3, <1>14 DEF RoomInv, SectorsFor
<1>16. used' = (used \ own[held]) \cup T /\ T \cap (used \ own[held]) = {}
  BY <1>1, <1>3, <1>6, <1>7, <1>8
<1> QED
  BY <1>1, <1>9, <1>10, <1>11, <1>13, <1>15, <1>16, SameFile

LEMMA ClearSectorStep ==
  ASSUME TypeInv, DirectoryInv, CleanInv,
         NEW row \in Rows, NEW own \in Owns, Layout(row, own), ClearSector
  PROVE  IInv' /\ SystemSame
<1>1. /\ pc = "clear" /\ used' = used /\ directory' = directory /\ text' = text
      /\ disk' = [disk EXCEPT ![job.sector] = Cleared]
      /\ job' = [job EXCEPT !.sector = disk[job.sector].next, !.left = @ - 1]
      /\ GoTo(IF job.left = 1 THEN AfterDelete ELSE "free")
  BY DEF ClearSector
<1>2. held \in Name /\ 0 .. System - 1 \subseteq used
  BY <1>1, Setting
<1>3. PICK f \in Row, S \in SUBSET FileSector :
        /\ f = row[held] /\ S = own[held] /\ S \subseteq used
        /\ HeldInv(f, S) /\ RoomInv(S)
  BY <1>1, Setting
<1>4. AtClear(f, S)
  BY <1>1, <1>3 DEF HeldInv
<1>5. PICK k \in Nat : k = job.left
  BY DEF TypeInv
<1>6. /\ text[held] = None /\ job.name \in {None, held} /\ Nowhere(held)
      /\ k > 0 /\ job.sector = f[0] /\ f[0] \notin used
      /\ Linked(f, k) /\ S = Taken(f, k) \ {f[0]}
  BY <1>4, <1>5 DEF AtClear
<1>7. f[0] \in Sector /\ disk[f[0]].next \in Sector
  <2>1. f[0] \in Sector
    BY DEF Row
  <2> QED
    BY <2>1 DEF TypeInv, Content
<1>8. /\ job' \in [name : Name \cup {None}, length : Nat, sector : Sector, left : Nat,
                  data : Seq(Byte)]
      /\ job'.name = job.name /\ job'.length = job.length
      /\ job'.left = k - 1 /\ job'.sector = disk[f[0]].next
  <2>1. k - 1 \in Nat
    BY <1>6
  <2> QED
    BY <1>1, <1>5, <1>6, <1>7, <2>1 DEF TypeInv
<1>9. /\ disk' \in [Sector -> Content] /\ disk'[f[0]] = Cleared
      /\ \A t \in Sector : t # f[0] => disk'[t] = disk[t]
  <2>1. Cleared \in Content
    BY Constants DEF Cleared, Zeros, Blank, Byte, Content
  <2> QED
    BY <1>1, <1>6, <1>7, <2>1 DEF TypeInv
<1>10. pc' = IF k = 1 THEN AfterDelete ELSE "free"
  BY <1>1, <1>5, GoToType
<1>11. TypeInv'
  <2>1. file' \in [first : Sector, seek : Nat] /\ held' \in Name \cup {None}
    BY <1>1, GoToType
  <2>2. pc' \in {"idle", "create", "free"}
    BY <1>10 DEF AfterDelete
  <2> QED
    BY <1>1, <1>8, <1>9, <2>1, <2>2 DEF TypeInv
<1>12. DirectoryInv' /\ EntriesStay(held)
  BY <1>1 DEF DirectoryInv, EntriesStay
<1>13. CleanInv'
  BY <1>1, <1>6, <1>9 DEF CleanInv
<1>14. \A t \in used : disk'[t] = disk[t]
  BY <1>6, <1>9 DEF TypeInv
<1>15. CASE k = 1
  <2>1. own[held] = {}
    BY <1>3, <1>6, <1>15 DEF Taken
  <2>2. GoTo(AfterDelete)
    BY <1>1, <1>5, <1>15
  <2>3. \A e \in Entry : directory'[e].name # held
    BY <1>1, <1>6 DEF Nowhere
  <2> QED
    BY <1>1, <1>6, <1>8, <1>11, <1>12, <1>13, <1>14, <2>1, <2>2, <2>3, Deleted
<1>16. CASE k # 1
  <2>1. pc' = "free" /\ held' = held /\ file' = file
    BY <1>1, <1>5, <1>16, GoToType
  <2>2. PICK j \in Nat : k = j + 1 /\ j > 0
    BY <1>6, <1>16
  <2>3. PICK g \in Row : g = [i \in Nat |-> f[i + 1]]
    <3>1. \A i \in Nat : f[i + 1] \in Sector
      BY DEF Row
    <3> QED
      BY <3>1 DEF Row
  <2>4. \A i \in Nat : g[i] = f[i + 1] /\ f[i] \in Sector
    BY <2>3 DEF Row
  <2>5. ASSUME NEW i \in 0 .. j - 1
        PROVE  g[i] # f[0] /\ g[i] \in FileSector /\ g[i] \in Sector
    <3>1. i + 1 \in 0 .. k - 1 /\ 0 \in 0 .. k - 1 /\ i + 1 # 0 /\ i \in Nat
      BY <2>2
    <3> QED
      BY <1>6, <2>4, <3>1, Constants DEF Linked
  <2>6. Linked(g, j)'
    <3>1. ASSUME NEW i \in 0 .. j - 1, NEW l \in 0 .. j - 1, g[i] = g[l]
          PROVE  i = l
      <4>1. i + 1 \in 0 .. k - 1 /\ l + 1 \in 0 .. k - 1 /\ i \in Nat /\ l \in Nat
        BY <2>2
      <4>2. f[i + 1] = f[l + 1]
        BY <2>4, <3>1, <4>1
      <4>3. i + 1 = l + 1
        BY <1>6, <4>1, <4>2 DEF Linked
      <4> QED
        BY <4>3
    <3>2. ASSUME NEW i \in 0 .. j - 2
          PROVE  disk'[g[i]].next = g[i + 1]
      <4>1. i + 1 \in 0 .. k - 2 /\ i \in Nat /\ i + 1 \in Nat /\ i \in 0 .. j - 1
        BY <2>2
      <4>2. disk[f[i + 1]].next = f[(i + 1) + 1]
        BY <1>6, <4>1 DEF Linked
      <4>3. disk'[g[i]] = disk[g[i]]
        BY <1>9, <2>5, <4>1
      <4> QED
        BY <2>4, <4>1, <4>2, <4>3
    <3> QED
      BY <2>5, <3>1, <3>2 DEF Linked
  <2>7. S = Taken(g, j)
    <3>1. ASSUME NEW s \in S
          PROVE  s \in Taken(g, j)
      <4>1. PICK i \in 0 .. k - 1 : s = f[i] /\ i # 0
        BY <1>6 DEF Taken
      <4>2. i - 1 \in 0 .. j - 1 /\ i - 1 \in Nat /\ (i - 1) + 1 = i
        BY <2>2, <4>1
      <4> QED
        BY <2>4, <4>1, <4>2 DEF Taken
    <3>2. ASSUME NEW i \in 0 .. j - 1
          PROVE  g[i] \in S
      <4>1. i + 1 \in 0 .. k - 1 /\ i \in Nat
        BY <2>2
      <4> QED
        BY <1>6, <2>4, <2>5, <4>1 DEF Taken
    <3> QED
      BY <3>1, <3>2 DEF Taken
  <2>8. job'.sector = g[0]
    <3>1. 0 \in 0 .. k - 2
      BY <2>2
    <3> QED
      BY <1>6, <1>8, <2>4, <3>1 DEF Linked
  <2>9. AtFree(g, S)'
    <3>1. Nowhere(held)' /\ (S = Taken(g, j))'
      BY <1>1, <1>6, <2>1, <2>7 DEF Nowhere, Taken
    <3>2. job'.left = j
      BY <1>8, <2>2
    <3> QED
      BY <1>1, <1>6, <1>8, <2>1, <2>2, <2>6, <2>8, <3>1, <3>2 DEF AtFree
  <2>10. HeldInv(g, S)'
    BY <2>1, <2>9 DEF HeldInv
  <2>11. RoomInv(S)'
    BY <1>1, <1>3, <1>8, <2>1 DEF RoomInv, Available, SectorsFor
  <2>12. \A t \in used \ own[held] : disk'[t] = disk[t]
    BY <1>14
  <2> QED
    BY <1>1, <1>3, <1>11, <1>12, <1>13, <2>1, <2>10, <2>11, <2>12, SameFile
<1> QED
  BY <1>15, <1>16

-----------------------------------------------------------------------------
(* Creating.                                                               *)

LEMMA WriteEntryStep ==
  ASSUME TypeInv, DirectoryInv, CleanInv,
         NEW row \in Rows, NEW own \in Owns, Layout(row, own), WriteEntry
  PROVE  IInv' /\ SystemSame
<1>1. /\ pc = "create" /\ FreeEntry # 0 /\ FreeSector # 0
      /\ used' = used /\ disk' = disk /\ file' = file /\ text' = text /\ held' = held
  BY DEF WriteEntry
<1>2. held \in Name /\ held # None /\ 0 .. System - 1 \subseteq used
  BY <1>1, Setting, Constants
<1>3. PICK f \in Row, S \in SUBSET FileSector :
        /\ f = row[held] /\ S = own[held] /\ S \subseteq used
        /\ HeldInv(f, S) /\ RoomInv(S)
  BY <1>1, Setting
<1>4. AtCreate(S)
  BY <1>1, <1>3 DEF HeldInv
<1>5. text[held] = None /\ job.name = held /\ Nowhere(held) /\ S = {}
  BY <1>4 DEF AtCreate
<1>6. PICK z \in FileSector \ used : z = FreeSector /\ z # 0 /\ z \in Sector
  BY <1>1, <1>2, FreeSectorFound, Constants
<1>7. PICK l \in Nat : l = job.length
  BY DEF TypeInv
<1>8. PICK c \in Nat : c = SectorsFor(l) /\ (c = 0 <=> l = 0)
  BY Rounding
<1>9. PICK d \in Entry : d = FreeEntry /\ directory[d].name = None
  <2> DEFINE E == {e \in 1 .. Entries - 1 : directory[e].first = 0}
  <2>1. E \in SUBSET Nat /\ FreeEntry = Lowest(E)
    BY DEF FreeEntry
  <2>2. FreeEntry \in E
    <3> HIDE DEF E
    <3> QED
      BY <1>1, <2>1, LowestFound
  <2>3. FreeEntry \in Entry /\ directory[FreeEntry].first = 0
    BY <2>2, Constants DEF Entry
  <2> QED
    BY <2>3, Constants DEF DirectoryInv
<1>10. PICK x \in [name : Name \cup {None}, first : Sector, count : Nat] :
         x = [name |-> held, first |-> z, count |-> c]
  BY <1>2, <1>6
<1>11. /\ directory' \in [Entry -> [name : Name \cup {None}, first : Sector, count : Nat]]
       /\ directory'[d] = x /\ \A e \in Entry : e # d => directory'[e] = directory[e]
  <2>1. directory' = [directory EXCEPT ![d] = x]
    BY <1>5, <1>6, <1>7, <1>8, <1>9, <1>10 DEF WriteEntry
  <2> QED
    BY <2>1 DEF TypeInv
<1>12. /\ job' \in [name : Name \cup {None}, length : Nat, sector : Sector, left : Nat,
                   data : Seq(Byte)]
       /\ job'.name = held /\ job'.length = l /\ job'.left = c
       /\ pc' = IF c = 0 THEN "open" ELSE "take"
  BY <1>5, <1>7, <1>8 DEF WriteEntry, TypeInv
<1>13. TypeInv'
  BY <1>1, <1>11, <1>12 DEF TypeInv
<1>14. DirectoryInv' /\ EntriesStay(held)
  <2>1. x.name = held /\ x.first = z
    BY <1>10
  <2>2. EntriesStay(held)
    BY <1>9, <1>11, <2>1 DEF EntriesStay
  <2>3. DirectoryInv'
    BY <1>2, <1>5, <1>11, <2>1 DEF DirectoryInv, Nowhere
  <2> QED
    BY <2>2, <2>3
<1>15. CleanInv'
  BY <1>1 DEF CleanInv
<1>16. PICK g \in Row : g[0] = z
  <2>1. [f EXCEPT ![0] = z] \in Row /\ [f EXCEPT ![0] = z][0] = z
    BY <1>6 DEF Row
  <2> QED
    BY <2>1
<1>17. Entered(held, g[0], c)'
  BY <1>1, <1>10, <1>11, <1>16 DEF Entered
<1>18. Spare(g[0])'
  BY <1>1, <1>6, <1>16 DEF Spare, FreeSector, Lowest
<1>19. HeldInv(g, S)'
  <2>1. CASE c = 0
    <3>1. (/\ S = Taken(g, 0) /\ Linked(g, 0) /\ Ends(g, 0, l % Payload) /\ Blanks(g, 0))'
      BY <1>5 DEF Taken, Linked, Ends, Blanks
    <3>2. Complete(held, g, S, l, c)'
      BY <1>8, <1>17, <1>18, <2>1, <3>1 DEF Complete, SectorsFor
    <3>3. AtOpen(g, S)'
      BY <1>1, <1>5, <1>8, <1>12, <2>1, <3>1, <3>2 DEF AtOpen, SectorsFor
    <3>4. pc' = "open"
      BY <1>12, <2>1
    <3> QED
      BY <3>3, <3>4 DEF HeldInv
  <2>2. CASE c # 0
    <3>1. Linked(g, 0 + 1)' /\ Blanks(g, 0)'
      BY <1>6, <1>16 DEF Linked, Blanks
    <3>2. SectorsFor(job.length)' = c
      BY <1>8, <1>12 DEF SectorsFor
    <3>3. Making(g, 0)'
      BY <1>1, <1>5, <1>12, <1>17, <2>2, <3>1, <3>2 DEF Making
    <3>4. (S = Taken(g, 0))'
      BY <1>5 DEF Taken
    <3>5. AtTake(g, S)'
      BY <1>18, <3>3, <3>4 DEF AtTake
    <3>6. pc' = "take"
      BY <1>12, <2>2
    <3> QED
      BY <3>5, <3>6 DEF HeldInv
  <2> QED
    BY <2>1, <2>2
<1>20. RoomInv(S)'
  <2>1. pc' \in {"open", "take"}
    BY <1>12
  <2>2. SectorsFor(l) <= Cardinality(Available(S))
    BY <1>1, <1>3, <1>7 DEF RoomInv
  <2> QED
    BY <1>1, <1>12, <2>1, <2>2 DEF RoomInv, Available, SectorsFor
<1>21. pc' # "idle"
  BY <1>12
<1> QED
  BY <1>1, <1>3, <1>5, <1>13, <1>14, <1>15, <1>19, <1>20, <1>21, SameFile

LEMMA CreateFailsStep ==
  ASSUME TypeInv, DirectoryInv, CleanInv,
         NEW row \in Rows, NEW own \in Owns, Layout(row, own), CreateFails
  PROVE  IInv' /\ SystemSame
<1>1. /\ pc = "create" /\ pc' = "idle" /\ held' = None /\ file' = NoFile /\ job' = NoJob
      /\ directory' = directory /\ used' = used /\ disk' = disk /\ text' = text
  BY DEF CreateFails, GoTo, store
<1>2. held \in Name /\ held # None /\ 0 .. System - 1 \subseteq used
  BY <1>1, Setting, Constants
<1>3. PICK f \in Row, S \in SUBSET FileSector :
        /\ f = row[held] /\ S = own[held] /\ S \subseteq used
        /\ HeldInv(f, S) /\ RoomInv(S)
  BY <1>1, Setting
<1>4. AtCreate(S)
  BY <1>1, <1>3 DEF HeldInv
<1>5. text[held] = None /\ Nowhere(held) /\ S = {} /\ None # <<>>
  BY <1>4, Constants, EmptySeq DEF AtCreate
<1>6. PICK h \in Name : h = held
  BY <1>2
<1>7. Whole(h, f, S)'
  BY <1>1, <1>5, <1>6 DEF Whole, Nowhere
<1>8. TypeInv'
  <2>1. file' \in [first : Sector, seek : Nat]
    BY <1>1, Constants DEF NoFile
  <2>2. job' \in [name : Name \cup {None}, length : Nat, sector : Sector, left : Nat,
                 data : Seq(Byte)]
    BY <1>1, Constants DEF NoJob
  <2> QED
    BY <1>1, <2>1, <2>2 DEF TypeInv
<1>9. DirectoryInv' /\ CleanInv' /\ EntriesStay(h)
  BY <1>1 DEF DirectoryInv, CleanInv, EntriesStay
<1>10. \A n \in Name \ {h} : ~ InUse(n) /\ text[n] # <<>> /\ text'[n] = text[n]
  BY <1>1, <1>6, Working
<1>11. used' = (used \ own[h]) \cup S /\ S \cap (used \ own[h]) = {}
  BY <1>1, <1>3, <1>5, <1>6
<1>12. held' # h /\ text'[h] # <<>> /\ \A s \in used \ own[h] : disk'[s] = disk[s]
  BY <1>1, <1>2, <1>5, <1>6
<1> QED
  BY <1>1, <1>7, <1>8, <1>9, <1>10, <1>11, <1>12, Installed

LEMMA TakeStep ==
  ASSUME TypeInv, DirectoryInv, CleanInv,
         NEW row \in Rows, NEW own \in Owns, Layout(row, own), Take
  PROVE  IInv' /\ SystemSame
<1>1. /\ pc = "take" /\ pc' = "header" /\ used' = used \cup {FreeSector}
      /\ job' = [job EXCEPT !.sector = FreeSector]
      /\ directory' = directory /\ disk' = disk
      /\ file' = file /\ text' = text /\ held' = held
  BY DEF Take
<1>2. held \in Name /\ 0 .. System - 1 \subseteq used
  BY <1>1, Setting
<1>3. PICK f \in Row, S \in SUBSET FileSector :
        /\ f = row[held] /\ S = own[held] /\ S \subseteq used
        /\ HeldInv(f, S) /\ RoomInv(S)
  BY <1>1, Setting
<1>4. AtTake(f, S)
  BY <1>1, <1>3 DEF HeldInv
<1>5. PICK t \in Nat : Making(f, t) /\ S = Taken(f, t) /\ Spare(f[t])
  BY <1>4 DEF AtTake
<1>6. PICK z \in FileSector \ used : z = f[t] /\ z = FreeSector /\ z \in Sector
  BY <1>2, <1>5, FreeSectorFound, Constants DEF Spare
<1>7. PICK T \in SUBSET FileSector : T = S \cup {z}
  OBVIOUS
<1>8. T = Taken(f, t + 1)
  <2>1. 0 .. (t + 1) - 1 = (0 .. t - 1) \cup {t}
    OBVIOUS
  <2> QED
    BY <1>5, <1>6, <1>7, <2>1 DEF Taken
<1>9. /\ job' \in [name : Name \cup {None}, length : Nat, sector : Sector, left : Nat,
                  data : Seq(Byte)]
      /\ job'.sector = z /\ job'.name = job.name /\ job'.length = job.length
      /\ job'.left = job.left
  BY <1>1, <1>6 DEF TypeInv
<1>10. TypeInv'
  BY <1>1, <1>6, <1>9 DEF TypeInv
<1>11. DirectoryInv' /\ EntriesStay(held)
  BY <1>1 DEF DirectoryInv, EntriesStay
<1>12. CleanInv'
  BY <1>1 DEF CleanInv
<1>13. Making(f, t)'
  BY <1>1, <1>5, <1>9 DEF Making, Entered, Linked, Blanks, SectorsFor
<1>14. AtHeader(f, T)'
  BY <1>6, <1>8, <1>9, <1>13 DEF AtHeader, Taken
<1>15. HeldInv(f, T)'
  BY <1>1, <1>14 DEF HeldInv
<1>16. Available(T)' = Available(S)
  BY <1>1, <1>6, <1>7 DEF Available
<1>17. RoomInv(T)'
  BY <1>1, <1>3, <1>9, <1>16 DEF RoomInv, SectorsFor
<1> QED
  BY <1>1, <1>3, <1>6, <1>7, <1>10, <1>11, <1>12, <1>15, <1>17, SameFile

LEMMA WriteHeaderStep ==
  ASSUME TypeInv, DirectoryInv, CleanInv,
         NEW row \in Rows, NEW own \in Owns, Layout(row, own), WriteHeader
  PROVE  IInv' /\ SystemSame
<1>1. /\ pc = "header" /\ used' = used /\ directory' = directory
      /\ file' = file /\ text' = text /\ held' = held
  BY DEF WriteHeader
<1>2. held \in Name /\ 0 .. System - 1 \subseteq used
  BY <1>1, Setting
<1>3. PICK f \in Row, S \in SUBSET FileSector :
        /\ f = row[held] /\ S = own[held] /\ S \subseteq used
        /\ HeldInv(f, S) /\ RoomInv(S)
  BY <1>1, Setting
<1>4. AtHeader(f, S)
  BY <1>1, <1>3 DEF HeldInv
<1>5. PICK t \in Nat : Making(f, t) /\ S = Taken(f, t + 1) /\ job.sector = f[t]
  BY <1>4 DEF AtHeader
<1>6. PICK l \in Nat : l = job.length
  BY DEF TypeInv
<1>7. PICK k \in Nat : k = SectorsFor(l) /\ (k = 0 <=> l = 0)
  BY Rounding
<1>8. PICK m \in Nat : m = job.left
  BY DEF TypeInv
<1>9. /\ text[held] = None /\ job.name = held /\ m = k - t /\ m > 0
      /\ Entered(held, f[0], k) /\ Linked(f, t + 1) /\ Blanks(f, t)
  BY <1>5, <1>6, <1>7, <1>8 DEF Making
<1>10. PICK s \in FileSector : /\ s = f[t] /\ s = job.sector /\ s \in S /\ s \in Sector
                               /\ \A i \in 0 .. t - 1 : f[i] # s
  <2>1. t \in 0 .. (t + 1) - 1 /\ \A i \in 0 .. t - 1 : i \in 0 .. (t + 1) - 1 /\ i # t
    OBVIOUS
  <2>2. f[t] \in FileSector /\ f[t] \in S /\ \A i \in 0 .. t - 1 : f[i] # f[t]
    BY <1>5, <1>9, <2>1 DEF Linked, Taken
  <2> QED
    BY <1>5, <2>2, Constants
<1>11. \A i \in Nat : f[i] \in Sector
  BY DEF Row
<1>12. /\ job' \in [name : Name \cup {None}, length : Nat, sector : Sector, left : Nat,
                   data : Seq(Byte)]
       /\ job'.name = held /\ job'.length = l /\ job'.left = m - 1
  <2>1. m - 1 \in Nat
    BY <1>9
  <2> QED
    BY <1>6, <1>8, <1>9, <2>1 DEF WriteHeader, TypeInv
<1>13. pc' = IF m = 1 THEN "open" ELSE "take"
  BY <1>8 DEF WriteHeader
<1>14. Zeros \in [0 .. Payload - 1 -> Byte]
  BY DEF Zeros, Blank, Byte
<1>15. DirectoryInv' /\ EntriesStay(held)
  BY <1>1 DEF DirectoryInv, EntriesStay
<1>16. ASSUME NEW x \in Content, disk' = [disk EXCEPT ![s] = x], x.bytes = Zeros
       PROVE  /\ TypeInv' /\ CleanInv' /\ disk'[s] = x
              /\ \A i \in 0 .. t - 1 : disk'[f[i]] = disk[f[i]]
              /\ \A r \in used \ own[held] : disk'[r] = disk[r]
              /\ Blanks(f, t + 1)'
  <2>1. /\ disk' \in [Sector -> Content] /\ disk'[s] = x
        /\ \A r \in Sector : r # s => disk'[r] = disk[r]
    BY <1>10, <1>16 DEF TypeInv
  <2>2. TypeInv'
    BY <1>1, <1>12, <1>13, <2>1 DEF TypeInv
  <2>3. CleanInv'
    BY <1>1, <1>3, <1>10, <2>1 DEF CleanInv
  <2>4. \A i \in 0 .. t - 1 : disk'[f[i]] = disk[f[i]]
    BY <1>10, <1>11, <2>1
  <2>5. \A r \in used \ own[held] : disk'[r] = disk[r]
    BY <1>3, <1>10, <2>1 DEF TypeInv
  <2>6. Blanks(f, t + 1)'
    <3>1. ASSUME NEW i \in 0 .. (t + 1) - 1
          PROVE  disk'[f[i]].bytes = Zeros
      <4>1. CASE i = t
        BY <1>10, <1>16, <2>1, <4>1
      <4>2. CASE i # t
        <5>1. i \in 0 .. t - 1
          BY <4>2
        <5> QED
          BY <1>9, <2>4, <5>1 DEF Blanks
      <4> QED
        BY <4>1, <4>2
    <3> QED
      BY <3>1 DEF Blanks
  <2> QED
    BY <2>1, <2>2, <2>3, <2>4, <2>5, <2>6
<1>17. CASE m = 1
  <2>1. k = t + 1 /\ pc' = "open" /\ l # 0
    BY <1>7, <1>9, <1>13, <1>17
  <2>2. PICK x \in Content : x = [next |-> 0, size |-> l % Payload, bytes |-> Zeros]
    <3>1. (l % Payload) \in Nat
      <4>1. (l % Payload) \in 0 .. Payload - 1
        BY Division
      <4> QED
        BY <4>1, PayloadType
    <3> QED
      BY <1>14, <3>1, Constants DEF Content
  <2>3. disk' = [disk EXCEPT ![s] = x] /\ x.bytes = Zeros
    BY <1>6, <1>8, <1>10, <1>17, <2>2 DEF WriteHeader
  <2>4. /\ TypeInv' /\ CleanInv' /\ disk'[s] = x
        /\ \A i \in 0 .. t - 1 : disk'[f[i]] = disk[f[i]]
        /\ \A r \in used \ own[held] : disk'[r] = disk[r]
        /\ Blanks(f, t + 1)'
    BY <1>16, <2>3
  <2>5. Linked(f, t + 1)'
    BY <1>9, <2>4 DEF Linked
  <2>6. Ends(f, t + 1, l % Payload)'
    <3>1. disk'[f[t]].next = 0 /\ disk'[f[t]].size = l % Payload
      BY <1>10, <2>2, <2>4
    <3> QED
      BY <3>1 DEF Ends
  <2>7. Complete(held, f, S, l, k)'
    <3>1. Entered(held, f[0], k)' /\ (S = Taken(f, t + 1))'
      BY <1>1, <1>5, <1>9 DEF Entered, Taken
    <3> QED
      BY <1>7, <2>1, <2>5, <2>6, <3>1 DEF Complete, SectorsFor
  <2>8. AtOpen(f, S)'
    BY <1>1, <1>7, <1>9, <1>12, <2>1, <2>4, <2>7 DEF AtOpen, SectorsFor
  <2>9. HeldInv(f, S)' /\ RoomInv(S)'
    BY <2>1, <2>8 DEF HeldInv, RoomInv
  <2> QED
    BY <1>1, <1>3, <1>15, <2>1, <2>4, <2>9, SameFile
<1>18. CASE m # 1
  <2>1. pc' = "take" /\ t + 1 < k
    BY <1>9, <1>13, <1>18
  <2>2. PICK z \in FileSector \ used : z = FreeSector /\ z # 0 /\ z \in Sector
    <3>1. k <= Cardinality(Available(S))
      BY <1>1, <1>3, <1>6, <1>7 DEF RoomInv
    <3>2. PICK j \in Nat : j = t + 1 /\ Linked(f, j) /\ S = Taken(f, j) /\ j < k
      BY <1>5, <1>9, <2>1
    <3>3. FreeSector # 0 /\ FreeSector \in FileSector \ used
      BY <1>2, <3>1, <3>2, RoomMeansFree
    <3> QED
      BY <3>3, Constants
  <2>3. PICK x \in Content : x = [next |-> z, size |-> 0, bytes |-> Zeros]
    BY <1>14, <2>2 DEF Content
  <2>4. disk' = [disk EXCEPT ![s] = x] /\ x.bytes = Zeros
    BY <1>8, <1>10, <1>18, <2>2, <2>3 DEF WriteHeader
  <2>5. /\ TypeInv' /\ CleanInv' /\ disk'[s] = x
        /\ \A i \in 0 .. t - 1 : disk'[f[i]] = disk[f[i]]
        /\ \A r \in used \ own[held] : disk'[r] = disk[r]
        /\ Blanks(f, t + 1)'
    BY <1>16, <2>4
  <2>6. PICK g \in Row : g = [f EXCEPT ![t + 1] = z]
    BY <2>2 DEF Row
  <2>7. g[t + 1] = z /\ g[0] = f[0] /\ \A i \in 0 .. t : g[i] = f[i] /\ f[i] \in S
    BY <1>5, <2>6 DEF Row, Taken
  <2>8. Linked(g, (t + 1) + 1)'
    <3>1. \A i \in 0 .. t + 1 : g[i] \in FileSector
      BY <2>2, <2>7
    <3>2. ASSUME NEW i \in 0 .. t + 1, NEW j \in 0 .. t + 1, g[i] = g[j]
          PROVE  i = j
      <4>1. \A a \in 0 .. t : g[a] # z
        BY <1>3, <2>2, <2>7
      <4>2. CASE i # t + 1 /\ j # t + 1
        <5>1. i \in 0 .. t /\ j \in 0 .. t /\ i \in 0 .. (t + 1) - 1 /\ j \in 0 .. (t + 1) - 1
          BY <4>2
        <5>2. f[i] = f[j]
          BY <2>7, <3>2, <5>1
        <5> QED
          BY <1>9, <5>1, <5>2 DEF Linked
      <4>3. CASE i = t + 1 /\ j # t + 1
        BY <2>7, <3>2, <4>1, <4>3
      <4>4. CASE i # t + 1 /\ j = t + 1
        BY <2>7, <3>2, <4>1, <4>4
      <4> QED
        BY <4>2, <4>3, <4>4
    <3>3. ASSUME NEW i \in 0 .. t
          PROVE  disk'[g[i]].next = g[i + 1]
      <4>1. CASE i = t
        <5>1. g[i] = s /\ g[i + 1] = z
          BY <1>10, <2>7, <4>1
        <5>2. x.next = z
          BY <2>3
        <5> QED
          BY <2>5, <5>1, <5>2
      <4>2. CASE i # t
        <5>1. i \in 0 .. t - 1 /\ i + 1 \in 0 .. t /\ i \in 0 .. (t + 1) - 2
          BY <4>2
        <5>2. disk[f[i]].next = f[i + 1]
          BY <1>9, <5>1 DEF Linked
        <5> QED
          BY <2>5, <2>7, <5>1, <5>2
      <4> QED
        BY <4>1, <4>2
    <3> QED
      BY <3>1, <3>2, <3>3 DEF Linked
  <2>9. Blanks(g, t + 1)'
    BY <2>5, <2>7 DEF Blanks
  <2>10. (S = Taken(g, t + 1))'
    BY <1>5, <2>7 DEF Taken
  <2>11. Spare(g[t + 1])'
    BY <1>1, <2>2, <2>7 DEF Spare, FreeSector, Lowest
  <2>12. Entered(held, g[0], k)'
    BY <1>1, <1>9, <2>7 DEF Entered
  <2>13. Making(g, t + 1)'
    <3>1. SectorsFor(job.length)' = k /\ job'.left = k - (t + 1) /\ job'.left > 0
      BY <1>7, <1>9, <1>12, <2>1 DEF SectorsFor
    <3> QED
      BY <1>1, <1>9, <1>12, <2>8, <2>9, <2>12, <3>1 DEF Making
  <2>14. HeldInv(g, S)'
    <3>1. AtTake(g, S)'
      BY <2>10, <2>11, <2>13 DEF AtTake
    <3> QED
      BY <2>1, <3>1 DEF HeldInv
  <2>15. RoomInv(S)'
    <3>1. SectorsFor(l) <= Cardinality(Available(S))
      BY <1>1, <1>3, <1>6 DEF RoomInv
    <3> QED
      BY <1>1, <1>12, <2>1, <3>1 DEF RoomInv, Available, SectorsFor
  <2> QED
    BY <1>1, <1>3, <1>15, <2>1, <2>5, <2>14, <2>15, SameFile
<1> QED
  BY <1>17, <1>18

(* A file that was created is zeros.                                       *)
LEMMA ReopenStep ==
  ASSUME TypeInv, DirectoryInv, CleanInv,
         NEW row \in Rows, NEW own \in Owns, Layout(row, own), Reopen
  PROVE  IInv' /\ SystemSame
<1>1. /\ pc = "open" /\ pc' = "idle" /\ job' = NoJob /\ held' = held
      /\ directory' = directory /\ used' = used /\ disk' = disk
  BY DEF Reopen, store
<1>2. held \in Name /\ 0 .. System - 1 \subseteq used
  BY <1>1, Setting
<1>3. PICK f \in Row, S \in SUBSET FileSector :
        /\ f = row[held] /\ S = own[held] /\ S \subseteq used
        /\ HeldInv(f, S) /\ RoomInv(S)
  BY <1>1, Setting
<1>4. AtOpen(f, S)
  BY <1>1, <1>3 DEF HeldInv
<1>5. PICK l \in Nat : l = job.length
  BY DEF TypeInv
<1>6. PICK c \in Nat : c = SectorsFor(l)
  BY Rounding
<1>7. job.name = held /\ Complete(held, f, S, l, c) /\ Blanks(f, c) /\ Entered(held, f[0], c)
  BY <1>4, <1>5, <1>6 DEF AtOpen, Complete
<1>8. directory[EntryOf(held)].first = f[0] /\ f[0] \in Sector
  <2>1. directory[EntryOf(held)] = [name |-> held, first |-> f[0], count |-> c]
    BY <1>2, <1>7, EntryFound
  <2> QED
    BY <2>1 DEF Row
<1>9. file' = [first |-> f[0], seek |-> 0]
  BY <1>7, <1>8 DEF Reopen
<1>10. PICK new \in Seq(Byte) : /\ new = [o \in 1 .. l |-> Blank] /\ Len(new) = l
                                /\ new # None
  <2> DEFINE b == [o \in 1 .. l |-> Blank]
  <2>1. b \in [1 .. l -> Byte]
    BY DEF Blank, Byte
  <2> HIDE DEF b
  <2>2. b \in Seq(Byte)
    BY <2>1, SeqDef
  <2>3. Len(b) = l
    BY <2>1, <2>2, LenProperties
  <2> QED
    BY <2>2, <2>3, Constants DEF b
<1>11. /\ text' \in [Name -> {None} \cup Seq(Byte)] /\ text'[held] = new
       /\ \A n \in Name \ {held} : text'[n] = text[n]
  <2>1. text' = [text EXCEPT ![held] = new]
    BY <1>5, <1>7, <1>10 DEF Reopen
  <2> QED
    BY <1>2, <2>1 DEF TypeInv
<1>12. TypeInv'
  <2>1. file' \in [first : Sector, seek : Nat]
    BY <1>8, <1>9
  <2>2. job' \in [name : Name \cup {None}, length : Nat, sector : Sector, left : Nat,
                 data : Seq(Byte)]
    BY <1>1, Constants DEF NoJob
  <2> QED
    BY <1>1, <1>11, <2>1, <2>2 DEF TypeInv
<1>13. DirectoryInv' /\ CleanInv' /\ EntriesStay(held)
  BY <1>1 DEF DirectoryInv, CleanInv, EntriesStay
<1>14. Complete(held, f, S, l, c)'
  <2>1. PICK h \in Name : h = held
    BY <1>2
  <2>2. Complete(h, f, S, l, c)'
    BY <1>1, <1>7, <2>1, CompleteSame
  <2> QED
    BY <1>1, <2>1, <2>2
<1>15. Reads(f, new)'
  <2>1. ASSUME NEW o \in 0 .. l - 1
        PROVE  disk'[f[o \div Payload]].bytes[o % Payload] = new[o + 1]
    <3>1. o \in Nat /\ o < l /\ o + 1 \in 1 .. l
      OBVIOUS
    <3>2. PICK q \in Nat : q = o \div Payload /\ q < c
      BY <1>6, <3>1, OffsetInRow, Division
    <3>3. PICK r \in 0 .. Payload - 1 : r = o % Payload
      BY <3>1, Division
    <3>4. disk[f[q]].bytes = Zeros
      BY <1>7, <3>2 DEF Blanks
    <3>5. Zeros[r] = Blank /\ new[o + 1] = Blank
      BY <1>10, <3>1 DEF Zeros
    <3> QED
      BY <1>1, <3>2, <3>3, <3>4, <3>5
  <2> QED
    BY <1>10, <2>1 DEF Reads
<1>16. Whole(held, f, S)'
  <2>1. Reads(f, text[held])' /\ Len(text'[held']) = l /\ text'[held'] # None
    BY <1>1, <1>10, <1>11, <1>15 DEF Reads
  <2> QED
    BY <1>1, <1>6, <1>14, <2>1 DEF Whole, SectorsFor
<1>17. HeldInv(f, S)' /\ RoomInv(S)'
  <2>1. file'.seek <= Len(text'[held']) /\ text'[held'] # None /\ file'.first = f[0]
    BY <1>1, <1>9, <1>10, <1>11
  <2>2. AtIdle(f)'
    BY <2>1 DEF AtIdle
  <2> QED
    BY <1>1, <2>2 DEF HeldInv, RoomInv
<1>18. \A n \in Name \ {held} : ~ InUse(n) /\ text[n] # <<>> /\ text'[n] = text[n]
  BY <1>1, <1>11, Working
<1>19. PICK h \in Name : h = held
  BY <1>2
<1>20. \A s \in used \ own[held] : disk'[s] = disk[s]
  BY <1>1
<1> QED
  BY <1>1, <1>3, <1>12, <1>13, <1>16, <1>17, <1>18, <1>19, <1>20, Installed

-----------------------------------------------------------------------------
LEMMA Stutter ==
  ASSUME IInv, UNCHANGED vars
  PROVE  IInv' /\ SystemSame
<1>1. /\ directory' = directory /\ used' = used /\ disk' = disk /\ file' = file
      /\ pc' = pc /\ job' = job /\ text' = text /\ held' = held
  BY DEF vars
<1>2. TypeInv' /\ DirectoryInv' /\ CleanInv'
  BY <1>1 DEF IInv, TypeInv, DirectoryInv, CleanInv
<1>3. PICK row \in Rows, own \in Owns : Layout(row, own)
  BY DEF IInv
<1>4. \A n, f, S : Whole(n, f, S) => Whole(n, f, S)'
  BY <1>1 DEF Whole, Complete, Entered, Nowhere, Taken, Linked, Ends, Reads, Spare,
              SectorsFor, FreeSector, Lowest
<1>5. ASSUME NEW f, NEW S, HeldInv(f, S)
      PROVE  HeldInv(f, S)'
  <2>1. /\ AtIdle(f) => AtIdle(f)'
        /\ AtDelete(f, S) => AtDelete(f, S)'
        /\ AtFree(f, S) => AtFree(f, S)'
        /\ AtClear(f, S) => AtClear(f, S)'
        /\ AtCreate(S) => AtCreate(S)'
    BY <1>1 DEF AtIdle, AtDelete, AtFree, AtClear, AtCreate, Entered, Nowhere, Taken, Linked,
                Spare, FreeSector, Lowest
  <2>2. \A t : Making(f, t) => Making(f, t)'
    BY <1>1 DEF Making, Entered, Linked, Blanks, SectorsFor
  <2>3. AtTake(f, S) => AtTake(f, S)'
    BY <1>1, <2>2 DEF AtTake, Taken, Spare, FreeSector, Lowest
  <2>4. AtHeader(f, S) => AtHeader(f, S)'
    BY <1>1, <2>2 DEF AtHeader, Taken
  <2>5. \A n, l, c : Complete(n, f, S, l, c) => Complete(n, f, S, l, c)'
    BY <1>1, CompleteSame
  <2>6. AtOpen(f, S) => AtOpen(f, S)'
    BY <1>1, <2>5 DEF AtOpen, Blanks, SectorsFor
  <2>7. Source(f) => Source(f)'
    BY <1>1 DEF Source, Reads
  <2>8. AtWrite(f, S) => AtWrite(f, S)'
    BY <1>1, <2>5, <2>7 DEF AtWrite, Fits, SectorsFor
  <2>9. AtLink(f, S) => AtLink(f, S)'
    BY <1>1, <2>5, <2>7 DEF AtLink, Full, SectorsFor
  <2>10. \A c : Growing(f, c) => Growing(f, c)'
    BY <1>1, <2>7 DEF Growing, Full, Entered, Linked, SectorsFor
  <2>11. AtMark(f, S) => AtMark(f, S)'
    BY <1>1, <2>10 DEF AtMark, Taken, Spare, FreeSector, Lowest
  <2>12. AtFresh(f, S) => AtFresh(f, S)'
    BY <2>10 DEF AtFresh, Taken
  <2>13. AtPut(f, S) => AtPut(f, S)'
    BY <1>1, <2>5, <2>7 DEF AtPut, EndOf, Part, SectorsFor
  <2> QED
    BY <1>1, <1>5, <2>1, <2>3, <2>4, <2>6, <2>8, <2>9, <2>11, <2>12, <2>13 DEF HeldInv
<1>6. \A S : RoomInv(S) => RoomInv(S)'
  BY <1>1 DEF RoomInv, Available, SectorsFor
<1>7. Layout(row, own)'
  BY <1>1, <1>3, <1>4, <1>5, <1>6 DEF Layout, Marked, InUse
<1> QED
  BY <1>1, <1>2, <1>3, <1>7 DEF IInv, SystemSame

(* Every step of careful clients and of RYFS keeps the invariant.          *)
LEMMA Inductive ==
  ASSUME Careful, IInv, [Next]_vars
  PROVE  IInv' /\ SystemSame
<1>1. PICK row \in Rows, own \in Owns : Layout(row, own)
  BY DEF IInv
<1>2. TypeInv /\ DirectoryInv /\ CleanInv
  BY DEF IInv
<1>3. ASSUME NEW n \in Name, Open(n)
      PROVE  IInv' /\ SystemSame
  BY <1>1, <1>2, <1>3, LookStep
<1>4. ASSUME NEW o \in Nat, Seek(o)
      PROVE  IInv' /\ SystemSame
  BY <1>1, <1>2, <1>4, LookStep
<1>5. ASSUME NEW k \in Pieces, Read(k)
      PROVE  IInv' /\ SystemSame
  <2>1. k \in Nat /\ file.seek \in Nat
    BY <1>2, FileSystemAssumption DEF TypeInv
  <2>2. file.seek + k \in Nat /\ Seek(file.seek + k)
    BY <1>5, <2>1 DEF Read
  <2> QED
    BY <1>4, <2>2
<1>6. ASSUME NEW n \in Name, Delete(n) \/ \E length \in Lengths : Create(n, length)
      PROVE  IInv' /\ SystemSame
  BY <1>1, <1>2, <1>6, DiscardStep
<1>7. ASSUME NEW k \in Pieces, Write(k)
      PROVE  IInv' /\ SystemSame
  <2>1. k \in Nat \ {0}
    BY FileSystemAssumption
  <2> QED
    BY <1>1, <1>2, <1>7, <2>1, WriteStep
<1>8. CASE Request
  <2>1. 0 .. MaxLength \subseteq Nat
    OBVIOUS
  <2> QED
    BY <1>3, <1>4, <1>5, <1>6, <1>7, <1>8, <2>1 DEF Request
<1>9. CASE Step
  <2>1. CASE ClearEntry
    BY <1>1, <1>2, <2>1, ClearEntryStep
  <2>2. CASE MarkFree
    BY <1>1, <1>2, <2>2, MarkFreeStep
  <2>3. CASE ClearSector
    BY <1>1, <1>2, <2>3, ClearSectorStep
  <2>4. CASE WriteEntry
    BY <1>1, <1>2, <2>4, WriteEntryStep
  <2>5. CASE CreateFails
    BY <1>1, <1>2, <2>5, CreateFailsStep
  <2>6. CASE Take
    BY <1>1, <1>2, <2>6, TakeStep
  <2>7. CASE WriteHeader
    BY <1>1, <1>2, <2>7, WriteHeaderStep
  <2>8. CASE Reopen
    BY <1>1, <1>2, <2>8, ReopenStep
  <2>9. CASE Extend
    BY <1>1, <1>2, <2>9, ExtendStep
  <2>10. CASE CountSector
    BY <1>1, <1>2, <2>10, CountStep
  <2>11. CASE Link
    BY <1>1, <1>2, <2>11, LinkStep
  <2>12. CASE MarkNew
    BY <1>1, <1>2, <2>12, MarkStep
  <2>13. CASE BlankNew
    BY <1>1, <1>2, <2>13, BlankStep
  <2>14. CASE Put
    BY <1>1, <1>2, <2>14, PutStep
  <2> QED
    BY <1>9, <2>1, <2>2, <2>3, <2>4, <2>5, <2>6, <2>7, <2>8, <2>9, <2>10, <2>11, <2>12,
       <2>13, <2>14 DEF Step
<1> QED
  BY <1>8, <1>9, Stutter DEF Next

LEMMA Invariance == Careful => (Spec => []IInv)
<1> SUFFICES ASSUME Careful
             PROVE  Spec => []IInv
  OBVIOUS
<1>1. IInv /\ [Next]_vars => IInv'
  BY Inductive
<1> QED
  BY InitIInv, <1>1, PTL DEF Spec

(* No step of a careful client's operation writes the boot sector, the     *)
(* directory or the bitmap, whatever the links say while it stands.        *)
THEOREM SystemSectorsKept == Careful => (Spec => SystemKept)
<1> SUFFICES ASSUME Careful
             PROVE  Spec => SystemKept
  OBVIOUS
<1>1. IInv /\ [Next]_vars => [\A s \in 0 .. System - 1 : disk'[s] = disk[s]]_vars
  BY Inductive DEF SystemSame
<1> QED
  BY Invariance, <1>1, PTL DEF Spec, SystemKept

-----------------------------------------------------------------------------
(* A file that nothing works on reads as its text.                         *)
LEMMA WholeIsStored ==
  ASSUME IInv, NEW n \in Name, ~ InUse(n)
  PROVE  IF text[n] = None THEN EntryOf(n) = 0 ELSE Stored(n)
<1>1. PICK row \in Rows, own \in Owns : Layout(row, own)
  BY DEF IInv
<1>2. TypeInv /\ DirectoryInv /\ CleanInv /\ 0 .. System - 1 \subseteq used
  BY <1>1, Owned DEF IInv
<1>3. PICK f \in Row, S \in SUBSET FileSector : Whole(n, f, S)
  BY <1>1, Owned DEF Layout
<1>4. CASE text[n] = None
  BY <1>2, <1>3, <1>4, EntryFound DEF Whole
<1>5. CASE text[n] # None
  <2>1. PICK t \in Seq(Byte) : t = text[n]
    BY <1>2, <1>5 DEF TypeInv
  <2>2. PICK L \in Nat : L = Len(t)
    OBVIOUS
  <2>3. PICK c \in Nat : c = SectorsFor(L)
    BY Rounding
  <2>4. Complete(n, f, S, L, c) /\ Reads(f, t) /\ Entered(n, f[0], c)
    BY <1>3, <1>5, <2>1, <2>2, <2>3 DEF Whole, Complete
  <2>5. EntryOf(n) # 0 /\ directory[EntryOf(n)].first = f[0]
    <3>1. EntryOf(n) \in Entry /\ directory[EntryOf(n)] = [name |-> n, first |-> f[0], count |-> c]
      BY <1>2, <2>4, EntryFound
    <3> QED
      BY <3>1 DEF Entry
  <2>6. L # 0 \/ pc \notin {"clear", "mark"}
    <3> SUFFICES ASSUME L = 0
                 PROVE  pc = "idle"
      OBVIOUS
    <3>1. text[n] = <<>>
      BY <2>1, <2>2
    <3> QED
      BY <1>1, <3>1 DEF Layout, InUse
  <2>7. /\ Links(f[0]) # {}
        /\ L % Payload # 0 => Size(f[0]) = L
    BY <1>2, <2>4, <2>6, SizeOfFile
  <2>8. ASSUME NEW o \in 1 .. L
        PROVE  ReadAt(f[0], o - 1) = t[o]
    <3>1. o - 1 \in Nat /\ o - 1 < L /\ o - 1 \in 0 .. L - 1 /\ (o - 1) + 1 = o
      OBVIOUS
    <3>2. PICK i \in Nat : i = o - 1 /\ i < L /\ i + 1 = o /\ i \in 0 .. Len(t) - 1
      BY <2>2, <3>1
    <3>3. PICK q \in Nat : q = i \div Payload /\ q < c
      BY <2>3, <3>2, OffsetInRow, Division
    <3>4. Linked(f, c) /\ c > 0 /\ q \in 0 .. c
      BY <2>3, <2>4, <3>3 DEF Complete
    <3>5. Hop(f[0], q) = f[q]
      BY <3>3, <3>4, HopAlongRow
    <3>6. disk[f[i \div Payload]].bytes[i % Payload] = t[i + 1]
      BY <2>4, <3>2 DEF Reads
    <3> QED
      BY <3>2, <3>3, <3>5, <3>6 DEF ReadAt
  <2> QED
    BY <1>5, <2>1, <2>2, <2>5, <2>7, <2>8 DEF Stored
<1> QED
  BY <1>4, <1>5

(* Wherever an operation stands, and the power may fail, every other file  *)
(* is entered, its links end, and ryfs_read and ryfs_get_size return what  *)
(* was written to it last.                                                 *)
THEOREM OtherFilesKept == Careful => (Spec => []FilesKept)
<1> SUFFICES ASSUME Careful
             PROVE  Spec => []FilesKept
  OBVIOUS
<1>1. IInv => FilesKept
  BY WholeIsStored DEF FilesKept
<1> QED
  BY Invariance, <1>1, PTL

(* Between operations the links from an entry meet its own sectors.        *)
LEMMA ChainIsOwn ==
  ASSUME TypeInv, DirectoryInv,
         NEW row \in Rows, NEW own \in Owns, Layout(row, own), pc = "idle", NEW e \in Entry
  PROVE  /\ directory[e].name = None => Chain(e) = {} /\ directory[e].count = 0
         /\ directory[e].name # None =>
              /\ Chain(e) = own[directory[e].name]
              /\ Cardinality(Chain(e)) = directory[e].count
<1>1. CASE directory[e].name = None
  <2>1. directory[e].count = 0
    BY <1>1 DEF DirectoryInv, NoEntry
  <2> QED
    BY <1>1, <2>1 DEF Chain
<1>2. CASE directory[e].name # None
  <2>1. PICK n \in Name : n = directory[e].name
    BY <1>2 DEF TypeInv
  <2>2. PICK f \in Row, S \in SUBSET FileSector : f = row[n] /\ S = own[n] /\ Whole(n, f, S)
    BY Owned DEF Layout, InUse
  <2>3. text[n] # None
    BY <2>1, <2>2 DEF Whole, Nowhere
  <2>4. PICK L \in Nat : L = Len(text[n])
    BY <2>3 DEF TypeInv
  <2>5. PICK c \in Nat : c = SectorsFor(L)
    BY Rounding
  <2>6. Complete(n, f, S, L, c)
    BY <2>2, <2>3, <2>4, <2>5 DEF Whole
  <2>7. /\ Entered(n, f[0], c) /\ S = Taken(f, c) /\ Linked(f, c)
    BY <2>5, <2>6 DEF Complete
  <2>8. directory[e] = [name |-> n, first |-> f[0], count |-> c]
    <3>1. PICK d \in Entry : directory[d] = [name |-> n, first |-> f[0], count |-> c]
      BY <2>7 DEF Entered
    <3>2. directory[d].name = directory[e].name /\ directory[d].name # None
      BY <1>2, <2>1, <3>1
    <3>3. d = e
      BY <3>2 DEF DirectoryInv
    <3> QED
      BY <3>1, <3>3
  <2>9. ASSUME NEW k \in 0 .. c - 1
        PROVE  Hop(f[0], k) = f[k]
    <3>1. c > 0 /\ k \in 0 .. c /\ k < c /\ k # c
      OBVIOUS
    <3> QED
      BY <2>7, <3>1, HopAlongRow
  <2>10. Chain(e) = Taken(f, c)
    <3>1. Chain(e) = {Hop(f[0], k) : k \in 0 .. c - 1}
      BY <2>8 DEF Chain
    <3> QED
      BY <2>9, <3>1 DEF Taken
  <2>11. Cardinality(Taken(f, c)) = c
    BY <2>7, RowIsShort
  <2> QED
    BY <1>2, <2>1, <2>2, <2>7, <2>8, <2>10, <2>11
<1> QED
  BY <1>1, <1>2

(* Between operations the directory, the links and the bitmap agree: no    *)
(* sector belongs to two files, and none is lost.                          *)
THEOREM DirectoryAgrees == Careful => (Spec => []StructureAgrees)
<1> SUFFICES ASSUME Careful
             PROVE  Spec => []StructureAgrees
  OBVIOUS
<1>1. ASSUME IInv
      PROVE  StructureAgrees
  <2> SUFFICES ASSUME pc = "idle"
               PROVE  /\ \A e \in Entry : Cardinality(Chain(e)) = directory[e].count
                      /\ \A e, f \in Entry : e # f => Chain(e) \cap Chain(f) = {}
                      /\ used = 0 .. System - 1 \cup UNION {Chain(e) : e \in Entry}
    BY DEF StructureAgrees
  <2>1. PICK row \in Rows, own \in Owns : Layout(row, own)
    BY <1>1 DEF IInv
  <2>2. TypeInv /\ DirectoryInv
    BY <1>1 DEF IInv
  <2>3. \A e \in Entry :
          /\ directory[e].name = None => Chain(e) = {} /\ directory[e].count = 0
          /\ directory[e].name # None =>
               /\ Chain(e) = own[directory[e].name]
               /\ Cardinality(Chain(e)) = directory[e].count
    BY <2>1, <2>2, ChainIsOwn
  <2>4. Marked(own)
    BY <2>1 DEF Layout
  <2>5. ASSUME NEW e \in Entry
        PROVE  Cardinality(Chain(e)) = directory[e].count
    BY <2>3, FS_EmptySet
  <2>6. ASSUME NEW e \in Entry, NEW f \in Entry, e # f
        PROVE  Chain(e) \cap Chain(f) = {}
    <3>1. CASE directory[e].name = None \/ directory[f].name = None
      BY <2>3, <3>1
    <3>2. CASE directory[e].name # None /\ directory[f].name # None
      <4>1. directory[e].name # directory[f].name
        BY <2>2, <2>6, <3>2 DEF DirectoryInv
      <4>2. directory[e].name \in Name /\ directory[f].name \in Name
        BY <2>2, <3>2 DEF TypeInv
      <4> QED
        BY <2>3, <2>4, <3>2, <4>1, <4>2 DEF Marked
    <3> QED
      BY <3>1, <3>2
  <2>7. ASSUME NEW e \in Entry
        PROVE  Chain(e) \subseteq used
    <3>1. CASE directory[e].name = None
      BY <2>3, <3>1
    <3>2. CASE directory[e].name # None
      <4>1. directory[e].name \in Name
        BY <2>2, <3>2 DEF TypeInv
      <4> QED
        BY <2>3, <2>4, <3>2, <4>1 DEF Marked
    <3> QED
      BY <3>1, <3>2
  <2>8. ASSUME NEW n \in Name, own[n] # {}
        PROVE  \E e \in Entry : own[n] = Chain(e)
    <3>1. Whole(n, row[n], own[n])
      BY <2>1 DEF Layout, InUse
    <3>2. \E e \in Entry : directory[e].name = n
      BY <2>8, <3>1 DEF Whole, Complete, Entered
    <3> QED
      BY <2>3, <3>2, Constants
  <2>9. used = 0 .. System - 1 \cup UNION {Chain(e) : e \in Entry}
    <3>1. 0 .. System - 1 \subseteq used
      BY <2>4 DEF Marked
    <3>2. ASSUME NEW s \in used, s \notin 0 .. System - 1
          PROVE  \E e \in Entry : s \in Chain(e)
      <4>1. PICK n \in Name : s \in own[n]
        BY <2>4, <3>2 DEF Marked
      <4> QED
        BY <2>8, <4>1
    <3> QED
      BY <2>7, <3>1, <3>2
  <2> QED
    BY <2>5, <2>6, <2>9
<1> QED
  BY Invariance, <1>1, PTL
=============================================================================
