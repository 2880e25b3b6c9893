---------------------------- MODULE Editor_proofs ----------------------------
(***************************************************************************)
(* The properties of Editor for every file, every size of the text, of the *)
(* buffer and of the screen, and every range of a CHAR.                    *)
(*                                                                         *)
(* The rows of a file are a fold over it (RowsOf), and the string that is  *)
(* saved is one over the rows (RowsToString).  Both are followed by        *)
(* induction on the length: a fold yields rows of letters (RowsOfTypes),   *)
(* and the string of two lists of rows is the one string behind the other  *)
(* (StringConcat).  With it, each way in which a key changes the rows      *)
(* (Inserts, Breaks, AddsRow, Removes, Joins) becomes a change of the      *)
(* string at the place of the cursor (InsertedString, BrokenString, and so *)
(* on), which is a step of Text.  Every step that is none of these sets    *)
(* lost (NextPromises).                                                    *)
(***************************************************************************)
EXTENDS Editor, SequenceTheorems, NaturalsInduction, WellFoundedInduction, TLAPS

LEMMA LeastExists ==
  ASSUME NEW S \in SUBSET Nat, S # {}
  PROVE  \E n \in S : \A o \in S : n <= o
<1>1. PICK n \in S : \A o \in S : <<o, n>> \notin OpToRel(<, Nat)
  BY NatLessThanWellFounded, WFMin
<1>2. ASSUME NEW l \in Nat, NEW k \in Nat, l < k
      PROVE  <<l, k>> \in OpToRel(<, Nat)
  BY <1>2, Zenon DEF OpToRel
<1>3. \A o \in S : ~ (o < n)
  BY <1>1, <1>2, Zenon
<1> QED
  BY <1>3

LEMMA SetInduction ==
  ASSUME NEW S, 0 \in S, \A n \in Nat : n \in S => n + 1 \in S
  PROVE  Nat \subseteq S
<1> SUFFICES ASSUME Nat \ S # {}
             PROVE  FALSE
  OBVIOUS
<1>1. PICK n \in Nat \ S : \A o \in Nat \ S : n <= o
  <2>1. Nat \ S \in SUBSET Nat
    OBVIOUS
  <2> QED
    BY <2>1, LeastExists
<1>2. n - 1 \in Nat
  BY <1>1
<1>3. n - 1 \in S
  BY <1>1, <1>2
<1>4. (n - 1) + 1 \in S
  BY <1>2, <1>3
<1> QED
  BY <1>1, <1>4

-----------------------------------------------------------------------------
(* What OpenFile reads: rows of letters, whatever the file holds.          *)

Char == Letter \cup {Newline}
Rows == Seq(Seq(Letter))
Reading == [rows : Rows, line : Seq(Letter)]
Nothing == [rows |-> <<>>, line |-> <<>>]

(* The fold of ReadChar over the characters whose indices are in a set.    *)
Fold(g, t, D) ==
  [s \in SUBSET D |-> IF s = {} THEN Nothing
                      ELSE ReadChar(g[s \ {Max(s)}], t[Max(s)])]

LEMMA GreatestIs ==
  ASSUME NEW i \in Nat, NEW s \in SUBSET (1 .. i + 1), i + 1 \in s
  PROVE  Max(s) = i + 1
<1>1. \A y \in s : i + 1 >= y
  OBVIOUS
<1>2. \E x \in s : \A y \in s : x >= y
  BY <1>1, Zenon
<1>3. Max(s) \in s /\ \A y \in s : Max(s) >= y
  BY <1>2, Zenon DEF Max
<1>4. Max(s) >= i + 1 /\ Max(s) \in 1 .. i + 1
  BY <1>3, Zenon
<1> QED
  BY <1>4

LEMMA ReadCharTypes ==
  ASSUME NEW s \in Reading, NEW c \in Char
  PROVE  ReadChar(s, c) \in Reading
<1>1. s.rows \in Rows /\ s.line \in Seq(Letter) /\ <<>> \in Seq(Letter)
  BY DEF Reading
<1>2. CASE c = Newline
  <2>1. Append(s.rows, s.line) \in Rows
    BY <1>1 DEF Rows
  <2> QED
    BY <1>1, <1>2, <2>1 DEF ReadChar, Reading
<1>3. CASE c # Newline
  <2>1. c \in Letter
    BY <1>3 DEF Char
  <2>2. Append(s.line, c) \in Seq(Letter)
    BY <1>1, <2>1
  <2>3. (IF Len(s.line) + 1 >= BufferSize THEN <<>> ELSE Append(s.line, c)) \in Seq(Letter)
    BY <1>1, <2>2
  <2> QED
    BY <1>3, <2>3 DEF ReadChar, Reading
<1> QED
  BY <1>2, <1>3

LEMMA FoldExists ==
  ASSUME NEW t, NEW n \in Nat
  PROVE  \E h : h = Fold(h, t, 1 .. n)
<1> DEFINE S == {m \in Nat : \E h : h = Fold(h, t, 1 .. m)}
<1>1. 0 \in S
  <2> DEFINE h == [s \in SUBSET (1 .. 0) |-> Nothing]
  <2>1. h = Fold(h, t, 1 .. 0)
    <3>1. \A s \in SUBSET (1 .. 0) : s = {}
      OBVIOUS
    <3> QED
      BY <3>1 DEF Fold
  <2> QED
    BY <2>1
<1>2. ASSUME NEW m \in Nat, m \in S
      PROVE  m + 1 \in S
  <2>1. PICK h : h = Fold(h, t, 1 .. m)
    BY <1>2
  <2> DEFINE k == [s \in SUBSET (1 .. m + 1) |->
                     IF m + 1 \in s THEN ReadChar(h[s \ {m + 1}], t[m + 1]) ELSE h[s]]
  <2>2. ASSUME NEW s \in SUBSET (1 .. m + 1)
        PROVE  k[s] = IF s = {} THEN Nothing
                      ELSE ReadChar(k[s \ {Max(s)}], t[Max(s)])
    <3>1. CASE m + 1 \in s
      <4>1. Max(s) = m + 1
        BY <3>1, GreatestIs
      <4>2. s \ {m + 1} \in SUBSET (1 .. m + 1) /\ m + 1 \notin s \ {m + 1} /\ s # {}
        BY <3>1
      <4>3. k[s \ {m + 1}] = h[s \ {m + 1}]
        BY <4>2
      <4>4. k[s] = ReadChar(h[s \ {m + 1}], t[m + 1])
        BY <3>1
      <4> QED
        BY <4>1, <4>2, <4>3, <4>4, Zenon
    <3>2. CASE m + 1 \notin s
      <4>1. s \in SUBSET (1 .. m)
        BY <3>2
      <4>2. k[s] = h[s]
        BY <3>2
      <4>3. h[s] = IF s = {} THEN Nothing ELSE ReadChar(h[s \ {Max(s)}], t[Max(s)])
        <5>1. Fold(h, t, 1 .. m)[s] = IF s = {} THEN Nothing
                                      ELSE ReadChar(h[s \ {Max(s)}], t[Max(s)])
          BY <4>1, Zenon DEF Fold
        <5> QED
          BY <2>1, <5>1, Zenon
      <4>4. k[s \ {Max(s)}] = h[s \ {Max(s)}]
        BY <3>2
      <4> QED
        BY <4>2, <4>3, <4>4, Zenon
    <3> QED
      BY <3>1, <3>2
  <2>3. k = Fold(k, t, 1 .. m + 1)
    BY <2>2, Zenon DEF Fold
  <2>4. \E g : g = Fold(g, t, 1 .. m + 1)
    BY <2>3, Zenon
  <2> QED
    BY <2>4
<1>3. n \in S
  <2> HIDE DEF S
  <2> QED
    BY <1>1, <1>2, SetInduction
<1> QED
  BY <1>3

LEMMA RowsOfTypes ==
  ASSUME NEW t \in Seq(Char)
  PROVE  RowsOf(t) \in Rows
<1> DEFINE D == 1 .. Len(t)
           H == CHOOSE h : h = Fold(h, t, D)
<1>1. RowsOf(t) = H[D].rows
  <2>1. DOMAIN t = D
    OBVIOUS
  <2> QED
    BY <2>1 DEF RowsOf, FoldLeft, MapThenFoldSet, Fold, Nothing
<1>2. H = Fold(H, t, D)
  <2>1. \E h : h = Fold(h, t, D)
    BY FoldExists
  <2> QED
    BY <2>1, Zenon
<1> DEFINE S == {n \in Nat : n <= Len(t) => H[1 .. n] \in Reading}
<1>3. 0 \in S
  <2>1. 1 .. 0 = {} /\ {} \in SUBSET D
    OBVIOUS
  <2>2. Fold(H, t, D)[{}] = Nothing
    BY <2>1, Zenon DEF Fold
  <2>3. H[{}] = Nothing
    <3> HIDE DEF H, D
    <3> QED
      BY <1>2, <2>2, Zenon
  <2>4. Nothing \in Reading
    BY DEF Nothing, Reading, Rows
  <2> HIDE DEF H
  <2> QED
    BY <2>1, <2>3, <2>4
<1>4. ASSUME NEW n \in Nat, n \in S
      PROVE  n + 1 \in S
  <2> HIDE DEF H
  <2> SUFFICES ASSUME n + 1 <= Len(t)
               PROVE  H[1 .. n + 1] \in Reading
    OBVIOUS
  <2> DEFINE s == 1 .. n + 1
  <2>1. Max(s) = n + 1 /\ s # {} /\ s \in SUBSET D
    <3>1. s \in SUBSET (1 .. n + 1) /\ n + 1 \in s /\ s \in SUBSET D
      OBVIOUS
    <3> HIDE DEF s, D
    <3> QED
      BY <3>1, GreatestIs
  <2>2. s \ {n + 1} = 1 .. n
    OBVIOUS
  <2>3. Fold(H, t, D)[s] = ReadChar(H[s \ {Max(s)}], t[Max(s)])
    <3> HIDE DEF s, D
    <3> QED
      BY <2>1, Zenon DEF Fold
  <2>4. H[s] = ReadChar(H[1 .. n], t[n + 1])
    <3> HIDE DEF s, D
    <3> QED
      BY <1>2, <2>1, <2>2, <2>3, Zenon
  <2>5. H[1 .. n] \in Reading /\ t[n + 1] \in Char
    BY <1>4
  <2> QED
    BY <2>4, <2>5, ReadCharTypes
<1>5. Len(t) \in S
  <2>1. Nat \subseteq S
    <3> HIDE DEF S
    <3> QED
      BY <1>3, <1>4, SetInduction
  <2> HIDE DEF S
  <2> QED
    BY <2>1
<1> QED
  <2> HIDE DEF H
  <2>1. H[D] \in Reading
    BY <1>5
  <2> QED
    BY <1>1, <2>1 DEF Reading

-----------------------------------------------------------------------------
(* RowsToString, a row at a time.                                          *)

Flat(g, q, n) == [i \in 1 .. n |-> IF i = 1 THEN q[i] ELSE g[i - 1] \o q[i]]
IsFlat(g, q, n) == g = Flat(g, q, n)

LEMMA FlatExists ==
  ASSUME NEW q, NEW n \in Nat
  PROVE  \E h : h = Flat(h, q, n)
<1> DEFINE S == {m \in Nat : \E h : h = Flat(h, q, m)}
<1>1. 0 \in S
  <2> DEFINE h == [i \in 1 .. 0 |-> q[i]]
  <2>1. h = Flat(h, q, 0)
    BY DEF Flat
  <2> QED
    BY <2>1
<1>2. ASSUME NEW m \in Nat, m \in S
      PROVE  m + 1 \in S
  <2>1. PICK h : h = Flat(h, q, m)
    BY <1>2
  <2> DEFINE k == [i \in 1 .. m + 1 |->
                     IF i = m + 1 THEN (IF i = 1 THEN q[i] ELSE h[i - 1] \o q[i]) ELSE h[i]]
  <2>2. ASSUME NEW i \in 1 .. m + 1
        PROVE  k[i] = IF i = 1 THEN q[i] ELSE k[i - 1] \o q[i]
    <3>1. i # 1 => i - 1 \in 1 .. m + 1 /\ i - 1 # m + 1
      OBVIOUS
    <3>2. i # 1 => k[i - 1] = h[i - 1]
      BY <3>1
    <3>3. CASE i = m + 1
      <4>1. k[i] = IF i = 1 THEN q[i] ELSE h[i - 1] \o q[i]
        BY <3>3
      <4> QED
        BY <3>2, <4>1, Zenon
    <3>4. CASE i # m + 1
      <4>1. k[i] = h[i] /\ i \in 1 .. m
        BY <3>4
      <4>2. Flat(h, q, m)[i] = IF i = 1 THEN q[i] ELSE h[i - 1] \o q[i]
        BY <4>1, Zenon DEF Flat
      <4> QED
        BY <2>1, <3>2, <4>1, <4>2, Zenon
    <3> QED
      BY <3>3, <3>4
  <2>3. k = Flat(k, q, m + 1)
    BY <2>2, Zenon DEF Flat
  <2>4. \E g : g = Flat(g, q, m + 1)
    BY <2>3, Zenon
  <2> QED
    BY <2>4
<1>3. n \in S
  <2> HIDE DEF S
  <2> QED
    BY <1>1, <1>2, SetInduction
<1> QED
  BY <1>3

(* Where two sequences begin the same, so do their concatenations.         *)
LEMMA FlatAgrees ==
  ASSUME NEW S, NEW n \in Nat, NEW m \in Nat, n <= m,
         NEW q, NEW r, \A i \in 1 .. n : q[i] = r[i] /\ q[i] \in Seq(S),
         NEW g, IsFlat(g, q, n), NEW h, IsFlat(h, r, m)
  PROVE  \A i \in 1 .. n : g[i] = h[i] /\ g[i] \in Seq(S)
<1> DEFINE T == {j \in Nat : j <= n /\ j # 0 => g[j] = h[j] /\ g[j] \in Seq(S)}
<1>1. 0 \in T
  OBVIOUS
<1>2. ASSUME NEW j \in Nat, j \in T
      PROVE  j + 1 \in T
  <2> SUFFICES ASSUME j + 1 <= n
               PROVE  g[j + 1] = h[j + 1] /\ g[j + 1] \in Seq(S)
    OBVIOUS
  <2>1. j + 1 \in 1 .. n /\ j + 1 \in 1 .. m /\ (j + 1) - 1 = j /\ (j + 1 = 1 <=> j = 0)
    OBVIOUS
  <2>2. /\ Flat(g, q, n)[j + 1] = IF j = 0 THEN q[j + 1] ELSE g[j] \o q[j + 1]
        /\ Flat(h, r, m)[j + 1] = IF j = 0 THEN r[j + 1] ELSE h[j] \o r[j + 1]
    BY <2>1, Zenon DEF Flat
  <2>3. /\ g[j + 1] = IF j = 0 THEN q[j + 1] ELSE g[j] \o q[j + 1]
        /\ h[j + 1] = IF j = 0 THEN r[j + 1] ELSE h[j] \o r[j + 1]
    BY <2>2, Zenon DEF IsFlat
  <2>4. q[j + 1] = r[j + 1] /\ q[j + 1] \in Seq(S)
    BY <2>1
  <2>5. j # 0 => g[j] = h[j] /\ g[j] \in Seq(S)
    BY <1>2
  <2>6. j # 0 => g[j] \o q[j + 1] \in Seq(S)
    BY <2>4, <2>5, ConcatProperties
  <2> QED
    BY <2>3, <2>4, <2>5, <2>6, Zenon
<1>3. Nat \subseteq T
  <2> HIDE DEF T
  <2> QED
    BY <1>1, <1>2, SetInduction
<1> QED
  BY <1>3

LEMMA FlattenIs ==
  ASSUME NEW S, NEW q \in Seq(Seq(S)), Len(q) # 0
  PROVE  \E h : IsFlat(h, q, Len(q)) /\ FlattenSeq(q) = h[Len(q)]
<1> DEFINE H == CHOOSE h : h = Flat(h, q, Len(q))
<1>1. FlattenSeq(q) = H[Len(q)]
  BY DEF FlattenSeq, Flat
<1>2. H = Flat(H, q, Len(q))
  <2>1. Len(q) \in Nat
    OBVIOUS
  <2>2. \E h : h = Flat(h, q, Len(q))
    BY <2>1, FlatExists
  <2> QED
    BY <2>2, Zenon
<1> QED
  <2> HIDE DEF H
  <2> QED
    BY <1>1, <1>2 DEF IsFlat

LEMMA FlattenAppend ==
  ASSUME NEW S, NEW q \in Seq(Seq(S)), NEW e \in Seq(S)
  PROVE  /\ FlattenSeq(<<>>) = <<>>
         /\ FlattenSeq(q) \in Seq(S)
         /\ FlattenSeq(Append(q, e)) = FlattenSeq(q) \o e
<1> DEFINE r == Append(q, e)
           n == Len(q)
<1>1. FlattenSeq(<<>>) = <<>>
  BY DEF FlattenSeq
<1>2. /\ r \in Seq(Seq(S)) /\ Len(r) = n + 1 /\ n \in Nat
      /\ \A i \in 1 .. n : q[i] = r[i] /\ q[i] \in Seq(S)
      /\ r[n + 1] = e
  OBVIOUS
<1> HIDE DEF r
<1>3. PICK h : IsFlat(h, r, n + 1) /\ FlattenSeq(r) = h[n + 1]
  <2>1. Len(r) # 0
    BY <1>2
  <2> QED
    BY <1>2, <2>1, FlattenIs
<1>4. h[n + 1] = IF n = 0 THEN e ELSE h[n] \o e
  <2>1. n + 1 \in 1 .. n + 1 /\ (n + 1) - 1 = n /\ (n + 1 = 1 <=> n = 0)
    BY <1>2
  <2>2. Flat(h, r, n + 1)[n + 1] = IF n = 0 THEN r[n + 1] ELSE h[n] \o r[n + 1]
    BY <2>1, Zenon DEF Flat
  <2> QED
    BY <1>2, <1>3, <2>2, Zenon DEF IsFlat
<1>5. CASE n = 0
  <2>1. q = <<>>
    BY <1>5
  <2>2. <<>> \o e = e /\ <<>> \in Seq(S)
    BY ConcatEmptySeq
  <2> QED
    BY <1>1, <1>3, <1>4, <1>5, <2>1, <2>2, Zenon DEF r
<1>6. CASE n # 0
  <2>1. PICK g : IsFlat(g, q, n) /\ FlattenSeq(q) = g[n]
    BY <1>6, FlattenIs
  <2>2. g[n] = h[n] /\ g[n] \in Seq(S)
    <3>1. n <= n + 1 /\ n + 1 \in Nat /\ n \in 1 .. n
      BY <1>2, <1>6
    <3>2. \A i \in 1 .. n : g[i] = h[i] /\ g[i] \in Seq(S)
      <4> HIDE DEF n
      <4>1. n \in Nat /\ IsFlat(h, r, n + 1) /\ IsFlat(g, q, n)
        BY <1>2, <1>3, <2>1
      <4>2. \A i \in 1 .. n : q[i] = r[i] /\ q[i] \in Seq(S)
        BY <1>2
      <4> DEFINE m == n + 1
      <4>3. m \in Nat /\ n <= m /\ IsFlat(h, r, m)
        BY <3>1, <4>1
      <4> HIDE DEF m
      <4> QED
        BY <4>1, <4>2, <4>3, FlatAgrees
    <3> QED
      BY <3>1, <3>2, Zenon
  <2> QED
    BY <1>1, <1>3, <1>4, <1>6, <2>1, <2>2, Zenon DEF r
<1> QED
  BY <1>5, <1>6

Ended(r) == [i \in DOMAIN r |-> Append(r[i], Newline)]

LEMMA StringAppend ==
  ASSUME NEW r \in Rows, NEW l \in Seq(Letter)
  PROVE  /\ RowsToString(<<>>) = <<>>
         /\ RowsToString(r) \in Seq(Char)
         /\ Append(l, Newline) \in Seq(Char)
         /\ RowsToString(Append(r, l)) = RowsToString(r) \o Append(l, Newline)
<1>1. \A m \in Seq(Letter) : Append(m, Newline) \in Seq(Char)
  BY DEF Char
<1>2. Ended(r) \in Seq(Seq(Char)) /\ Len(Ended(r)) = Len(r)
  <2> DEFINE n == Len(r)
             q == [i \in 1 .. n |-> Append(r[i], Newline)]
  <2>1. n \in Nat /\ Ended(r) = q
    BY DEF Rows, Ended
  <2>2. \A i \in 1 .. n : Append(r[i], Newline) \in Seq(Char)
    BY <1>1 DEF Rows
  <2> HIDE DEF n
  <2>3. q \in Seq(Seq(Char)) /\ Len(q) = n
    BY <2>1, <2>2
  <2> QED
    BY <2>1, <2>3 DEF n
<1>3. Ended(Append(r, l)) = Append(Ended(r), Append(l, Newline))
  BY <1>1, <1>2 DEF Ended, Rows
<1>4. Ended(<<>>) = <<>>
  BY DEF Ended
<1>5. \A q : RowsToString(q) = FlattenSeq(Ended(q))
  BY DEF RowsToString, Ended
<1>6. /\ FlattenSeq(<<>>) = <<>>
      /\ FlattenSeq(Ended(r)) \in Seq(Char)
      /\ FlattenSeq(Append(Ended(r), Append(l, Newline)))
           = FlattenSeq(Ended(r)) \o Append(l, Newline)
  <2> DEFINE q == Ended(r)
             e == Append(l, Newline)
  <2>1. q \in Seq(Seq(Char)) /\ e \in Seq(Char)
    BY <1>1, <1>2
  <2> HIDE DEF q, e
  <2>2. /\ FlattenSeq(<<>>) = <<>> /\ FlattenSeq(q) \in Seq(Char)
        /\ FlattenSeq(Append(q, e)) = FlattenSeq(q) \o e
    BY <2>1, FlattenAppend, Zenon
  <2> QED
    BY <2>2, Zenon DEF q, e
<1> QED
  BY <1>1, <1>3, <1>4, <1>5, <1>6, Zenon

(* The string of rows that follow each other is that of the first ones and *)
(* then that of the others.                                                *)
LEMMA StringConcat ==
  ASSUME NEW r \in Rows, NEW u \in Rows
  PROVE  RowsToString(r \o u) = RowsToString(r) \o RowsToString(u)
<1> DEFINE T == {n \in Nat : \A v \in Rows : Len(v) = n =>
                   RowsToString(r \o v) = RowsToString(r) \o RowsToString(v)}
<1>1. 0 \in T
  <2> SUFFICES ASSUME NEW v \in Rows, Len(v) = 0
               PROVE  RowsToString(r \o v) = RowsToString(r) \o RowsToString(v)
    OBVIOUS
  <2>1. v = <<>> /\ <<>> \in Seq(Letter)
    BY DEF Rows
  <2>2. r \o v = r /\ RowsToString(v) = <<>>
    BY <2>1, ConcatEmptySeq, StringAppend DEF Rows
  <2>3. RowsToString(r) \in Seq(Char)
    BY <2>1, StringAppend
  <2>4. RowsToString(r) \o <<>> = RowsToString(r)
    BY <2>3, ConcatEmptySeq
  <2> QED
    BY <2>2, <2>4, Zenon
<1>2. ASSUME NEW n \in Nat, n \in T
      PROVE  n + 1 \in T
  <2> SUFFICES ASSUME NEW v \in Rows, Len(v) = n + 1
               PROVE  RowsToString(r \o v) = RowsToString(r) \o RowsToString(v)
    OBVIOUS
  <2>1. PICK w \in Rows, l \in Seq(Letter) : v = Append(w, l)
    <3>1. v # <<>>
      <4>1. Len(<<>>) = 0 /\ n + 1 # 0
        OBVIOUS
      <4> QED
        BY <4>1, Zenon
    <3> QED
      BY <3>1, SequenceEmptyOrAppend DEF Rows
  <2>2. Len(w) = n
    <3>1. Len(v) = Len(w) + 1 /\ Len(w) \in Nat
      BY <2>1, AppendProperties DEF Rows
    <3> QED
      BY <3>1
  <2>3. RowsToString(r \o w) = RowsToString(r) \o RowsToString(w)
    BY <1>2, <2>2
  <2>4. r \o v = Append(r \o w, l) /\ r \o w \in Rows
    BY <2>1 DEF Rows
  <2> DEFINE R == RowsToString(r)
             W == RowsToString(w)
             e == Append(l, Newline)
  <2>5. /\ R \in Seq(Char) /\ W \in Seq(Char) /\ e \in Seq(Char)
        /\ RowsToString(v) = W \o e
    BY <2>1, StringAppend, Zenon
  <2>6. RowsToString(r \o v) = RowsToString(r \o w) \o e
    <3> DEFINE q == r \o w
    <3>1. q \in Rows /\ r \o v = Append(q, l)
      BY <2>4
    <3> HIDE DEF q
    <3>2. RowsToString(Append(q, l)) = RowsToString(q) \o e
      BY <3>1, StringAppend, Zenon
    <3> QED
      BY <3>1, <3>2, Zenon DEF q
  <2>7. (R \o W) \o e = R \o (W \o e)
    <3> HIDE DEF R, W, e
    <3>1. R \in Seq(Char) /\ W \in Seq(Char) /\ e \in Seq(Char)
      BY <2>5
    <3> QED
      BY <3>1, ConcatAssociative
  <2> QED
    BY <2>3, <2>5, <2>6, <2>7, Zenon
<1>3. Len(u) \in T
  <2>1. Nat \subseteq T
    <3> HIDE DEF T
    <3> QED
      BY <1>1, <1>2, SetInduction
  <2>2. Len(u) \in Nat
    BY DEF Rows
  <2> HIDE DEF T
  <2> QED
    BY <2>1, <2>2
<1> QED
  BY <1>3

-----------------------------------------------------------------------------
(* A sequence in two parts, and what is put or taken between them.         *)

LEMMA Halves ==
  ASSUME NEW S, NEW r \in Seq(S), NEW y \in 0 .. Len(r)
  PROVE  /\ SubSeq(r, 1, y) \in Seq(S) /\ Len(SubSeq(r, 1, y)) = y
         /\ SubSeq(r, y + 1, Len(r)) \in Seq(S)
         /\ Len(SubSeq(r, y + 1, Len(r))) = Len(r) - y
         /\ r = SubSeq(r, 1, y) \o SubSeq(r, y + 1, Len(r))
<1>1. Len(r) \in Nat /\ \A i \in 1 .. Len(r) : r[i] \in S
  OBVIOUS
<1>2. SubSeq(r, 1, y) \in Seq(S) /\ Len(SubSeq(r, 1, y)) = y
  <2>1. \A i \in 1 .. y : r[i] \in S
    BY <1>1
  <2> QED
    BY <2>1, SubSeqProperties
<1>3. /\ SubSeq(r, y + 1, Len(r)) \in Seq(S)
      /\ Len(SubSeq(r, y + 1, Len(r))) = Len(r) - y
  <2> DEFINE m == y + 1
             n == Len(r)
  <2>1. m \in Int /\ n \in Int /\ \A i \in m .. n : r[i] \in S
    BY <1>1
  <2>2. /\ SubSeq(r, m, n) \in Seq(S)
        /\ Len(SubSeq(r, m, n)) = IF m <= n THEN n - m + 1 ELSE 0
    <3> HIDE DEF m, n
    <3> QED
      BY <2>1, SubSeqProperties
  <2> QED
    BY <2>1, <2>2
<1>4. SubSeq(r, 1, y) \o SubSeq(r, y + 1, Len(r)) = SubSeq(r, 1, Len(r))
  <2>1. 1 \in 1 .. Len(r) + 1 /\ y \in 1 - 1 .. Len(r) /\ Len(r) \in y .. Len(r)
    BY <1>1
  <2> QED
    BY <2>1, ConcatAdjacentSubSeq
<1> QED
  BY <1>2, <1>3, <1>4, SubSeqFull

LEMMA ConcatHalves ==
  ASSUME NEW S, NEW p \in Seq(S), NEW q \in Seq(S)
  PROVE  /\ p \o q \in Seq(S) /\ Len(p \o q) = Len(p) + Len(q)
         /\ SubSeq(p \o q, 1, Len(p)) = p
         /\ SubSeq(p \o q, Len(p) + 1, Len(p \o q)) = q
<1> DEFINE r == p \o q
<1>1. /\ r \in Seq(S) /\ Len(r) = Len(p) + Len(q)
      /\ Len(p) \in Nat /\ Len(q) \in Nat
      /\ \A i \in 1 .. Len(p) + Len(q) : r[i] = IF i <= Len(p) THEN p[i] ELSE q[i - Len(p)]
  BY ConcatProperties
<1> HIDE DEF r
<1>2. Len(p) \in 0 .. Len(r)
  BY <1>1
<1>3. /\ SubSeq(r, 1, Len(p)) \in Seq(S) /\ Len(SubSeq(r, 1, Len(p))) = Len(p)
      /\ SubSeq(r, Len(p) + 1, Len(r)) \in Seq(S)
      /\ Len(SubSeq(r, Len(p) + 1, Len(r))) = Len(q)
  BY <1>1, <1>2, Halves
<1>4. \A i \in 1 .. Len(p) : SubSeq(r, 1, Len(p))[i] = p[i]
  <2>1. \A i \in 1 .. Len(p) : r[i] \in S
    BY <1>1
  <2>2. \A i \in 1 .. Len(p) : SubSeq(r, 1, Len(p))[i] = r[i]
    BY <1>1, <2>1, SubSeqProperties
  <2> QED
    BY <1>1, <2>2
<1>5. \A i \in 1 .. Len(q) : SubSeq(r, Len(p) + 1, Len(r))[i] = q[i]
  <2> DEFINE m == Len(p) + 1
             n == Len(r)
  <2>1. m \in Int /\ n \in Int /\ \A i \in m .. n : r[i] \in S
    BY <1>1
  <2>2. \A i \in 1 .. n - m + 1 : SubSeq(r, m, n)[i] = r[m + i - 1]
    <3> HIDE DEF m, n
    <3> QED
      BY <2>1, SubSeqProperties
  <2>3. ASSUME NEW i \in 1 .. Len(q)
        PROVE  SubSeq(r, m, n)[i] = q[i]
    <3>1. i \in 1 .. n - m + 1 /\ m + i - 1 = Len(p) + i
      BY <1>1
    <3>2. r[Len(p) + i] = q[(Len(p) + i) - Len(p)] /\ (Len(p) + i) - Len(p) = i
      BY <1>1
    <3> HIDE DEF m, n
    <3> QED
      BY <2>2, <3>1, <3>2
  <2> QED
    BY <2>3
<1>6. SubSeq(r, 1, Len(p)) = p
  BY <1>3, <1>4, SeqEqual
<1>7. SubSeq(r, Len(p) + 1, Len(r)) = q
  BY <1>3, <1>5, SeqEqual
<1> QED
  BY <1>1, <1>6, <1>7 DEF r

LEMMA InsertBetween ==
  ASSUME NEW S, NEW p \in Seq(S), NEW q \in Seq(S), NEW e \in S
  PROVE  InsertAt(p \o q, Len(p) + 1, e) = Append(p, e) \o q
<1>1. (Len(p) + 1) - 1 = Len(p)
  OBVIOUS
<1>2. /\ SubSeq(p \o q, 1, Len(p)) = p
      /\ SubSeq(p \o q, Len(p) + 1, Len(p \o q)) = q
  BY ConcatHalves
<1>3. p \o <<e>> = Append(p, e)
  BY AppendIsConcat
<1> QED
  BY <1>1, <1>2, <1>3, Zenon DEF InsertAt

(* The element e behind the first p.                                       *)
LEMMA Middle ==
  ASSUME NEW S, NEW p \in Seq(S), NEW e \in S, NEW q \in Seq(S)
  PROVE  /\ Append(p, e) \o q \in Seq(S) /\ Append(p, e) \in Seq(S)
         /\ Len(Append(p, e) \o q) = Len(p) + 1 + Len(q) /\ Len(Append(p, e)) = Len(p) + 1
         /\ (Append(p, e) \o q)[Len(p) + 1] = e
         /\ SubSeq(Append(p, e) \o q, 1, Len(p)) = p
         /\ SubSeq(Append(p, e) \o q, 1, Len(p) + 1) = Append(p, e)
         /\ RemoveAt(Append(p, e) \o q, Len(p) + 1) = p \o q
<1> DEFINE o == Append(p, e)
           r == o \o q
<1>1. <<e>> \in Seq(S) /\ Len(<<e>>) = 1 /\ o = p \o <<e>>
  BY AppendIsConcat
<1>2. o \in Seq(S) /\ Len(o) = Len(p) + 1 /\ o[Len(p) + 1] = e
  BY AppendProperties
<1>3. r = p \o (<<e>> \o q) /\ <<e>> \o q \in Seq(S)
  BY <1>1, ConcatAssociative, ConcatProperties
<1>4. SubSeq(r, 1, Len(p)) = p
  <2> DEFINE t == <<e>> \o q
  <2>1. t \in Seq(S) /\ r = p \o t
    BY <1>3
  <2> HIDE DEF t, r
  <2> QED
    BY <2>1, ConcatHalves
<1>5. /\ r \in Seq(S) /\ Len(r) = Len(o) + Len(q)
      /\ SubSeq(r, 1, Len(o)) = o
      /\ SubSeq(r, Len(o) + 1, Len(r)) = q
  <2>1. o \in Seq(S)
    BY <1>2
  <2> HIDE DEF o
  <2> QED
    BY <2>1, ConcatHalves
<1>6. r[Len(p) + 1] = e
  <2>1. \A i \in 1 .. Len(o) + Len(q) : r[i] = IF i <= Len(o) THEN o[i] ELSE q[i - Len(o)]
    <3> HIDE DEF o
    <3> QED
      BY <1>2, ConcatProperties
  <2> HIDE DEF o, r
  <2> QED
    BY <1>2, <2>1
<1>7. RemoveAt(r, Len(p) + 1) = p \o q
  <2>1. (Len(p) + 1) - 1 = Len(p)
    OBVIOUS
  <2> HIDE DEF o, r
  <2> QED
    BY <1>2, <1>4, <1>5, <2>1, Zenon DEF RemoveAt
<1> HIDE DEF o, r
<1>8. Len(r) = Len(p) + 1 + Len(q)
  BY <1>2, <1>5
<1>9. SubSeq(r, 1, Len(p) + 1) = o
  BY <1>2, <1>5
<1> QED
  BY <1>2, <1>4, <1>5, <1>6, <1>7, <1>8, <1>9 DEF o, r

LEMMA RemoveBetween ==
  ASSUME NEW S, NEW p \in Seq(S), NEW e \in S, NEW q \in Seq(S)
  PROVE  RemoveAt(Append(p, e) \o q, Len(p) + 1) = p \o q
BY Middle, SMTT(30)

LEMMA MiddleExcept ==
  ASSUME NEW S, NEW p \in Seq(S), NEW e \in S, NEW d \in S, NEW q \in Seq(S)
  PROVE  [Append(p, e) \o q EXCEPT ![Len(p) + 1] = d] = Append(p, d) \o q
<1> DEFINE r == Append(p, e) \o q
           t == Append(p, d) \o q
           u == [r EXCEPT ![Len(p) + 1] = d]
           n == Len(p) + 1
<1>1. \A x \in S : /\ Append(p, x) \in Seq(S) /\ Len(Append(p, x)) = n
                   /\ \A i \in 1 .. Len(p) : Append(p, x)[i] = p[i]
                   /\ Append(p, x)[n] = x
  BY AppendProperties
<1>2. /\ r \in Seq(S) /\ Len(r) = n + Len(q)
      /\ \A i \in 1 .. n + Len(q) :
           r[i] = IF i <= n THEN Append(p, e)[i] ELSE q[i - n]
  <2> DEFINE o == Append(p, e)
  <2>1. o \in Seq(S) /\ Len(o) = n
    BY <1>1
  <2> HIDE DEF o, n
  <2> QED
    BY <2>1, ConcatProperties DEF o
<1>3. /\ t \in Seq(S) /\ Len(t) = n + Len(q)
      /\ \A i \in 1 .. n + Len(q) :
           t[i] = IF i <= n THEN Append(p, d)[i] ELSE q[i - n]
  <2> DEFINE o == Append(p, d)
  <2>1. o \in Seq(S) /\ Len(o) = n
    BY <1>1
  <2> HIDE DEF o, n
  <2> QED
    BY <2>1, ConcatProperties DEF o
<1>4. n \in 1 .. Len(r) /\ n = Len(p) + 1 /\ Len(p) \in Nat /\ Len(q) \in Nat
  BY <1>2
<1>5. /\ u \in Seq(S) /\ Len(u) = Len(r)
      /\ \A j \in 1 .. Len(r) : u[j] = IF j = n THEN d ELSE r[j]
  <2> HIDE DEF r, n
  <2> QED
    BY <1>2, <1>4, ExceptSeq
<1>6. ASSUME NEW j \in 1 .. Len(u)
      PROVE  u[j] = t[j]
  <2>1. j \in 1 .. n + Len(q) /\ j \in 1 .. Len(r)
    BY <1>2, <1>5
  <2>2. CASE j = n
    BY <1>1, <1>3, <1>5, <2>1, <2>2
  <2>3. CASE j < n
    <3>1. j \in 1 .. Len(p) /\ j <= n /\ j # n
      BY <1>4, <2>1, <2>3
    <3>2. Append(p, e)[j] = Append(p, d)[j]
      BY <1>1, <3>1, Zenon
    <3> HIDE DEF r, t, u, n
    <3>3. u[j] = r[j] /\ r[j] = Append(p, e)[j] /\ t[j] = Append(p, d)[j]
      BY <1>2, <1>3, <1>5, <2>1, <3>1, Zenon
    <3> QED
      BY <3>2, <3>3
  <2>4. CASE j > n
    <3>1. ~ (j <= n) /\ j # n
      BY <1>4, <2>1, <2>4
    <3> HIDE DEF r, t, u, n
    <3> QED
      BY <1>2, <1>3, <1>5, <2>1, <3>1, Zenon
  <2> QED
    BY <1>4, <2>1, <2>2, <2>3, <2>4
<1> HIDE DEF r, t, u
<1>7. Len(u) = Len(t)
  BY <1>2, <1>3, <1>5
<1>8. u = t
  BY <1>3, <1>5, <1>6, <1>7, SeqEqual
<1> QED
  BY <1>8 DEF r, t, u, n

LEMMA AtElement ==
  ASSUME NEW S, NEW r \in Seq(S), NEW y \in 0 .. Len(r) - 1
  PROVE  /\ SubSeq(r, 1, y) \in Seq(S) /\ Len(SubSeq(r, 1, y)) = y
         /\ r[y + 1] \in S /\ SubSeq(r, (y + 1) + 1, Len(r)) \in Seq(S)
         /\ r = Append(SubSeq(r, 1, y), r[y + 1]) \o SubSeq(r, (y + 1) + 1, Len(r))
<1> DEFINE p == SubSeq(r, 1, y)
           q == SubSeq(r, (y + 1) + 1, Len(r))
<1>1. Len(r) \in Nat /\ y \in 0 .. Len(r) /\ y + 1 \in 0 .. Len(r) /\ y + 1 \in 1 .. Len(r)
  OBVIOUS
<1>2. p \in Seq(S) /\ Len(p) = y
  BY <1>1, Halves
<1>3. q \in Seq(S) /\ r = SubSeq(r, 1, y + 1) \o q
  BY <1>1, Halves
<1>4. SubSeq(r, 1, y + 1) = SubSeq(r, 1, (y + 1) - 1) \o <<r[y + 1]>> /\ (y + 1) - 1 = y
  BY <1>1, SubSeqRecursiveSecond
<1>5. r[y + 1] \in S
  BY <1>1
<1>6. p \o <<r[y + 1]>> = Append(p, r[y + 1])
  BY <1>2, <1>5, AppendIsConcat
<1>7. r = Append(p, r[y + 1]) \o q
  <2> HIDE DEF q
  <2> QED
    BY <1>3, <1>4, <1>6
<1> HIDE DEF p, q
<1> QED
  BY <1>2, <1>3, <1>5, <1>7, Zenon DEF p, q

LEMMA AppendMoves ==
  ASSUME NEW S, NEW p \in Seq(S), NEW e \in S, NEW q \in Seq(S), NEW t, t = <<e>> \o q
  PROVE  Append(p, e) \o q = p \o t /\ t \in Seq(S)
<1>1. <<e>> \in Seq(S) /\ Append(p, e) = p \o <<e>>
  BY AppendIsConcat
<1> QED
  BY <1>1, ConcatAssociative, ConcatProperties

LEMMA AppendExcept ==
  ASSUME NEW S, NEW p \in Seq(S), NEW e \in S, NEW d \in S
  PROVE  /\ Append(p, e)[Len(p) + 1] = e
         /\ [Append(p, e) EXCEPT ![Len(p) + 1] = d] = Append(p, d)
<1>1. Append(p, e) \in Seq(S) /\ Append(p, d) \in Seq(S) /\ <<>> \in Seq(S)
  BY AppendProperties
<1>2. Append(p, e) \o <<>> = Append(p, e) /\ Append(p, d) \o <<>> = Append(p, d)
  BY <1>1, ConcatEmptySeq, Zenon
<1>3. [Append(p, e) \o <<>> EXCEPT ![Len(p) + 1] = d] = Append(p, d) \o <<>>
  <2> DEFINE q == <<>>
  <2>1. q \in Seq(S)
    OBVIOUS
  <2> HIDE DEF q
  <2>2. [Append(p, e) \o q EXCEPT ![Len(p) + 1] = d] = Append(p, d) \o q
    BY <2>1, MiddleExcept
  <2> QED
    BY <2>2 DEF q
<1>4. Append(p, e)[Len(p) + 1] = e
  BY AppendProperties
<1> QED
  BY <1>2, <1>3, <1>4, Zenon

-----------------------------------------------------------------------------
(* The inductive invariant: besides what the two invariants say, that a    *)
(* row holds letters, that the cursor is a byte, and that what is in the   *)
(* file can be read.                                                       *)

Inv ==
  /\ mode \in {"closed", "command", "insert", "astray"}
  /\ rows \in Rows
  /\ cursorX \in 0 .. CharRange - 1 /\ cursorY \in 0 .. CharRange - 1
  /\ rowOffset \in Nat /\ colOffset \in Nat
  /\ file = Absent \/ file \in Seq(Char)
  /\ lost \in BOOLEAN
  /\ CursorInText /\ CursorShown

LEMMA ByteIs ==
  ASSUME NEW n \in Nat
  PROVE  /\ Byte(n) \in 0 .. CharRange - 1 /\ Byte(n) <= n
         /\ n < CharRange => Byte(n) = n
         /\ n = CharRange => Byte(n) = 0
BY EditorAssumption DEF Byte

LEMMA ScrolledIs ==
  ASSUME NEW o \in Nat, NEW at \in Nat, NEW size \in Nat \ {0}
  PROVE  /\ Scrolled(o, at, size) \in Nat
         /\ at >= Scrolled(o, at, size) /\ at - Scrolled(o, at, size) < size
BY DEF Scrolled

LEMMA InRows ==
  ASSUME Inv
  PROVE  /\ numberOfRows \in Nat /\ cursorX \in Nat /\ cursorY \in Nat
         /\ cursorY <= numberOfRows
         /\ cursorX + 1 \in 0 .. CharRange /\ cursorY + 1 \in 0 .. CharRange
         /\ CharRange \in Nat \ {0}
         /\ \A i \in 1 .. numberOfRows : rows[i] \in Seq(Letter) /\ Len(rows[i]) \in Nat
BY EditorAssumption DEF Inv, CursorInText, numberOfRows, Rows

(* The row that the cursor is in, and the rows around it.                  *)
LEMMA RowAtCursor ==
  ASSUME Inv, InRow
  PROVE  \E a \in Rows, l \in Seq(Letter), b \in Rows :
           rows = Append(a, l) \o b /\ Len(a) = cursorY /\ Here = l
<1>1. rows \in Seq(Seq(Letter)) /\ cursorY \in 0 .. Len(rows) - 1
  BY InRows DEF Inv, Rows, InRow, numberOfRows
<1> QED
  <2> DEFINE a == SubSeq(rows, 1, cursorY)
             b == SubSeq(rows, (cursorY + 1) + 1, Len(rows))
  <2>1. /\ a \in Seq(Seq(Letter)) /\ rows[cursorY + 1] \in Seq(Letter)
        /\ b \in Seq(Seq(Letter))
        /\ rows = Append(a, rows[cursorY + 1]) \o b /\ Len(a) = cursorY
    BY <1>1, AtElement
  <2> HIDE DEF a, b
  <2> QED
    BY <2>1, Zenon DEF Rows, Here

(* A line in two parts, the first of k characters.                         *)
LEMMA LineAt ==
  ASSUME NEW l \in Seq(Letter), NEW k \in 0 .. Len(l)
  PROVE  \E m \in Seq(Letter), n \in Seq(Letter) :
           /\ l = m \o n /\ Len(m) = k /\ Len(n) = Len(l) - k
           /\ m = SubSeq(l, 1, k) /\ n = SubSeq(l, k + 1, Len(l))
BY Halves

Least(x, n) == IF x > n THEN n ELSE x

LEMMA LineInserted ==
  ASSUME NEW l \in Seq(Letter), NEW x \in Nat, NEW c \in Letter
  PROVE  \E m \in Seq(Letter), n \in Seq(Letter) :
           /\ l = m \o n /\ Len(m) = Least(x, Len(l))
           /\ RowInsertCharacter(l, x, c) = Append(m, c) \o n
<1>1. CASE x > Len(l)
  <2>1. l = l \o <<>> /\ <<>> \in Seq(Letter)
    BY ConcatEmptySeq
  <2>2. RowInsertCharacter(l, x, c) = Append(l, c) /\ Append(l, c) \in Seq(Letter)
    BY <1>1 DEF RowInsertCharacter
  <2>3. Append(l, c) \o <<>> = Append(l, c)
    BY <2>2, ConcatEmptySeq
  <2>4. Len(l) = Least(x, Len(l))
    BY <1>1 DEF Least
  <2> QED
    BY <2>1, <2>2, <2>3, <2>4, Zenon
<1>2. CASE ~ (x > Len(l))
  <2>1. x \in 0 .. Len(l) /\ Least(x, Len(l)) = x
    BY <1>2 DEF Least
  <2>2. PICK m \in Seq(Letter), n \in Seq(Letter) : l = m \o n /\ Len(m) = x
    BY <2>1, LineAt
  <2>3. InsertAt(m \o n, Len(m) + 1, c) = Append(m, c) \o n
    BY InsertBetween
  <2>4. RowInsertCharacter(l, x, c) = InsertAt(l, x + 1, c)
    BY <1>2 DEF RowInsertCharacter
  <2> QED
    BY <2>1, <2>2, <2>3, <2>4, Zenon
<1> QED
  BY <1>1, <1>2

LEMMA LineRemoved ==
  ASSUME NEW l \in Seq(Letter), NEW x \in Nat \ {0}, ~ (x = 1 /\ l = <<>>), x <= Len(l) + 1
  PROVE  \E m \in Seq(Letter), c \in Letter, n \in Seq(Letter) :
           /\ l = Append(m, c) \o n /\ Len(m) + 1 = Least(x, Len(l))
           /\ RowRemoveCharacter(l, x - 1) = m \o n
<1> DEFINE k == Least(x, Len(l)) - 1
<1>1. l # <<>> => Len(l) # 0
  OBVIOUS
<1>2. k \in Nat /\ k < Len(l) /\ Len(l) \in Nat /\ k + 1 = Least(x, Len(l))
  <2>1. l = <<>> => Len(l) = 0
    OBVIOUS
  <2>2. Len(l) # 0
    BY <1>1, <2>1
  <2> QED
    BY <2>2 DEF Least
<1> HIDE DEF k
<1>3. PICK m \in Seq(Letter), c \in Letter, n \in Seq(Letter) :
        l = Append(m, c) \o n /\ Len(m) = k
  <2> DEFINE m == SubSeq(l, 1, k)
             n == SubSeq(l, (k + 1) + 1, Len(l))
  <2>1. k \in 0 .. Len(l) - 1
    BY <1>2
  <2>2. /\ m \in Seq(Letter) /\ l[k + 1] \in Letter /\ n \in Seq(Letter)
        /\ l = Append(m, l[k + 1]) \o n /\ Len(m) = k
    BY <2>1, AtElement
  <2> HIDE DEF m, n
  <2> QED
    BY <2>2, Zenon
<1>4. RemoveAt(l, k + 1) = m \o n /\ Len(l) = k + 1 + Len(n) /\ Len(n) \in Nat
  <2>1. /\ RemoveAt(Append(m, c) \o n, Len(m) + 1) = m \o n
        /\ Len(Append(m, c) \o n) = Len(m) + 1 + Len(n)
    BY Middle
  <2> QED
    BY <1>3, <2>1
<1>5. CASE x <= Len(l)
  <2>1. k + 1 = x
    BY <1>2, <1>5 DEF Least
  <2>2. ~ (x - 1 > Len(l)) /\ x - 1 # Len(l) /\ (x - 1) + 1 = x
    BY <1>5
  <2>3. RowRemoveCharacter(l, x - 1) = RemoveAt(l, x)
    BY <2>2, Zenon DEF RowRemoveCharacter
  <2> QED
    BY <1>2, <1>3, <1>4, <2>1, <2>3
<1>6. CASE ~ (x <= Len(l))
  <2>1. x - 1 = Len(l) /\ ~ (x - 1 > Len(l)) /\ k + 1 = Len(l)
    BY <1>2, <1>6 DEF Least
  <2>2. RowRemoveCharacter(l, x - 1) = Front(l)
    BY <2>1, Zenon DEF RowRemoveCharacter
  <2>3. n = <<>>
    BY <1>2, <1>4, <2>1
  <2>4. m \o n = m
    BY <2>3, ConcatEmptySeq
  <2>5. SubSeq(l, 1, k) = m
    BY <1>3, Middle
  <2>6. Front(l) = m
    BY <2>1, <2>5, <1>2 DEF Front
  <2> QED
    BY <1>2, <1>3, <2>2, <2>4, <2>6, Zenon
<1> QED
  BY <1>5, <1>6

-----------------------------------------------------------------------------
(* What becomes of the string and of the place of the cursor in it.        *)

Place(r, x, y) ==
  Len(RowsToString(SubSeq(r, 1, y))) + IF ~ (y < Len(r)) THEN 0 ELSE Least(x, Len(r[y + 1]))

LEMMA StringTypes ==
  /\ RowsToString(<<>>) = <<>>
  /\ \A r \in Rows : RowsToString(r) \in Seq(Char) /\ Len(RowsToString(r)) \in Nat
  /\ \A l \in Seq(Letter) : l \in Seq(Char) /\ Append(l, Newline) \in Seq(Char)
  /\ Letter \subseteq Char /\ Newline \in Char
  /\ <<>> \in Rows /\ <<>> \in Seq(Letter)
<1>1. <<>> \in Rows /\ <<>> \in Seq(Letter)
  BY DEF Rows
<1>2. \A r \in Rows : RowsToString(r) \in Seq(Char)
  BY <1>1, StringAppend
<1>3. \A r \in Rows : Len(RowsToString(r)) \in Nat
  BY <1>2
<1>4. \A l \in Seq(Letter) : l \in Seq(Char) /\ Append(l, Newline) \in Seq(Char)
  BY DEF Char
<1>5. RowsToString(<<>>) = <<>>
  BY <1>1, StringAppend
<1> QED
  BY <1>1, <1>2, <1>3, <1>4, <1>5 DEF Char

(* A string cut at the cursor, which is behind the part m of its line.     *)
LEMMA StringCut ==
  ASSUME NEW a \in Rows, NEW m \in Seq(Letter), NEW n \in Seq(Letter), NEW b \in Rows
  PROVE  /\ RowsToString(a) \o m \in Seq(Char)
         /\ Append(n, Newline) \o RowsToString(b) \in Seq(Char)
         /\ Len(RowsToString(a) \o m) = Len(RowsToString(a)) + Len(m)
         /\ RowsToString(Append(a, m \o n) \o b)
              = (RowsToString(a) \o m) \o (Append(n, Newline) \o RowsToString(b))
<1> DEFINE A == RowsToString(a)
           B == RowsToString(b)
           N == Append(n, Newline)
           l == m \o n
<1>1. A \in Seq(Char) /\ B \in Seq(Char) /\ N \in Seq(Char) /\ m \in Seq(Char)
  BY StringTypes
<1>2. l \in Seq(Letter) /\ Append(l, Newline) = m \o N
  <2>1. l \in Seq(Letter) /\ l \in Seq(Char) /\ n \in Seq(Char) /\ Newline \in Char
    BY StringTypes, ConcatProperties
  <2>2. Append(l, Newline) = l \o <<Newline>> /\ N = n \o <<Newline>>
    <3> HIDE DEF l
    <3> QED
      BY <2>1, AppendIsConcat
  <2>3. (m \o n) \o <<Newline>> = m \o (n \o <<Newline>>)
    <3>1. <<Newline>> \in Seq(Char)
      BY <2>1
    <3> QED
      BY <1>1, <2>1, <3>1, ConcatAssociative
  <2> QED
    BY <2>1, <2>2, <2>3
<1>3. Append(a, l) \in Rows
  BY <1>2 DEF Rows
<1>4. RowsToString(Append(a, l) \o b) = (A \o (m \o N)) \o B
  <2> HIDE DEF l
  <2>1. RowsToString(Append(a, l)) = A \o Append(l, Newline)
    BY <1>2, StringAppend
  <2>2. RowsToString(Append(a, l) \o b) = RowsToString(Append(a, l)) \o B
    BY <1>3, StringConcat
  <2> QED
    BY <1>2, <2>1, <2>2, Zenon
<1> HIDE DEF A, B, N
<1>5. A \o m \in Seq(Char) /\ N \o B \in Seq(Char) /\ Len(A \o m) = Len(A) + Len(m)
  BY <1>1, ConcatProperties
<1>6. (A \o (m \o N)) \o B = (A \o m) \o (N \o B)
  <2>1. (A \o m) \o N = A \o (m \o N)
    BY <1>1
  <2> DEFINE P == A \o m
  <2>2. (P \o N) \o B = P \o (N \o B)
    <3>1. P \in Seq(Char)
      BY <1>5
    <3> HIDE DEF P
    <3> QED
      BY <1>1, <3>1
  <2> QED
    BY <2>1, <2>2
<1> QED
  BY <1>4, <1>5, <1>6, Zenon DEF A, B, N, l

LEMMA PlaceIs ==
  ASSUME NEW a \in Rows, NEW l \in Seq(Letter), NEW b \in Rows, NEW x
  PROVE  Place(Append(a, l) \o b, x, Len(a)) = Len(RowsToString(a)) + Least(x, Len(l))
<1> DEFINE r == Append(a, l) \o b
<1>1. /\ Len(r) = Len(a) + 1 + Len(b) /\ r[Len(a) + 1] = l /\ SubSeq(r, 1, Len(a)) = a
      /\ Len(a) \in Nat /\ Len(b) \in Nat
  BY Middle DEF Rows
<1> HIDE DEF r
<1>2. Len(a) < Len(r)
  BY <1>1
<1>3. Place(r, x, Len(a)) = Len(RowsToString(a)) + Least(x, Len(l))
  BY <1>1, <1>2, Zenon DEF Place
<1> QED
  BY <1>3 DEF r

LEMMA PlaceBegins ==
  ASSUME NEW a \in Rows, NEW b \in Rows
  PROVE  Place(a \o b, 0, Len(a)) = Len(RowsToString(a))
<1> DEFINE r == a \o b
<1>1. SubSeq(r, 1, Len(a)) = a /\ r \in Rows /\ Len(r) = Len(a) + Len(b)
  BY ConcatHalves DEF Rows
<1>2. Len(RowsToString(a)) \in Nat
  BY StringTypes
<1> HIDE DEF r
<1>3. Len(a) < Len(r) => Least(0, Len(r[Len(a) + 1])) = 0
  <2>1. Len(a) < Len(r) => r[Len(a) + 1] \in Seq(Letter)
    BY <1>1 DEF Rows
  <2> QED
    BY <2>1 DEF Least
<1>4. Place(r, 0, Len(a)) = Len(RowsToString(a)) + 0
  BY <1>1, <1>3, Zenon DEF Place
<1> QED
  BY <1>2, <1>4 DEF r

(* What a key does to the rows r: q are the rows after it.                 *)
Inserts(a, m, n, b, c, r, q) ==
  r = Append(a, m \o n) \o b /\ q = Append(a, Append(m, c) \o n) \o b
Breaks(a, m, n, b, r, q) ==
  r = Append(a, m \o n) \o b /\ q = Append(Append(a, m), n) \o b
AddsRow(a, b, r, q) == r = a \o b /\ q = Append(a, <<>>) \o b
Removes(a, m, c, n, b, r, q) ==
  r = Append(a, Append(m, c) \o n) \o b /\ q = Append(a, m \o n) \o b
Joins(a, m, l, b, r, q) ==
  r = Append(Append(a, m), l) \o b /\ q = Append(a, m \o l) \o b

LEMMA InsertedString ==
  ASSUME NEW a \in Rows, NEW m \in Seq(Letter), NEW n \in Seq(Letter), NEW b \in Rows,
         NEW x \in Nat, Len(m) = Least(x, Len(m \o n)), NEW c \in Letter,
         NEW r, NEW q, Inserts(a, m, n, b, c, r, q)
  PROVE  /\ RowsToString(q) = InsertAt(RowsToString(r), Place(r, x, Len(a)) + 1, c)
         /\ Place(q, x + 1, Len(a)) = Place(r, x, Len(a)) + 1
<1>1. r = Append(a, m \o n) \o b /\ q = Append(a, Append(m, c) \o n) \o b
  BY DEF Inserts
<1> USE <1>1
<1> DEFINE A == RowsToString(a)
           P == A \o m
           Q == Append(n, Newline) \o RowsToString(b)
<1>2. /\ A \in Seq(Char) /\ c \in Char /\ m \in Seq(Char) /\ Len(A) \in Nat /\ Len(m) \in Nat
      /\ Append(m, c) \in Seq(Letter)
  BY StringTypes
<1>3. /\ P \in Seq(Char) /\ Q \in Seq(Char) /\ Len(P) = Len(A) + Len(m)
      /\ RowsToString(r) = P \o Q
  BY StringCut
<1>4. RowsToString(q) = (A \o Append(m, c)) \o Q
  <2> DEFINE o == Append(m, c)
  <2>1. o \in Seq(Letter)
    BY <1>2
  <2> HIDE DEF o
  <2>2. RowsToString(Append(a, o \o n) \o b) = (A \o o) \o Q
    BY <2>1, StringCut
  <2> QED
    BY <2>2 DEF o
<1>5. A \o Append(m, c) = Append(P, c)
  <2> HIDE DEF A
  <2>1. <<c>> \in Seq(Char) /\ Append(m, c) = m \o <<c>>
    BY <1>2, AppendIsConcat
  <2>2. Append(P, c) = P \o <<c>>
    <3>1. P \in Seq(Char)
      BY <1>3
    <3> HIDE DEF P
    <3> QED
      BY <1>2, <3>1, AppendIsConcat
  <2>3. A \o (m \o <<c>>) = (A \o m) \o <<c>>
    BY <1>2, <2>1, ConcatAssociative
  <2> QED
    BY <2>1, <2>2, <2>3, Zenon
<1>6. m \o n \in Seq(Letter) /\ Len(m \o n) = Len(m) + Len(n) /\ Len(n) \in Nat
  <2>1. m \o n \in Seq(Letter) /\ Len(m \o n) = Len(m) + Len(n)
    BY ConcatProperties, Zenon
  <2> QED
    BY <2>1
<1>7. Append(m, c) \o n \in Seq(Letter) /\ Len(Append(m, c) \o n) = Len(m) + 1 + Len(n)
  BY Middle
<1>8. Place(r, x, Len(a)) = Len(P)
  <2>1. Place(r, x, Len(a)) = Len(A) + Least(x, Len(m \o n))
    BY <1>6, PlaceIs
  <2> QED
    BY <1>3, <2>1, Zenon
<1>9. Place(q, x + 1, Len(a)) = Len(P) + 1
  <2>1. Place(q, x + 1, Len(a)) = Len(A) + Least(x + 1, Len(Append(m, c) \o n))
    BY <1>7, PlaceIs
  <2>2. Least(x + 1, Len(Append(m, c) \o n)) = Len(m) + 1
    BY <1>2, <1>6, <1>7 DEF Least
  <2> HIDE DEF A, P
  <2> QED
    BY <1>2, <1>3, <2>1, <2>2
<1>10. InsertAt(P \o Q, Len(P) + 1, c) = Append(P, c) \o Q
  <2> HIDE DEF P, Q
  <2> QED
    BY <1>2, <1>3, InsertBetween
<1> HIDE DEF A, P, Q
<1> QED
  BY <1>3, <1>4, <1>5, <1>8, <1>9, <1>10, Zenon

LEMMA AddedString ==
  ASSUME NEW r \in Rows, NEW x \in Nat, NEW c \in Letter,
         NEW q, q = Append(r, <<c>>)
  PROVE  /\ RowsToString(q) = RowsToString(r) \o <<c, Newline>>
         /\ Place(r, x, Len(r)) = Len(RowsToString(r))
         /\ Place(q, x + 1, Len(r)) = Place(r, x, Len(r)) + 1
<1> DEFINE A == RowsToString(r)
           e == <<c>>
<1>1. A \in Seq(Char) /\ Len(A) \in Nat /\ e \in Seq(Letter) /\ Len(e) = 1 /\ <<>> \in Rows
  BY StringTypes
<1>2. RowsToString(q) = A \o <<c, Newline>>
  <2>1. Append(e, Newline) = <<c, Newline>>
    <3> DEFINE s == Append(e, Newline)
               t == <<c, Newline>>
    <3>1. s \in Seq(Char) /\ Len(s) = 2 /\ s[1] = c /\ s[2] = Newline
      BY StringTypes
    <3>2. t \in Seq(Char) /\ Len(t) = 2 /\ t[1] = c /\ t[2] = Newline
      BY StringTypes
    <3> HIDE DEF s, t
    <3>3. \A i \in 1 .. Len(s) : s[i] = t[i]
      BY <3>1, <3>2
    <3>4. s = t
      BY <3>1, <3>2, <3>3, SeqEqual
    <3> QED
      BY <3>4 DEF s, t
  <2> HIDE DEF A, e
  <2>2. RowsToString(Append(r, e)) = A \o Append(e, Newline)
    BY <1>1, StringAppend DEF A
  <2> QED
    BY <2>1, <2>2 DEF e
<1>3. Place(r, x, Len(r)) = Len(A)
  <2>1. ~ (Len(r) < Len(r)) /\ SubSeq(r, 1, Len(r)) = r
    BY SubSeqFull DEF Rows
  <2>2. Place(r, x, Len(r)) = Len(A) + 0
    BY <2>1, Zenon DEF Place
  <2> HIDE DEF A
  <2> QED
    BY <1>1, <2>2
<1>4. Place(q, x + 1, Len(r)) = Len(A) + 1
  <2>1. Append(r, e) \o <<>> = q
    BY <1>1, ConcatEmptySeq DEF Rows
  <2> HIDE DEF A, e
  <2>2. Place(Append(r, e) \o <<>>, x + 1, Len(r)) = Len(A) + Least(x + 1, Len(e))
    BY <1>1, PlaceIs DEF A
  <2>3. Least(x + 1, Len(e)) = 1
    BY <1>1 DEF Least
  <2> QED
    BY <2>1, <2>2, <2>3, Zenon
<1> QED
  BY <1>2, <1>3, <1>4, Zenon

(* A line feed inside of a line, and one before a line.                    *)
LEMMA BrokenString ==
  ASSUME NEW a \in Rows, NEW m \in Seq(Letter), NEW n \in Seq(Letter), NEW b \in Rows,
         NEW r, NEW q, Breaks(a, m, n, b, r, q)
  PROVE  /\ RowsToString(q) = InsertAt(RowsToString(r), Place(r, Len(m), Len(a)) + 1, Newline)
         /\ Place(q, 0, Len(a) + 1) = Place(r, Len(m), Len(a)) + 1
<1>1. r = Append(a, m \o n) \o b /\ q = Append(Append(a, m), n) \o b
  BY DEF Breaks
<1> USE <1>1
<1> DEFINE A == RowsToString(a)
           P == A \o m
           Q == Append(n, Newline) \o RowsToString(b)
           o == Append(a, m)
<1>2. /\ A \in Seq(Char) /\ Newline \in Char /\ m \in Seq(Char) /\ Len(A) \in Nat
      /\ o \in Rows /\ Len(o) = Len(a) + 1
      /\ <<>> \in Seq(Letter)
  BY StringTypes DEF Rows
<1>3. /\ P \in Seq(Char) /\ Q \in Seq(Char) /\ Len(P) = Len(A) + Len(m)
      /\ RowsToString(r) = P \o Q
  BY StringCut
<1>4. RowsToString(o) = Append(P, Newline)
  <2>1. RowsToString(o) = A \o Append(m, Newline)
    BY StringAppend
  <2>2. Append(m, Newline) = m \o <<Newline>> /\ Append(P, Newline) = P \o <<Newline>>
    <3>1. P \in Seq(Char)
      BY <1>3
    <3> HIDE DEF P
    <3> QED
      BY <1>2, <3>1, AppendIsConcat
  <2>3. A \o (m \o <<Newline>>) = P \o <<Newline>>
    <3>1. <<Newline>> \in Seq(Char)
      BY <1>2
    <3> HIDE DEF A
    <3> QED
      BY <1>2, <3>1
  <2> QED
    BY <2>1, <2>2, <2>3, Zenon
<1>5. RowsToString(q) = Append(P, Newline) \o Q
  <2>1. <<>> \o n = n /\ RowsToString(o) \in Seq(Char)
    BY <1>2, StringTypes, ConcatEmptySeq
  <2>2. RowsToString(o) \o <<>> = RowsToString(o)
    BY <2>1, ConcatEmptySeq
  <2> HIDE DEF o
  <2>3. RowsToString(Append(o, <<>> \o n) \o b) = (RowsToString(o) \o <<>>) \o Q
    BY <1>2, StringCut
  <2> QED
    BY <1>4, <2>1, <2>2, <2>3, Zenon DEF o
<1>6. m \o n \in Seq(Letter) /\ Len(m \o n) = Len(m) + Len(n) /\ Len(n) \in Nat
  <2>1. m \o n \in Seq(Letter) /\ Len(m \o n) = Len(m) + Len(n)
    BY ConcatProperties, Zenon
  <2> QED
    BY <2>1
<1>7. Place(r, Len(m), Len(a)) = Len(P)
  <2>1. Place(r, Len(m), Len(a)) = Len(A) + Least(Len(m), Len(m \o n))
    BY <1>6, PlaceIs
  <2>2. Least(Len(m), Len(m \o n)) = Len(m)
    BY <1>6 DEF Least
  <2> QED
    BY <1>3, <2>1, <2>2, Zenon
<1>8. Place(q, 0, Len(a) + 1) = Len(P) + 1
  <2>1. Append(o, n) \o b = q
    OBVIOUS
  <2>2. Len(Append(P, Newline)) = Len(P) + 1
    <3>1. P \in Seq(Char)
      BY <1>3
    <3> HIDE DEF P
    <3> QED
      BY <1>2, <3>1
  <2> HIDE DEF o
  <2>3. Place(Append(o, n) \o b, 0, Len(o)) = Len(RowsToString(o)) + Least(0, Len(n))
    BY <1>2, PlaceIs
  <2>4. Least(0, Len(n)) = 0
    BY <1>6 DEF Least
  <2>5. Place(q, 0, Len(a) + 1) = Len(Append(P, Newline)) + 0
    BY <1>2, <1>4, <2>1, <2>3, <2>4, Zenon
  <2> HIDE DEF P
  <2> QED
    BY <1>3, <2>2, <2>5
<1>9. InsertAt(P \o Q, Len(P) + 1, Newline) = Append(P, Newline) \o Q
  <2> HIDE DEF P, Q
  <2> QED
    BY <1>2, <1>3, InsertBetween
<1> HIDE DEF A, P, Q
<1> QED
  BY <1>3, <1>5, <1>7, <1>8, <1>9, Zenon

LEMMA RowAddedString ==
  ASSUME NEW a \in Rows, NEW b \in Rows,
         NEW r, NEW q, AddsRow(a, b, r, q)
  PROVE  /\ RowsToString(q) = InsertAt(RowsToString(r), Place(r, 0, Len(a)) + 1, Newline)
         /\ Place(q, 0, Len(a) + 1) = Place(r, 0, Len(a)) + 1
<1>1. r = a \o b /\ q = Append(a, <<>>) \o b
  BY DEF AddsRow
<1> USE <1>1
<1> DEFINE A == RowsToString(a)
           B == RowsToString(b)
           o == Append(a, <<>>)
<1>2. /\ A \in Seq(Char) /\ B \in Seq(Char) /\ Newline \in Char
      /\ <<>> \in Seq(Letter) /\ o \in Rows /\ Len(o) = Len(a) + 1
  BY StringTypes DEF Rows
<1>3. RowsToString(r) = A \o B
  BY StringConcat
<1>4. RowsToString(o) = Append(A, Newline)
  <2>1. RowsToString(o) = A \o Append(<<>>, Newline)
    BY <1>2, StringAppend
  <2>2. Append(<<>>, Newline) = <<Newline>>
    OBVIOUS
  <2> HIDE DEF A
  <2>3. Append(A, Newline) = A \o <<Newline>>
    BY <1>2, AppendIsConcat
  <2> QED
    BY <2>1, <2>2, <2>3, Zenon
<1>5. RowsToString(q) = Append(A, Newline) \o B
  <2>1. q = o \o b
    OBVIOUS
  <2> HIDE DEF o
  <2>2. RowsToString(o \o b) = RowsToString(o) \o B
    BY <1>2, StringConcat
  <2> QED
    BY <1>4, <2>1, <2>2, Zenon
<1>6. Place(r, 0, Len(a)) = Len(A)
  BY PlaceBegins
<1>7. Place(q, 0, Len(a) + 1) = Len(A) + 1
  <2>1. q = o \o b
    OBVIOUS
  <2> HIDE DEF o
  <2>2. Place(o \o b, 0, Len(o)) = Len(RowsToString(o))
    BY <1>2, PlaceBegins
  <2>3. Len(Append(A, Newline)) = Len(A) + 1
    <3> HIDE DEF A
    <3> QED
      BY <1>2
  <2> QED
    BY <1>2, <1>4, <2>1, <2>2, <2>3, Zenon
<1>8. InsertAt(A \o B, Len(A) + 1, Newline) = Append(A, Newline) \o B
  <2> HIDE DEF A, B
  <2> QED
    BY <1>2, InsertBetween
<1> HIDE DEF A, B
<1> QED
  BY <1>3, <1>5, <1>6, <1>7, <1>8, Zenon

LEMMA RemovedString ==
  ASSUME NEW a \in Rows, NEW m \in Seq(Letter), NEW c \in Letter, NEW n \in Seq(Letter),
         NEW b \in Rows, NEW x \in Nat, Len(m) + 1 = Least(x, Len(Append(m, c) \o n)),
         NEW r, NEW q, Removes(a, m, c, n, b, r, q)
  PROVE  /\ RowsToString(q) = RemoveAt(RowsToString(r), Place(r, x, Len(a)))
         /\ Place(q, x - 1, Len(a)) = Place(r, x, Len(a)) - 1
         /\ Place(r, x, Len(a)) > 0
<1>1. r = Append(a, Append(m, c) \o n) \o b /\ q = Append(a, m \o n) \o b
  BY DEF Removes
<1> USE <1>1
<1> DEFINE A == RowsToString(a)
           P == A \o m
           Q == Append(n, Newline) \o RowsToString(b)
           o == Append(m, c)
<1>2. /\ A \in Seq(Char) /\ c \in Char /\ m \in Seq(Char) /\ Len(A) \in Nat /\ Len(m) \in Nat
      /\ o \in Seq(Letter)
  BY StringTypes
<1>3. /\ P \in Seq(Char) /\ Q \in Seq(Char) /\ Len(P) = Len(A) + Len(m)
      /\ RowsToString(q) = P \o Q
  BY StringCut
<1>4. RowsToString(r) = (A \o o) \o Q
  <2>1. r = Append(a, o \o n) \o b
    OBVIOUS
  <2> HIDE DEF o
  <2>2. RowsToString(Append(a, o \o n) \o b) = (A \o o) \o Q
    BY <1>2, StringCut
  <2> QED
    BY <2>1, <2>2
<1>5. A \o o = Append(P, c)
  <2>1. <<c>> \in Seq(Char) /\ o = m \o <<c>>
    BY <1>2, AppendIsConcat
  <2>2. Append(P, c) = P \o <<c>>
    <3>1. P \in Seq(Char)
      BY <1>3
    <3> HIDE DEF P
    <3> QED
      BY <1>2, <3>1, AppendIsConcat
  <2> HIDE DEF A, o
  <2> HIDE <1>1
  <2>3. A \o (m \o <<c>>) = (A \o m) \o <<c>>
    BY <1>2, <2>1
  <2> QED
    BY <2>1, <2>2, <2>3, Zenon
<1>6. m \o n \in Seq(Letter) /\ Len(m \o n) = Len(m) + Len(n) /\ Len(n) \in Nat
  <2>1. m \o n \in Seq(Letter) /\ Len(m \o n) = Len(m) + Len(n)
    BY ConcatProperties, Zenon
  <2> QED
    BY <2>1
<1>7. o \o n \in Seq(Letter) /\ Len(o \o n) = Len(m) + 1 + Len(n)
  BY Middle
<1>8. Place(r, x, Len(a)) = Len(P) + 1
  <2>1. r = Append(a, o \o n) \o b /\ Least(x, Len(o \o n)) = Len(m) + 1
    OBVIOUS
  <2>2. Place(r, x, Len(a)) = Len(A) + Least(x, Len(o \o n))
    <3> DEFINE l == o \o n
    <3>1. l \in Seq(Letter)
      BY <1>7
    <3> HIDE DEF l
    <3>2. Place(Append(a, l) \o b, x, Len(a)) = Len(A) + Least(x, Len(l))
      BY <3>1, PlaceIs
    <3> QED
      BY <2>1, <3>2 DEF l
  <2> HIDE DEF A, P, o
  <2>3. Place(r, x, Len(a)) = Len(A) + (Len(m) + 1)
    BY <2>1, <2>2, Zenon
  <2> QED
    BY <1>2, <1>3, <2>3
<1>9. Place(q, x - 1, Len(a)) = Len(P)
  <2>1. Place(q, x - 1, Len(a)) = Len(A) + Least(x - 1, Len(m \o n))
    BY <1>6, PlaceIs
  <2>2. Least(x - 1, Len(m \o n)) = Len(m)
    <3>1. Len(m) + 1 = Least(x, Len(m) + 1 + Len(n))
      BY <1>7
    <3> QED
      BY <1>2, <1>6, <3>1 DEF Least
  <2> HIDE DEF A, P
  <2> QED
    BY <1>2, <1>3, <2>1, <2>2
<1>10. RemoveAt(Append(P, c) \o Q, Len(P) + 1) = P \o Q
  <2> HIDE DEF P, Q
  <2> QED
    BY <1>2, <1>3, RemoveBetween
<1>11. Len(P) \in Nat
  BY <1>2, <1>3
<1> HIDE DEF A, P, Q, o
<1>12. RowsToString(q) = RemoveAt(RowsToString(r), Place(r, x, Len(a)))
  BY <1>3, <1>4, <1>5, <1>8, <1>10, Zenon
<1> QED
  BY <1>8, <1>9, <1>11, <1>12

LEMMA JoinedString ==
  ASSUME NEW a \in Rows, NEW m \in Seq(Letter), NEW l \in Seq(Letter), NEW b \in Rows,
         NEW r, NEW q, Joins(a, m, l, b, r, q)
  PROVE  /\ RowsToString(q) = RemoveAt(RowsToString(r), Place(r, 0, Len(a) + 1))
         /\ Place(q, Len(m), Len(a)) = Place(r, 0, Len(a) + 1) - 1
         /\ Place(r, 0, Len(a) + 1) > 0
<1>1. r = Append(Append(a, m), l) \o b /\ q = Append(a, m \o l) \o b
  BY DEF Joins
<1> USE <1>1
<1>2. /\ RowsToString(r) = InsertAt(RowsToString(q), Place(q, Len(m), Len(a)) + 1, Newline)
      /\ Place(r, 0, Len(a) + 1) = Place(q, Len(m), Len(a)) + 1
  <2>1. Breaks(a, m, l, b, q, r)
    BY DEF Breaks
  <2> HIDE <1>1
  <2> QED
    BY <2>1, BrokenString
<1> DEFINE P == RowsToString(a) \o m
           Q == Append(l, Newline) \o RowsToString(b)
<1>3. /\ P \in Seq(Char) /\ Q \in Seq(Char) /\ Len(P) = Len(RowsToString(a)) + Len(m)
      /\ RowsToString(q) = P \o Q
  BY StringCut
<1>4. Place(q, Len(m), Len(a)) = Len(P)
  <2>1. m \o l \in Seq(Letter) /\ Len(m \o l) = Len(m) + Len(l)
    BY ConcatProperties, Zenon
  <2>2. Place(q, Len(m), Len(a)) = Len(RowsToString(a)) + Least(Len(m), Len(m \o l))
    BY <2>1, PlaceIs
  <2>3. Least(Len(m), Len(m \o l)) = Len(m)
    BY <2>1 DEF Least
  <2> QED
    BY <1>3, <2>2, <2>3, Zenon
<1>5. /\ InsertAt(P \o Q, Len(P) + 1, Newline) = Append(P, Newline) \o Q
      /\ RemoveAt(Append(P, Newline) \o Q, Len(P) + 1) = P \o Q
      /\ Len(P) \in Nat
  <2>1. P \in Seq(Char) /\ Q \in Seq(Char) /\ Newline \in Char
    BY <1>3, StringTypes
  <2> HIDE DEF P, Q
  <2>2. Len(P) \in Nat
    BY <2>1
  <2>3. InsertAt(P \o Q, Len(P) + 1, Newline) = Append(P, Newline) \o Q
    BY <2>1, InsertBetween
  <2>4. RemoveAt(Append(P, Newline) \o Q, Len(P) + 1) = P \o Q
    BY <2>1, RemoveBetween
  <2> QED
    BY <2>1, <2>2, <2>3, <2>4
<1> HIDE DEF P, Q
<1>6. RowsToString(q) = RemoveAt(RowsToString(r), Place(r, 0, Len(a) + 1))
  BY <1>2, <1>3, <1>4, <1>5, Zenon
<1> QED
  BY <1>2, <1>4, <1>5, <1>6

LEMMA RowsAfter ==
  ASSUME NEW a \in Rows, NEW l \in Seq(Letter), NEW b \in Rows
  PROVE  /\ Append(a, l) \o b \in Rows /\ Len(Append(a, l) \o b) = Len(a) + 1 + Len(b)
         /\ Append(a, l) \in Rows /\ Len(Append(a, l)) = Len(a) + 1
         /\ Len(a) \in Nat /\ Len(b) \in Nat
BY Middle DEF Rows

(* A row and those behind it, as rows of their own.                        *)
LEMMA RowsBehind ==
  ASSUME NEW l \in Seq(Letter), NEW b \in Rows
  PROVE  \E u \in Rows : \A o \in Rows : Append(o, l) \o b = o \o u
<1> DEFINE u == <<l>> \o b
<1>1. u \in Rows
  BY DEF Rows
<1>2. ASSUME NEW o \in Rows
      PROVE  Append(o, l) \o b = o \o u
  BY AppendMoves DEF Rows
<1> QED
  BY <1>1, <1>2, Zenon

(* Each key in insert mode is one of those.                                *)
LEMMA InsertCharacterIs ==
  ASSUME Inv, NEW c \in Letter, InsertCharacter(c)
  PROVE  \/ /\ cursorY = numberOfRows /\ rows' = Append(rows, <<c>>)
         \/ \E a \in Rows, m \in Seq(Letter), n \in Seq(Letter), b \in Rows :
              /\ Len(a) = cursorY /\ Len(m) = Least(cursorX, Len(m \o n))
              /\ Inserts(a, m, n, b, c, rows, rows')
<1>1. CASE cursorY = numberOfRows
  <2>1. InsertRow(rows, numberOfRows, <<>>) = Append(rows, <<>>)
    <3>1. <<>> \in Seq(Letter) /\ rows \in Seq(Seq(Letter)) /\ <<>> \in Seq(Seq(Letter))
      BY DEF Inv, Rows
    <3>2. rows \o <<>> = rows
      BY <3>1, ConcatEmptySeq
    <3>3. InsertAt(rows \o <<>>, Len(rows) + 1, <<>>) = Append(rows, <<>>) \o <<>>
      BY <3>1, InsertBetween
    <3>4. Append(rows, <<>>) \o <<>> = Append(rows, <<>>)
      <4>1. Append(rows, <<>>) \in Seq(Seq(Letter))
        BY <3>1
      <4> QED
        BY <4>1, ConcatEmptySeq
    <3> QED
      BY <3>2, <3>3, <3>4, Zenon DEF InsertRow, numberOfRows
  <2>2. RowInsertCharacter(<<>>, cursorX, c) = <<c>>
    <3>1. <<>> \in Seq(Letter) /\ cursorX \in Nat
      BY InRows
    <3>2. PICK m \in Seq(Letter), n \in Seq(Letter) :
            <<>> = m \o n /\ RowInsertCharacter(<<>>, cursorX, c) = Append(m, c) \o n
      BY <3>1, LineInserted
    <3>3. m = <<>> /\ n = <<>>
      <4>1. Len(m \o n) = Len(m) + Len(n)
        BY ConcatProperties, Zenon
      <4>2. Len(m) + Len(n) = 0 /\ Len(m) \in Nat /\ Len(n) \in Nat
        <5>1. Len(<<>>) = 0
          OBVIOUS
        <5>2. Len(m) + Len(n) = 0
          BY <3>2, <4>1, <5>1, Zenon
        <5> QED
          BY <5>2
      <4>3. Len(m) = 0 /\ Len(n) = 0
        BY <4>2
      <4> QED
        BY <4>3
    <3> QED
      BY <3>2, <3>3
  <2> DEFINE r == Append(rows, <<>>)
  <2>3. rows' = [r EXCEPT ![cursorY + 1] = RowInsertCharacter(r[cursorY + 1], cursorX, c)]
    BY <1>1, <2>1, Zenon DEF InsertCharacter
  <2>4. /\ r[cursorY + 1] = <<>>
        /\ [r EXCEPT ![cursorY + 1] = <<c>>] = Append(rows, <<c>>)
    <3>1. rows \in Seq(Seq(Letter)) /\ <<>> \in Seq(Letter) /\ <<c>> \in Seq(Letter)
      BY DEF Inv, Rows
    <3>2. cursorY + 1 = Len(rows) + 1
      BY <1>1 DEF numberOfRows
    <3> DEFINE e == <<>>
               d == <<c>>
    <3>3. rows \in Seq(Seq(Letter)) /\ e \in Seq(Letter) /\ d \in Seq(Letter)
      BY <3>1
    <3> HIDE DEF e, d
    <3>4. /\ Append(rows, e)[Len(rows) + 1] = e
          /\ [Append(rows, e) EXCEPT ![Len(rows) + 1] = d] = Append(rows, d)
      BY <3>3, AppendExcept
    <3> QED
      BY <3>2, <3>4, Zenon DEF e, d
  <2> HIDE DEF r
  <2>5. rows' = Append(rows, <<c>>)
    BY <2>2, <2>3, <2>4, Zenon
  <2> QED
    BY <1>1, <2>5
<1>2. CASE cursorY # numberOfRows
  <2>1. InRow
    BY <1>2, InRows DEF InRow
  <2>2. PICK a \in Rows, l \in Seq(Letter), b \in Rows :
          rows = Append(a, l) \o b /\ Len(a) = cursorY /\ Here = l
    BY <2>1, RowAtCursor
  <2>3. PICK m \in Seq(Letter), n \in Seq(Letter) :
          /\ l = m \o n /\ Len(m) = Least(cursorX, Len(l))
          /\ RowInsertCharacter(l, cursorX, c) = Append(m, c) \o n
    BY InRows, LineInserted
  <2>4. rows' = [rows EXCEPT ![cursorY + 1] = RowInsertCharacter(rows[cursorY + 1], cursorX, c)]
    BY <1>2, Zenon DEF InsertCharacter
  <2> DEFINE d == Append(m, c) \o n
  <2>5. d \in Seq(Letter)
    BY Middle
  <2>6. rows' = [Append(a, l) \o b EXCEPT ![Len(a) + 1] = d]
    <3> HIDE DEF d
    <3> QED
      BY <2>2, <2>3, <2>4, Zenon DEF Here, d
  <2>7. [Append(a, l) \o b EXCEPT ![Len(a) + 1] = d] = Append(a, d) \o b
    <3> HIDE DEF d
    <3> QED
      BY <2>5, MiddleExcept DEF Rows
  <2>8. Inserts(a, m, n, b, c, rows, rows')
    BY <2>2, <2>3, <2>6, <2>7, Zenon DEF Inserts
  <2>9. Len(m) = Least(cursorX, Len(m \o n))
    BY <2>3, Zenon
  <2> QED
    BY <2>2, <2>8, <2>9, Zenon
<1> QED
  BY <1>1, <1>2

LEMMA InsertNewLineIs ==
  ASSUME Inv, InsertNewLine
  PROVE  \/ /\ cursorX = 0
            /\ \E a \in Rows, b \in Rows : Len(a) = cursorY /\ AddsRow(a, b, rows, rows')
         \/ \E a \in Rows, m \in Seq(Letter), n \in Seq(Letter), b \in Rows :
              /\ Len(a) = cursorY /\ Len(m) = cursorX
              /\ Breaks(a, m, n, b, rows, rows')
<1>1. CASE cursorX = 0
  <2> DEFINE a == SubSeq(rows, 1, cursorY)
             b == SubSeq(rows, cursorY + 1, Len(rows))
  <2>1. a \in Rows /\ b \in Rows /\ Len(a) = cursorY /\ rows = a \o b
    <3>1. rows \in Seq(Seq(Letter)) /\ cursorY \in 0 .. Len(rows)
      BY InRows DEF Inv, Rows, numberOfRows
    <3> QED
      BY <3>1, Halves DEF Rows
  <2> HIDE DEF a, b
  <2>2. InsertAt(a \o b, Len(a) + 1, <<>>) = Append(a, <<>>) \o b
    <3>1. <<>> \in Seq(Letter)
      OBVIOUS
    <3> QED
      BY <2>1, <3>1, InsertBetween DEF Rows
  <2>3. rows' = InsertAt(rows, cursorY + 1, <<>>)
    BY <1>1, Zenon DEF InsertNewLine, InsertRow
  <2>4. AddsRow(a, b, rows, rows')
    BY <2>1, <2>2, <2>3, Zenon DEF AddsRow
  <2> QED
    BY <1>1, <2>1, <2>4, Zenon
<1>2. CASE cursorX # 0
  <2>1. InRow /\ cursorX <= Len(Here)
    BY <1>2 DEF InsertNewLine
  <2>2. PICK a \in Rows, l \in Seq(Letter), b \in Rows :
          rows = Append(a, l) \o b /\ Len(a) = cursorY /\ Here = l
    BY <2>1, RowAtCursor
  <2>3. PICK m \in Seq(Letter), n \in Seq(Letter) :
          /\ l = m \o n /\ Len(m) = cursorX
          /\ m = SubSeq(l, 1, cursorX) /\ n = SubSeq(l, cursorX + 1, Len(l))
    <3>1. cursorX \in 0 .. Len(l)
      BY <2>1, <2>2, InRows
    <3> QED
      BY <3>1, LineAt
  <2>4. rows' = [InsertAt(rows, (cursorY + 1) + 1, n) EXCEPT ![cursorY + 1] = m]
    BY <1>2, <2>2, <2>3, Zenon DEF InsertNewLine, InsertRow
  <2> DEFINE p == Append(a, l)
             u == <<n>> \o b
  <2>5. p \in Rows /\ Len(p) = Len(a) + 1 /\ u \in Rows /\ p \o u = Append(p, n) \o b
    <3>1. p \in Rows /\ Len(p) = Len(a) + 1
      BY RowsAfter
    <3> HIDE DEF p
    <3>2. u = <<n>> \o b
      OBVIOUS
    <3> HIDE DEF u
    <3>3. Append(p, n) \o b = p \o u /\ u \in Rows
      BY <3>1, <3>2, AppendMoves DEF Rows
    <3> QED
      BY <3>1, <3>3
  <2>6. InsertAt(rows, (cursorY + 1) + 1, n) = Append(a, l) \o u
    <3> HIDE DEF p, u
    <3>1. InsertAt(p \o b, Len(p) + 1, n) = Append(p, n) \o b
      BY <2>5, InsertBetween DEF Rows
    <3> QED
      BY <2>2, <2>5, <3>1, Zenon DEF p
  <2>7. [Append(a, l) \o u EXCEPT ![Len(a) + 1] = m] = Append(a, m) \o u
    <3>1. u \in Rows
      BY <2>5
    <3> HIDE DEF u
    <3> QED
      BY <3>1, MiddleExcept DEF Rows
  <2>8. Append(a, m) \o u = Append(Append(a, m), n) \o b
    <3> DEFINE o == Append(a, m)
    <3>1. o \in Rows
      BY RowsAfter
    <3>2. u = <<n>> \o b
      OBVIOUS
    <3> HIDE DEF o, u
    <3>3. Append(o, n) \o b = o \o u
      BY <3>1, <3>2, AppendMoves DEF Rows
    <3> QED
      BY <3>3 DEF o
  <2> HIDE DEF p, u
  <2>9. rows' = Append(Append(a, m), n) \o b
    BY <2>2, <2>4, <2>6, <2>7, <2>8, Zenon
  <2>10. Breaks(a, m, n, b, rows, rows')
    BY <2>2, <2>3, <2>9, Zenon DEF Breaks
  <2> QED
    BY <2>2, <2>3, <2>10, Zenon
<1> QED
  BY <1>1, <1>2

LEMMA RemoveCharacterIs ==
  ASSUME Inv, RemoveCharacter
  PROVE  \/ /\ cursorX > Len(Here) + 1 /\ rows' = rows
         \/ \E a \in Rows, m \in Seq(Letter), c \in Letter, n \in Seq(Letter), b \in Rows :
              /\ Len(a) = cursorY /\ Len(m) + 1 = Least(cursorX, Len(Append(m, c) \o n))
              /\ Removes(a, m, c, n, b, rows, rows')
<1>1. InRow /\ cursorX \in Nat \ {0} /\ ~ (cursorX = 1 /\ Here = <<>>)
  BY InRows DEF RemoveCharacter
<1>2. PICK a \in Rows, l \in Seq(Letter), b \in Rows :
        rows = Append(a, l) \o b /\ Len(a) = cursorY /\ Here = l
  BY <1>1, RowAtCursor
<1>3. rows' = [rows EXCEPT ![cursorY + 1] = RowRemoveCharacter(rows[cursorY + 1], cursorX - 1)]
  BY DEF RemoveCharacter
<1>4. CASE cursorX > Len(l) + 1
  <2>1. cursorX - 1 > Len(l)
    BY <1>1, <1>4
  <2>2. RowRemoveCharacter(l, cursorX - 1) = l
    BY <2>1 DEF RowRemoveCharacter
  <2>3. rows' = [Append(a, l) \o b EXCEPT ![Len(a) + 1] = l]
    BY <1>2, <1>3, <2>2, Zenon DEF Here
  <2>4. [Append(a, l) \o b EXCEPT ![Len(a) + 1] = l] = Append(a, l) \o b
    BY MiddleExcept DEF Rows
  <2>5. rows' = rows
    BY <1>2, <2>3, <2>4, Zenon
  <2> QED
    BY <1>2, <1>4, <2>5
<1>5. CASE ~ (cursorX > Len(l) + 1)
  <2>1. ~ (cursorX = 1 /\ l = <<>>) /\ cursorX <= Len(l) + 1
    BY <1>1, <1>2, <1>5
  <2>2. PICK m \in Seq(Letter), c \in Letter, n \in Seq(Letter) :
          /\ l = Append(m, c) \o n /\ Len(m) + 1 = Least(cursorX, Len(l))
          /\ RowRemoveCharacter(l, cursorX - 1) = m \o n
    BY <1>1, <2>1, LineRemoved
  <2> DEFINE d == m \o n
  <2>3. d \in Seq(Letter)
    BY ConcatProperties, Zenon
  <2>4. rows' = [Append(a, l) \o b EXCEPT ![Len(a) + 1] = d]
    BY <1>2, <1>3, <2>2, Zenon DEF Here
  <2>5. [Append(a, l) \o b EXCEPT ![Len(a) + 1] = d] = Append(a, d) \o b
    <3> HIDE DEF d
    <3> QED
      BY <2>3, MiddleExcept DEF Rows
  <2>6. Removes(a, m, c, n, b, rows, rows')
    BY <1>2, <2>2, <2>4, <2>5, Zenon DEF Removes
  <2>7. Len(m) + 1 = Least(cursorX, Len(Append(m, c) \o n))
    BY <2>2, Zenon
  <2> QED
    BY <1>2, <2>6, <2>7, Zenon
<1> QED
  BY <1>4, <1>5

LEMMA JoinLinesIs ==
  ASSUME Inv, JoinLines
  PROVE  \E a \in Rows, m \in Seq(Letter), b \in Rows :
           /\ Len(a) + 1 = cursorY /\ Len(m) = Len(rows[cursorY])
           /\ Here \in Seq(Letter) /\ rows[1] \in Seq(Letter)
           /\ rows = Append(Append(a, m), Here) \o b
           /\ rows' = Append(a, m \o rows[1]) \o b
<1>1. InRow /\ cursorY \in Nat /\ cursorY # 0
  BY InRows DEF JoinLines
<1>2. PICK p \in Rows, l \in Seq(Letter), b \in Rows :
        rows = Append(p, l) \o b /\ Len(p) = cursorY /\ Here = l
  BY <1>1, RowAtCursor
<1>3. PICK a \in Rows, m \in Seq(Letter) : p = Append(a, m)
  <2>1. p # <<>>
    <3>1. Len(<<>>) = 0
      OBVIOUS
    <3> QED
      BY <1>1, <1>2, <3>1, Zenon
  <2> QED
    BY <2>1, SequenceEmptyOrAppend DEF Rows
<1>4. Len(a) + 1 = cursorY /\ Len(a) \in Nat
  <2>1. Len(Append(a, m)) = Len(a) + 1 /\ Len(a) \in Nat
    BY RowsAfter
  <2> QED
    BY <1>2, <1>3, <2>1, Zenon
<1> PICK u \in Rows : \A o \in Rows : Append(o, l) \o b = o \o u
  BY RowsBehind
<1>5. rows = Append(a, m) \o u
  BY <1>2, <1>3, Zenon
<1>6. rows[cursorY] = m
  <2>1. (Append(a, m) \o u)[Len(a) + 1] = m
    BY <1>5, Middle DEF Rows
  <2> QED
    BY <1>4, <1>5, <2>1, Zenon
<1>7. rows[1] \in Seq(Letter)
  <2>1. 1 \in 1 .. numberOfRows
    BY <1>1, InRows DEF InRow
  <2> QED
    BY <2>1, InRows
<1> DEFINE d == m \o rows[1]
<1>8. d \in Seq(Letter)
  BY <1>7, ConcatProperties, Zenon
<1>9. rows' = RemoveAt([Append(a, m) \o u EXCEPT ![Len(a) + 1] = d], cursorY + 1)
  <2>1. rows' = RemoveAt([rows EXCEPT ![cursorY] = rows[cursorY] \o rows[1]], cursorY + 1)
    BY DEF JoinLines
  <2> QED
    BY <1>4, <1>5, <1>6, <2>1, Zenon
<1>10. [Append(a, m) \o u EXCEPT ![Len(a) + 1] = d] = Append(a, d) \o u
  <2> HIDE DEF d
  <2> QED
    BY <1>8, MiddleExcept DEF Rows
<1>11. RemoveAt(Append(a, d) \o u, cursorY + 1) = Append(a, d) \o b
  <2> DEFINE o == Append(a, d)
  <2>1. o \in Rows /\ Len(o) = cursorY
    <3> HIDE DEF d
    <3>1. o \in Rows /\ Len(o) = Len(a) + 1
      BY <1>8, RowsAfter
    <3> QED
      BY <1>4, <3>1, Zenon
  <2> HIDE DEF o
  <2>2. Append(o, l) \o b = o \o u
    BY <2>1, Zenon
  <2>3. RemoveAt(Append(o, l) \o b, Len(o) + 1) = o \o b
    BY <2>1, RemoveBetween DEF Rows
  <2> QED
    BY <2>1, <2>2, <2>3, Zenon DEF o
<1>12. rows' = Append(a, d) \o b
  <2> HIDE DEF d
  <2> QED
    BY <1>9, <1>10, <1>11, Zenon
<1> QED
  BY <1>2, <1>3, <1>4, <1>6, <1>7, <1>12, Zenon

-----------------------------------------------------------------------------
(* Each key keeps the invariant.                                           *)

LEMMA ShowsCursor ==
  ASSUME Inv, ScrollScreen, cursorX' \in Nat, cursorY' \in Nat
  PROVE  rowOffset' \in Nat /\ colOffset' \in Nat /\ CursorShown'
<1> DEFINE x == cursorX'
           y == cursorY'
           ro == rowOffset'
           co == colOffset'
<1>1. /\ ro = Scrolled(rowOffset, y, Lines) /\ co = Scrolled(colOffset, x, Width)
      /\ x \in Nat /\ y \in Nat /\ rowOffset \in Nat /\ colOffset \in Nat
  BY DEF ScrollScreen, Inv
<1> HIDE DEF x, y, ro, co
<1>2. Lines \in Nat \ {0} /\ Width \in Nat \ {0}
  BY EditorAssumption
<1>3. /\ ro \in Nat /\ y >= ro /\ y - ro < Lines
      /\ co \in Nat /\ x >= co /\ x - co < Width
  BY <1>1, <1>2, ScrolledIs
<1> QED
  BY <1>3 DEF CursorShown, x, y, ro, co

LEMMA InitTyped ==
  ASSUME Init
  PROVE  Inv
<1>1. <<>> \in Rows /\ Len(<<>>) = 0
  BY DEF Rows
<1>2. file = Absent \/ file \in Seq(Char)
  BY EditorAssumption DEF Init, Char
<1>3. /\ mode = "closed" /\ rows = <<>> /\ cursorX = 0 /\ cursorY = 0
      /\ rowOffset = 0 /\ colOffset = 0 /\ lost = FALSE
  BY DEF Init
<1>4. CursorInText
  BY <1>1, <1>3 DEF CursorInText, numberOfRows
<1>5. CursorShown
  BY <1>3 DEF CursorShown
<1>6. 0 \in 0 .. CharRange - 1
  BY EditorAssumption
<1> QED
  BY <1>1, <1>2, <1>3, <1>4, <1>5, <1>6 DEF Inv

LEMMA OpenTyped ==
  ASSUME Inv, Open
  PROVE  Inv'
<1>1. rows' \in Rows
  <2>1. CASE file = Absent
    BY <2>1 DEF Open, Rows
  <2>2. CASE file # Absent
    BY <2>2, RowsOfTypes DEF Open, Inv
  <2> QED
    BY <2>1, <2>2
<1>2. /\ mode' = "command" /\ cursorX' = 0 /\ cursorY' = 0
      /\ rowOffset' = 0 /\ colOffset' = 0 /\ file' = file /\ lost' \in BOOLEAN
  BY DEF Open
<1>3. CursorInText'
  <2>1. Len(rows') \in Nat
    BY <1>1 DEF Rows
  <2> QED
    BY <1>2, <2>1 DEF CursorInText, numberOfRows
<1>4. CursorShown'
  BY <1>2, EditorAssumption DEF CursorShown
<1>5. 0 \in 0 .. CharRange - 1
  BY EditorAssumption
<1>6. file = Absent \/ file \in Seq(Char)
  BY DEF Inv
<1> QED
  BY <1>1, <1>2, <1>3, <1>4, <1>5, <1>6 DEF Inv

LEMMA ClosedTyped ==
  ASSUME Inv, Closed
  PROVE  Inv'
<1>1. rows' \in Rows /\ Len(rows') = 0
  BY DEF Closed, Rows
<1>2. /\ mode' = "closed" /\ cursorX' = 0 /\ cursorY' = 0
      /\ rowOffset' = 0 /\ colOffset' = 0 /\ file' = file /\ lost' \in BOOLEAN
  BY DEF Closed
<1>3. CursorInText'
  BY <1>1, <1>2 DEF CursorInText, numberOfRows
<1>4. CursorShown'
  BY <1>2 DEF CursorShown
<1>5. 0 \in 0 .. CharRange - 1
  BY EditorAssumption
<1>6. file = Absent \/ file \in Seq(Char)
  BY DEF Inv
<1> QED
  BY <1>1, <1>2, <1>3, <1>4, <1>5, <1>6 DEF Inv

LEMMA StrayTyped ==
  ASSUME Inv, Stray
  PROVE  Inv'
BY DEF Inv, Stray, view, CursorInText, CursorShown, numberOfRows

LEMMA MoveTyped ==
  ASSUME Inv, MoveUp \/ MoveDown \/ MoveLeft \/ MoveRight
  PROVE  /\ cursorX' \in 0 .. CharRange - 1 /\ cursorY' \in 0 .. CharRange - 1
         /\ cursorX' \in Nat /\ cursorY' \in Nat
         /\ cursorY' <= numberOfRows
<1>1. /\ cursorX \in 0 .. CharRange - 1 /\ cursorY \in 0 .. CharRange - 1
      /\ CharRange \in Nat \ {0} /\ cursorY <= numberOfRows /\ numberOfRows \in Nat
  BY InRows DEF Inv
<1>2. CASE MoveUp
  BY <1>1, <1>2 DEF MoveUp
<1>3. CASE MoveDown
  <2>1. Byte(cursorY + 1) \in 0 .. CharRange - 1 /\ Byte(cursorY + 1) <= cursorY + 1
    BY <1>1, ByteIs
  <2>2. cursorY' = Byte(cursorY + 1) /\ cursorX' = cursorX /\ cursorY < numberOfRows
    BY <1>3 DEF MoveDown
  <2> QED
    BY <1>1, <2>1, <2>2
<1>4. CASE MoveLeft
  BY <1>1, <1>4 DEF MoveLeft
<1>5. CASE MoveRight
  <2>1. Byte(cursorX + 1) \in 0 .. CharRange - 1
    BY <1>1, ByteIs
  <2>2. cursorX' = Byte(cursorX + 1) /\ cursorY' = cursorY
    BY <1>5 DEF MoveRight
  <2> QED
    BY <1>1, <2>1, <2>2
<1> QED
  BY <1>2, <1>3, <1>4, <1>5

LEMMA MoveCursorTyped ==
  ASSUME Inv, MoveCursor
  PROVE  Inv'
<1>1. /\ cursorX' \in 0 .. CharRange - 1 /\ cursorY' \in 0 .. CharRange - 1
      /\ cursorX' \in Nat /\ cursorY' \in Nat /\ cursorY' <= numberOfRows
  BY MoveTyped DEF MoveCursor
<1>2. rowOffset' \in Nat /\ colOffset' \in Nat /\ CursorShown'
  BY <1>1, ShowsCursor DEF MoveCursor
<1>3. mode' = mode /\ rows' = rows /\ file' = file /\ lost' = lost
  BY DEF MoveCursor
<1>4. CursorInText'
  BY <1>1, <1>3 DEF CursorInText, numberOfRows
<1> QED
  BY <1>1, <1>2, <1>3, <1>4 DEF Inv

LEMMA SwitchModeTyped ==
  ASSUME Inv, SwitchMode
  PROVE  Inv'
<1>1. /\ cursorX' = cursorX /\ cursorY' = cursorY /\ mode' \in {"command", "insert"}
      /\ rows' = rows /\ file' = file /\ lost' = lost
  BY DEF SwitchMode
<1>2. rowOffset' \in Nat /\ colOffset' \in Nat /\ CursorShown'
  BY <1>1, InRows, ShowsCursor DEF SwitchMode
<1>3. CursorInText'
  BY <1>1 DEF Inv, CursorInText, numberOfRows
<1> QED
  BY <1>1, <1>2, <1>3 DEF Inv

LEMMA SaveFileTyped ==
  ASSUME Inv, SaveFile
  PROVE  Inv'
<1>1. /\ cursorX' = cursorX /\ cursorY' = cursorY /\ mode' = mode
      /\ rows' = rows /\ lost' = lost /\ file' \in {RowsToString(rows), Absent}
  BY DEF SaveFile
<1>2. rowOffset' \in Nat /\ colOffset' \in Nat /\ CursorShown'
  BY <1>1, InRows, ShowsCursor DEF SaveFile
<1>3. CursorInText'
  BY <1>1 DEF Inv, CursorInText, numberOfRows
<1>4. RowsToString(rows) \in Seq(Char)
  BY StringTypes DEF Inv
<1> QED
  BY <1>1, <1>2, <1>3, <1>4 DEF Inv

LEMMA InsertCharacterTyped ==
  ASSUME Inv, NEW c \in Letter, InsertCharacter(c)
  PROVE  Inv'
<1>1. rows' \in Rows /\ Len(rows') >= numberOfRows
  <2>1. CASE rows' = Append(rows, <<c>>)
    <3>1. <<c>> \in Seq(Letter)
      OBVIOUS
    <3> QED
      BY <2>1, <3>1 DEF Inv, Rows, numberOfRows
  <2>2. CASE \E a \in Rows, m \in Seq(Letter), n \in Seq(Letter), b \in Rows :
               Inserts(a, m, n, b, c, rows, rows')
    <3>1. PICK a \in Rows, m \in Seq(Letter), n \in Seq(Letter), b \in Rows :
                 Inserts(a, m, n, b, c, rows, rows')
      BY <2>2
    <3> DEFINE l == m \o n
               d == Append(m, c) \o n
    <3>2. l \in Seq(Letter)
      BY ConcatProperties, Zenon
    <3>3. d \in Seq(Letter)
      BY Middle
    <3>4. rows = Append(a, l) \o b /\ rows' = Append(a, d) \o b
      BY <3>1 DEF Inserts
    <3> HIDE DEF l, d
    <3>5. /\ Append(a, l) \o b \in Rows /\ Len(Append(a, l) \o b) = Len(a) + 1 + Len(b)
          /\ Len(a) \in Nat /\ Len(b) \in Nat
      BY <3>2, RowsAfter
    <3>6. Append(a, d) \o b \in Rows /\ Len(Append(a, d) \o b) = Len(a) + 1 + Len(b)
      BY <3>3, RowsAfter
    <3> QED
      BY <3>4, <3>5, <3>6 DEF numberOfRows
  <2> QED
    BY <2>1, <2>2, InsertCharacterIs
<1>2. /\ cursorX' \in 0 .. CharRange - 1 /\ cursorY' = cursorY
      /\ rowOffset' = rowOffset /\ colOffset' = colOffset /\ file' = file
      /\ mode = "insert" /\ mode' = mode /\ lost' \in BOOLEAN
  <2>1. cursorX' \in 0 .. CharRange - 1
    BY InRows, ByteIs DEF InsertCharacter
  <2> QED
    BY <2>1 DEF InsertCharacter, view, Inv
<1>3. CursorInText'
  <2>1. cursorY <= numberOfRows /\ cursorY \in Nat /\ numberOfRows \in Nat /\ Len(rows') \in Nat
    BY <1>1, InRows DEF Rows
  <2> QED
    BY <1>1, <1>2, <2>1 DEF CursorInText, numberOfRows
<1>4. CursorShown'
  BY <1>2 DEF CursorShown
<1> QED
  BY <1>1, <1>2, <1>3, <1>4 DEF Inv

LEMMA InsertNewLineTyped ==
  ASSUME Inv, InsertNewLine
  PROVE  Inv'
<1>1. rows' \in Rows /\ Len(rows') = numberOfRows + 1
  <2>1. CASE \E a \in Rows, b \in Rows : AddsRow(a, b, rows, rows')
    <3>1. PICK a \in Rows, b \in Rows : AddsRow(a, b, rows, rows')
      BY <2>1
    <3>2. rows = a \o b /\ rows' = Append(a, <<>>) \o b
      BY <3>1 DEF AddsRow
    <3>3. Len(a \o b) = Len(a) + Len(b)
      BY ConcatProperties DEF Rows
    <3>4. <<>> \in Seq(Letter)
      OBVIOUS
    <3>5. /\ Append(a, <<>>) \o b \in Rows /\ Len(Append(a, <<>>) \o b) = Len(a) + 1 + Len(b)
          /\ Len(a) \in Nat /\ Len(b) \in Nat
      BY <3>4, RowsAfter
    <3>6. numberOfRows = Len(a) + Len(b) /\ Len(rows') = Len(a) + 1 + Len(b)
      BY <3>2, <3>3, <3>5, Zenon DEF numberOfRows
    <3>7. rows' \in Rows
      BY <3>2, <3>5, Zenon
    <3> QED
      BY <3>5, <3>6, <3>7
  <2>2. CASE \E a \in Rows, m \in Seq(Letter), n \in Seq(Letter), b \in Rows :
               Breaks(a, m, n, b, rows, rows')
    <3>1. PICK a \in Rows, m \in Seq(Letter), n \in Seq(Letter), b \in Rows :
                 Breaks(a, m, n, b, rows, rows')
      BY <2>2
    <3> DEFINE l == m \o n
               o == Append(a, m)
    <3>2. l \in Seq(Letter)
      BY ConcatProperties, Zenon
    <3>3. o \in Rows /\ Len(o) = Len(a) + 1
      BY RowsAfter
    <3>4. rows = Append(a, l) \o b /\ rows' = Append(o, n) \o b
      BY <3>1 DEF Breaks
    <3> HIDE DEF l, o
    <3>5. /\ Len(Append(a, l) \o b) = Len(a) + 1 + Len(b)
          /\ Len(a) \in Nat /\ Len(b) \in Nat
      BY <3>2, RowsAfter
    <3>6. Append(o, n) \o b \in Rows /\ Len(Append(o, n) \o b) = Len(o) + 1 + Len(b)
      BY <3>3, RowsAfter
    <3> QED
      BY <3>3, <3>4, <3>5, <3>6 DEF numberOfRows
  <2> QED
    BY <2>1, <2>2, InsertNewLineIs
<1>2. /\ cursorX' = 0 /\ cursorY' \in 0 .. CharRange - 1 /\ cursorY' <= cursorY + 1
      /\ file' = file /\ mode = "insert" /\ mode' = mode /\ lost' \in BOOLEAN
  <2>1. cursorY' \in 0 .. CharRange - 1 /\ cursorY' <= cursorY + 1
    BY InRows, ByteIs DEF InsertNewLine
  <2> QED
    BY <2>1 DEF InsertNewLine, Inv
<1>3. cursorX' \in 0 .. CharRange - 1 /\ cursorX' \in Nat /\ cursorY' \in Nat
  BY <1>2, EditorAssumption
<1>4. rowOffset' \in Nat /\ colOffset' \in Nat /\ CursorShown'
  BY <1>3, ShowsCursor DEF InsertNewLine
<1>5. CursorInText'
  <2>1. cursorY <= numberOfRows /\ cursorY \in Nat /\ numberOfRows \in Nat
    BY InRows
  <2> QED
    BY <1>1, <1>2, <1>3, <2>1 DEF CursorInText, numberOfRows
<1> QED
  BY <1>1, <1>2, <1>3, <1>4, <1>5 DEF Inv

LEMMA RemoveCharacterTyped ==
  ASSUME Inv, RemoveCharacter
  PROVE  Inv'
<1>1. rows' \in Rows /\ Len(rows') = numberOfRows
  <2>1. CASE rows' = rows
    BY <2>1 DEF Inv, numberOfRows
  <2>2. CASE \E a \in Rows, m \in Seq(Letter), c \in Letter, n \in Seq(Letter), b \in Rows :
               Removes(a, m, c, n, b, rows, rows')
    <3>1. PICK a \in Rows, m \in Seq(Letter), c \in Letter, n \in Seq(Letter), b \in Rows :
                 Removes(a, m, c, n, b, rows, rows')
      BY <2>2
    <3> DEFINE l == m \o n
               d == Append(m, c) \o n
    <3>2. l \in Seq(Letter)
      BY ConcatProperties, Zenon
    <3>3. d \in Seq(Letter)
      BY Middle
    <3>4. rows = Append(a, d) \o b /\ rows' = Append(a, l) \o b
      BY <3>1 DEF Removes
    <3> HIDE DEF l, d
    <3>5. Append(a, l) \o b \in Rows /\ Len(Append(a, l) \o b) = Len(a) + 1 + Len(b)
      BY <3>2, RowsAfter
    <3>6. Len(Append(a, d) \o b) = Len(a) + 1 + Len(b)
      BY <3>3, RowsAfter
    <3> QED
      BY <3>4, <3>5, <3>6, Zenon DEF numberOfRows
  <2> QED
    BY <2>1, <2>2, RemoveCharacterIs
<1>2. /\ cursorX' = cursorX - 1 /\ cursorX > 0 /\ cursorY' = cursorY
      /\ rowOffset' = rowOffset /\ colOffset' = colOffset /\ file' = file
      /\ mode = "insert" /\ mode' = mode /\ lost' = lost
  BY DEF RemoveCharacter, view
<1>3. CursorInText'
  BY <1>1, <1>2 DEF Inv, CursorInText, numberOfRows
<1>4. CursorShown'
  BY <1>2 DEF CursorShown
<1>5. cursorX' \in 0 .. CharRange - 1
  BY <1>2, InRows DEF Inv
<1> QED
  BY <1>1, <1>2, <1>3, <1>4, <1>5 DEF Inv

LEMMA JoinLinesTyped ==
  ASSUME Inv, JoinLines
  PROVE  Inv'
<1>1. rows' \in Rows /\ Len(rows') + 1 = numberOfRows /\ Len(rows[cursorY]) \in Nat
  <2>1. PICK a \in Rows, m \in Seq(Letter), b \in Rows :
          /\ Len(m) = Len(rows[cursorY])
          /\ Here \in Seq(Letter) /\ rows[1] \in Seq(Letter)
          /\ rows = Append(Append(a, m), Here) \o b
          /\ rows' = Append(a, m \o rows[1]) \o b
    BY JoinLinesIs
  <2> DEFINE d == m \o rows[1]
             o == Append(a, m)
  <2>2. d \in Seq(Letter)
    BY <2>1, ConcatProperties, Zenon
  <2>3. o \in Rows /\ Len(o) = Len(a) + 1
    BY RowsAfter
  <2>4. rows = Append(o, Here) \o b /\ rows' = Append(a, d) \o b /\ Here \in Seq(Letter)
    BY <2>1
  <2> HIDE DEF d, o
  <2>5. Len(Append(o, Here) \o b) = Len(o) + 1 + Len(b)
    BY <2>3, <2>4, RowsAfter, Zenon
  <2>6. /\ Append(a, d) \o b \in Rows /\ Len(Append(a, d) \o b) = Len(a) + 1 + Len(b)
        /\ Len(a) \in Nat /\ Len(b) \in Nat
    BY <2>2, RowsAfter
  <2>7. Len(rows) = (Len(a) + 1) + 1 + Len(b) /\ Len(rows') = Len(a) + 1 + Len(b) /\ rows' \in Rows
    BY <2>3, <2>4, <2>5, <2>6, Zenon
  <2>8. Len(m) \in Nat
    OBVIOUS
  <2> QED
    BY <2>1, <2>6, <2>7, <2>8 DEF numberOfRows
<1>2. /\ cursorX' \in 0 .. CharRange - 1 /\ cursorY' = cursorY - 1 /\ cursorY # 0
      /\ rowOffset' = rowOffset /\ colOffset' = colOffset /\ file' = file
      /\ mode = "insert" /\ mode' = mode /\ lost' \in BOOLEAN
  <2>1. cursorX' \in 0 .. CharRange - 1
    BY <1>1, ByteIs DEF JoinLines
  <2> QED
    BY <2>1 DEF JoinLines, view, Inv
<1>3. cursorY' \in 0 .. CharRange - 1 /\ CursorInText'
  <2>1. cursorY <= numberOfRows /\ cursorY \in 0 .. CharRange - 1 /\ CharRange \in Nat
        /\ Len(rows') \in Nat
    BY <1>1, InRows DEF Inv, Rows
  <2> QED
    BY <1>1, <1>2, <2>1 DEF CursorInText, numberOfRows
<1>4. CursorShown'
  BY <1>2 DEF CursorShown
<1> QED
  BY <1>1, <1>2, <1>3, <1>4 DEF Inv

LEMMA NextTyped ==
  ASSUME Inv, [Next]_vars
  PROVE  Inv'
<1>1. CASE Open
  BY <1>1, OpenTyped
<1>2. CASE Quit \/ Reset
  BY <1>2, ClosedTyped DEF Quit, Reset
<1>3. CASE MoveCursor
  BY <1>3, MoveCursorTyped
<1>4. CASE SwitchMode
  BY <1>4, SwitchModeTyped
<1>5. CASE SaveFile
  BY <1>5, SaveFileTyped
<1>6. CASE SaveNothing \/ NewLineBehind \/ RemoveFromEmpty
  BY <1>6, StrayTyped DEF SaveNothing, NewLineBehind, RemoveFromEmpty
<1>7. CASE \E c \in Letter : InsertCharacter(c)
  BY <1>7, InsertCharacterTyped
<1>8. CASE InsertNewLine
  BY <1>8, InsertNewLineTyped
<1>9. CASE RemoveCharacter
  BY <1>9, RemoveCharacterTyped
<1>10. CASE JoinLines
  BY <1>10, JoinLinesTyped
<1>11. CASE UNCHANGED vars
  BY <1>11 DEF vars, Inv, CursorInText, CursorShown, numberOfRows
<1> QED
  BY <1>1, <1>2, <1>3, <1>4, <1>5, <1>6, <1>7, <1>8, <1>9, <1>10, <1>11 DEF Next

(* The rows and the cursor have their types, the cursor is in the text and *)
(* what shows it is the part of the screen for text: in every state.       *)
THEOREM Types == Spec => []Inv
<1>1. Init => Inv
  BY InitTyped
<1>2. Inv /\ [Next]_vars => Inv'
  BY NextTyped
<1> QED
  BY <1>1, <1>2, PTL DEF Spec

(* cursorY is never behind the line after the last: whatever is cut, joined *)
(* or wrapped around, for every file, buffer and width of a CHAR.          *)
THEOREM CursorStaysInText == Spec => []CursorInText
<1>1. Inv => CursorInText
  BY DEF Inv
<1> QED
  BY <1>1, Types, PTL

(* In command mode the window shows the cursor, for every size of it.      *)
THEOREM CursorStaysShown == Spec => []CursorShown
<1>1. Inv => CursorShown
  BY DEF Inv
<1> QED
  BY <1>1, Types, PTL

-----------------------------------------------------------------------------
(* The refinement of Text: its string is what the rows would be saved as,  *)
(* and its cursor is TextPos.                                              *)

TextPos == Len(RowsToString(SubSeq(rows, 1, cursorY))) +
             (IF ~ InRow THEN 0
              ELSE IF cursorX > Len(Here) THEN Len(Here) ELSE cursorX)

LEMMA TextPosIs ==
  /\ TextPos = Place(rows, cursorX, cursorY)
  /\ TextPos' = Place(rows', cursorX', cursorY')
BY DEF TextPos, Place, Least, InRow, Here, numberOfRows

LEMMA PromiseUses ==
  /\ \A s, i, e : Promise!InsertAt(s, i, e) = InsertAt(s, i, e)
  /\ \A s, i : Promise!RemoveAt(s, i) = RemoveAt(s, i)
BY DEF InsertAt, RemoveAt, Promise!InsertAt, Promise!RemoveAt

LEMMA PlaceInString ==
  ASSUME NEW r \in Rows, NEW x \in Nat, NEW y \in Nat, y <= Len(r)
  PROVE  Place(r, x, y) \in 0 .. Len(RowsToString(r))
<1>1. CASE y = Len(r)
  <2>1. ~ (Len(r) < Len(r)) /\ SubSeq(r, 1, Len(r)) = r
    BY SubSeqFull DEF Rows
  <2>2. Place(r, x, y) = Len(RowsToString(r)) + 0
    BY <1>1, <2>1, Zenon DEF Place
  <2>3. Len(RowsToString(r)) \in Nat
    BY StringTypes
  <2> QED
    BY <2>2, <2>3
<1>2. CASE y # Len(r)
  <2> DEFINE a == SubSeq(r, 1, y)
             l == r[y + 1]
             b == SubSeq(r, (y + 1) + 1, Len(r))
  <2>1. /\ a \in Rows /\ l \in Seq(Letter) /\ b \in Rows
        /\ r = Append(a, l) \o b /\ Len(a) = y
    <3>1. r \in Seq(Seq(Letter)) /\ y \in 0 .. Len(r) - 1
      BY <1>2 DEF Rows
    <3> QED
      BY <3>1, AtElement DEF Rows
  <2> HIDE DEF a, l, b
  <2>2. Place(r, x, y) = Len(RowsToString(a)) + Least(x, Len(l))
    BY <2>1, PlaceIs
  <2> DEFINE n == <<>>
             P == RowsToString(a) \o l
             Q == Append(n, Newline) \o RowsToString(b)
  <2>3. n \in Seq(Letter) /\ l \o n = l
    BY <2>1, ConcatEmptySeq
  <2>4. /\ P \in Seq(Char) /\ Q \in Seq(Char)
        /\ Len(P) = Len(RowsToString(a)) + Len(l)
        /\ RowsToString(Append(a, l \o n) \o b) = P \o Q
    <3> HIDE DEF n
    <3> QED
      BY <2>1, <2>3, StringCut
  <2> HIDE DEF n, P, Q
  <2>5. Len(P \o Q) = Len(P) + Len(Q)
    BY <2>4, ConcatProperties
  <2>6. Len(RowsToString(r)) = Len(P) + Len(Q)
    BY <2>1, <2>3, <2>4, <2>5, Zenon
  <2>7. Len(Q) \in Nat /\ Len(l) \in Nat /\ Len(RowsToString(a)) \in Nat
    BY <2>1, <2>4, StringTypes
  <2>8. Least(x, Len(l)) \in 0 .. Len(l)
    BY <2>7 DEF Least
  <2> QED
    BY <2>2, <2>4, <2>6, <2>7, <2>8
<1> QED
  BY <1>1, <1>2

LEMMA InsertCharacterWrites ==
  ASSUME Inv, NEW c \in Letter, InsertCharacter(c), ~ lost'
  PROVE  Promise!Insert(c) \/ Promise!AddLine(c)
<1> DEFINE s == RowsToString(rows)
           t == RowsToString(rows')
           k == Place(rows, cursorX, cursorY)
           j == Place(rows', cursorX', cursorY')
<1>1. /\ cursorX' = cursorX + 1 /\ cursorY' = cursorY
      /\ cursorX \in Nat /\ file' = file /\ lost' = lost
  <2>1. cursorX' = Byte(cursorX + 1) /\ cursorX' # 0 /\ ~ lost /\ lost \in BOOLEAN
    BY DEF InsertCharacter, Inv
  <2>2. cursorX + 1 \in 0 .. CharRange /\ CharRange \in Nat \ {0} /\ cursorX \in Nat
    BY InRows
  <2>3. cursorX + 1 \in Nat /\ cursorX + 1 # CharRange
    BY <2>1, <2>2, ByteIs
  <2>4. cursorX + 1 < CharRange
    BY <2>2, <2>3
  <2>5. Byte(cursorX + 1) = cursorX + 1
    BY <2>3, <2>4, ByteIs
  <2> QED
    BY <2>1, <2>2, <2>5 DEF InsertCharacter
<1>2. /\ TextPos = k /\ TextPos' = j
  BY TextPosIs
<1>3. CASE cursorY = numberOfRows /\ rows' = Append(rows, <<c>>)
  <2>1. /\ t = s \o <<c, Newline>> /\ k = Len(s) /\ j = k + 1
    BY <1>1, <1>3, AddedString DEF Inv, numberOfRows
  <2> HIDE DEF s, t, k, j
  <2>2. Promise!AddLine(c)
    BY <1>1, <1>2, <2>1 DEF Promise!AddLine, TextPos, s, t
  <2> QED
    BY <2>2
<1>4. CASE \E a \in Rows, m \in Seq(Letter), n \in Seq(Letter), b \in Rows :
             /\ Len(a) = cursorY /\ Len(m) = Least(cursorX, Len(m \o n))
             /\ Inserts(a, m, n, b, c, rows, rows')
  <2>1. PICK a \in Rows, m \in Seq(Letter), n \in Seq(Letter), b \in Rows :
             /\ Len(a) = cursorY /\ Len(m) = Least(cursorX, Len(m \o n))
             /\ Inserts(a, m, n, b, c, rows, rows')
    BY <1>4
  <2>2. t = InsertAt(s, k + 1, c) /\ j = k + 1
    <3>1. /\ RowsToString(rows') = InsertAt(RowsToString(rows), Place(rows, cursorX, Len(a)) + 1, c)
          /\ Place(rows', cursorX + 1, Len(a)) = Place(rows, cursorX, Len(a)) + 1
      BY <1>1, <2>1, InsertedString
    <3> QED
      BY <1>1, <2>1, <3>1, Zenon
  <2> HIDE DEF s, t, k, j
  <2>3. Promise!Insert(c)
    BY <1>1, <1>2, <2>2, PromiseUses DEF Promise!Insert, TextPos, s, t
  <2> QED
    BY <2>3
<1> QED
  BY <1>3, <1>4, InsertCharacterIs

LEMMA InsertNewLineWrites ==
  ASSUME Inv, InsertNewLine, ~ lost'
  PROVE  Promise!Insert(Newline)
<1> DEFINE s == RowsToString(rows)
           t == RowsToString(rows')
           k == Place(rows, cursorX, cursorY)
           j == Place(rows', cursorX', cursorY')
<1>1. /\ cursorX' = 0 /\ cursorY' = cursorY + 1
      /\ cursorX \in Nat /\ file' = file /\ lost' = lost
  <2>1. cursorY' = Byte(cursorY + 1) /\ cursorY' # 0 /\ ~ lost /\ lost \in BOOLEAN
    BY DEF InsertNewLine, Inv
  <2>2. cursorY + 1 \in 0 .. CharRange /\ CharRange \in Nat \ {0} /\ cursorX \in Nat
    BY InRows
  <2>3. cursorY + 1 \in Nat /\ cursorY + 1 # CharRange
    BY <2>1, <2>2, ByteIs
  <2>4. cursorY + 1 < CharRange
    BY <2>2, <2>3
  <2>5. Byte(cursorY + 1) = cursorY + 1
    BY <2>3, <2>4, ByteIs
  <2> QED
    BY <2>1, <2>2, <2>5 DEF InsertNewLine
<1>2. TextPos = k /\ TextPos' = j
  BY TextPosIs
<1>3. t = InsertAt(s, k + 1, Newline) /\ j = k + 1
  <2>1. CASE /\ cursorX = 0
             /\ \E a \in Rows, b \in Rows : Len(a) = cursorY /\ AddsRow(a, b, rows, rows')
    <3>1. PICK a \in Rows, b \in Rows : Len(a) = cursorY /\ AddsRow(a, b, rows, rows')
      BY <2>1
    <3>2. /\ RowsToString(rows') = InsertAt(RowsToString(rows), Place(rows, 0, Len(a)) + 1, Newline)
          /\ Place(rows', 0, Len(a) + 1) = Place(rows, 0, Len(a)) + 1
      BY <3>1, RowAddedString
    <3> QED
      BY <1>1, <2>1, <3>1, <3>2, Zenon
  <2>2. CASE \E a \in Rows, m \in Seq(Letter), n \in Seq(Letter), b \in Rows :
               /\ Len(a) = cursorY /\ Len(m) = cursorX
               /\ Breaks(a, m, n, b, rows, rows')
    <3>1. PICK a \in Rows, m \in Seq(Letter), n \in Seq(Letter), b \in Rows :
               /\ Len(a) = cursorY /\ Len(m) = cursorX
               /\ Breaks(a, m, n, b, rows, rows')
      BY <2>2
    <3>2. /\ RowsToString(rows')
               = InsertAt(RowsToString(rows), Place(rows, Len(m), Len(a)) + 1, Newline)
          /\ Place(rows', 0, Len(a) + 1) = Place(rows, Len(m), Len(a)) + 1
      BY <3>1, BrokenString
    <3> QED
      BY <1>1, <3>1, <3>2, Zenon
  <2> QED
    BY <2>1, <2>2, InsertNewLineIs
<1> HIDE DEF s, t, k, j
<1> QED
  BY <1>1, <1>2, <1>3, PromiseUses DEF Promise!Insert, TextPos, s, t

LEMMA RemoveCharacterErases ==
  ASSUME Inv, RemoveCharacter, ~ lost'
  PROVE  Promise!Erase \/ Promise!Move
<1> DEFINE s == RowsToString(rows)
           t == RowsToString(rows')
           k == Place(rows, cursorX, cursorY)
           j == Place(rows', cursorX', cursorY')
<1>1. /\ cursorX' = cursorX - 1 /\ cursorY' = cursorY
      /\ cursorX \in Nat \ {0} /\ file' = file /\ lost' = lost
  BY InRows DEF RemoveCharacter
<1>2. TextPos = k /\ TextPos' = j
  BY TextPosIs
<1>3. CASE cursorX > Len(Here) + 1 /\ rows' = rows
  <2>1. j \in 0 .. Len(s)
    <3>1. rows \in Rows /\ cursorX' \in Nat /\ cursorY \in Nat /\ cursorY <= Len(rows)
      BY <1>1, InRows DEF Inv, numberOfRows
    <3>2. Place(rows, cursorX', cursorY) \in 0 .. Len(RowsToString(rows))
      BY <3>1, PlaceInString
    <3> QED
      BY <1>1, <1>3, <3>2, Zenon
  <2>2. t = s
    BY <1>3
  <2> HIDE DEF s, t, k, j
  <2>3. Promise!Move
    BY <1>1, <1>2, <2>1, <2>2 DEF Promise!Move, TextPos, s, t
  <2> QED
    BY <2>3
<1>4. CASE \E a \in Rows, m \in Seq(Letter), c \in Letter, n \in Seq(Letter), b \in Rows :
             /\ Len(a) = cursorY /\ Len(m) + 1 = Least(cursorX, Len(Append(m, c) \o n))
             /\ Removes(a, m, c, n, b, rows, rows')
  <2>1. PICK a \in Rows, m \in Seq(Letter), c \in Letter, n \in Seq(Letter), b \in Rows :
             /\ Len(a) = cursorY /\ Len(m) + 1 = Least(cursorX, Len(Append(m, c) \o n))
             /\ Removes(a, m, c, n, b, rows, rows')
    BY <1>4
  <2>2. t = RemoveAt(s, k) /\ j = k - 1 /\ k > 0
    <3>1. /\ RowsToString(rows') = RemoveAt(RowsToString(rows), Place(rows, cursorX, Len(a)))
          /\ Place(rows', cursorX - 1, Len(a)) = Place(rows, cursorX, Len(a)) - 1
          /\ Place(rows, cursorX, Len(a)) > 0
      BY <1>1, <2>1, RemovedString
    <3> QED
      BY <1>1, <2>1, <3>1, Zenon
  <2> HIDE DEF s, t, k, j
  <2>3. Promise!Erase
    BY <1>1, <1>2, <2>2, PromiseUses DEF Promise!Erase, TextPos, s, t
  <2> QED
    BY <2>3
<1> QED
  BY <1>3, <1>4, RemoveCharacterIs

LEMMA JoinLinesErases ==
  ASSUME Inv, JoinLines, ~ lost'
  PROVE  Promise!Erase
<1> DEFINE s == RowsToString(rows)
           t == RowsToString(rows')
           k == Place(rows, cursorX, cursorY)
           j == Place(rows', cursorX', cursorY')
<1>1. PICK a \in Rows, m \in Seq(Letter), b \in Rows :
           /\ Len(a) + 1 = cursorY /\ Len(m) = Len(rows[cursorY])
           /\ Here \in Seq(Letter) /\ rows[1] \in Seq(Letter)
           /\ rows = Append(Append(a, m), Here) \o b
           /\ rows' = Append(a, m \o rows[1]) \o b
  BY JoinLinesIs
<1>2. Len(a) \in Nat /\ Len(m) \in Nat
  BY RowsAfter
<1>3. Here = rows[1] /\ Len(m) < CharRange /\ file' = file /\ lost' = lost /\ cursorX = 0
  <2>1. ~ lost /\ lost \in BOOLEAN /\ Here = rows[1] /\ ~ (Len(rows[cursorY]) >= CharRange)
    BY DEF JoinLines, Inv
  <2>2. CharRange \in Nat
    BY EditorAssumption
  <2>3. Len(m) < CharRange
    BY <1>1, <1>2, <2>1, <2>2
  <2> QED
    BY <2>1, <2>3 DEF JoinLines
<1>4. cursorX' = Len(m) /\ cursorY' = Len(a)
  <2>1. Byte(Len(m)) = Len(m)
    BY <1>2, <1>3, ByteIs
  <2>2. cursorX' = Byte(Len(m))
    BY <1>1, Zenon DEF JoinLines
  <2>3. cursorY' = cursorY - 1 /\ Len(a) + 1 = cursorY
    BY <1>1 DEF JoinLines
  <2>4. cursorY' = Len(a)
    BY <1>2, <2>3
  <2> QED
    BY <2>1, <2>2, <2>4
<1>5. TextPos = k /\ TextPos' = j
  BY TextPosIs
<1>6. t = RemoveAt(s, k) /\ j = k - 1 /\ k > 0
  <2> DEFINE l == Here
  <2>1. l \in Seq(Letter) /\ Joins(a, m, l, b, rows, rows')
    BY <1>1, <1>3, Zenon DEF Joins
  <2> HIDE DEF l
  <2>2. /\ RowsToString(rows') = RemoveAt(RowsToString(rows), Place(rows, 0, Len(a) + 1))
        /\ Place(rows', Len(m), Len(a)) = Place(rows, 0, Len(a) + 1) - 1
        /\ Place(rows, 0, Len(a) + 1) > 0
    BY <2>1, JoinedString
  <2> QED
    BY <1>1, <1>3, <1>4, <2>2, Zenon
<1> HIDE DEF s, t, k, j
<1> QED
  BY <1>3, <1>5, <1>6, PromiseUses DEF Promise!Erase, TextPos, s, t

(* A key that leaves the rows alone leaves the cursor in the string.       *)
LEMMA StaysInString ==
  ASSUME Inv, cursorX' \in Nat, cursorY' \in Nat, cursorY' <= numberOfRows, rows' = rows,
         file' = file, lost' = lost
  PROVE  Promise!Move
<1> DEFINE s == RowsToString(rows)
           t == RowsToString(rows')
           j == Place(rows', cursorX', cursorY')
<1>1. j \in 0 .. Len(s)
  <2>1. rows \in Rows /\ cursorY' <= Len(rows)
    BY DEF Inv, numberOfRows
  <2>2. Place(rows, cursorX', cursorY') \in 0 .. Len(RowsToString(rows))
    BY <2>1, PlaceInString
  <2> QED
    BY <2>2, Zenon
<1>2. t = s
  OBVIOUS
<1>3. TextPos' = j
  BY TextPosIs
<1> HIDE DEF s, t, j
<1> QED
  BY <1>1, <1>2, <1>3 DEF Promise!Move, TextPos, s, t

LEMMA SaveFileSaves ==
  ASSUME Inv, SaveFile
  PROVE  Promise!Save
BY DEF SaveFile, Promise!Save, InRow, Here, numberOfRows

LEMMA PlaceOfFirst ==
  ASSUME NEW r \in Rows
  PROVE  Place(r, 0, 0) = 0
<1> DEFINE a == <<>>
<1>1. a \in Rows /\ a \o r = r /\ Len(a) = 0 /\ RowsToString(a) = a
  BY StringTypes, ConcatEmptySeq DEF Rows
<1> HIDE DEF a
<1>2. Place(a \o r, 0, Len(a)) = Len(RowsToString(a))
  BY <1>1, PlaceBegins
<1> QED
  BY <1>1, <1>2, Zenon

LEMMA ClosedCloses ==
  ASSUME Closed
  PROVE  Promise!Close
<1>1. RowsToString(<<>>) = <<>> /\ <<>> \in Rows
  BY StringTypes
<1>2. rows' = <<>> /\ cursorX' = 0 /\ cursorY' = 0 /\ lost' = FALSE /\ file' = file
  BY DEF Closed
<1>3. Place(<<>>, 0, 0) = 0
  BY <1>1, PlaceOfFirst
<1>4. TextPos' = 0
  BY <1>2, <1>3, TextPosIs, Zenon
<1> QED
  BY <1>1, <1>2, <1>4 DEF Promise!Close, TextPos

LEMMA OpenOpens ==
  ASSUME Inv, Open, ~ lost'
  PROVE  Promise!Open
<1>1. rows' \in Rows
  BY OpenTyped DEF Inv
<1>2. cursorX' = 0 /\ cursorY' = 0 /\ file' = file /\ lost' = FALSE
  BY DEF Open
<1>3. Place(rows', 0, 0) = 0
  BY <1>1, PlaceOfFirst
<1>4. TextPos' = 0
  BY <1>2, <1>3, TextPosIs, Zenon
<1>5. RowsToString(rows') = IF file = Absent THEN <<>> ELSE file
  <2>1. CASE file = Absent
    BY <2>1, StringTypes DEF Open
  <2>2. CASE file # Absent
    BY <2>2 DEF Open
  <2> QED
    BY <2>1, <2>2
<1> QED
  BY <1>2, <1>4, <1>5 DEF Promise!Open, TextPos

LEMMA InitPromises ==
  ASSUME Init
  PROVE  Promise!Init
<1>1. RowsToString(<<>>) = <<>> /\ <<>> \in Rows
  BY StringTypes
<1>2. rows = <<>> /\ cursorX = 0 /\ cursorY = 0 /\ lost = FALSE
  BY DEF Init
<1>3. Place(<<>>, 0, 0) = 0
  BY <1>1, PlaceOfFirst
<1>4. TextPos = 0
  BY <1>2, <1>3, TextPosIs, Zenon
<1> QED
  BY <1>1, <1>2, <1>4 DEF Promise!Init, TextPos

LEMMA NextPromises ==
  ASSUME Inv, [Next]_vars
  PROVE  [Promise!Next]_(Promise!vars)
<1>1. CASE UNCHANGED vars
  BY <1>1 DEF vars, Promise!vars, InRow, Here, numberOfRows
<1>2. CASE lost'
  BY <1>2 DEF Promise!Next
<1>3. CASE Next /\ ~ lost'
  <2>1. CASE Open
    BY <1>3, <2>1, OpenOpens DEF Promise!Next
  <2>2. CASE Quit \/ Reset
    BY <2>2, ClosedCloses DEF Promise!Next, Quit, Reset
  <2>3. CASE MoveCursor
    <3>1. /\ cursorX' \in Nat /\ cursorY' \in Nat /\ cursorY' <= numberOfRows
          /\ rows' = rows /\ file' = file /\ lost' = lost
      BY <2>3, MoveTyped DEF MoveCursor
    <3> QED
      BY <1>3, <3>1, StaysInString DEF Promise!Next
  <2>4. CASE SwitchMode
    <3>1. /\ cursorX' \in Nat /\ cursorY' \in Nat /\ cursorY' <= numberOfRows
          /\ rows' = rows /\ file' = file /\ lost' = lost
      BY <2>4, InRows DEF SwitchMode
    <3> QED
      BY <1>3, <3>1, StaysInString DEF Promise!Next
  <2>5. CASE SaveFile
    <3>1. ~ lost
      BY <1>3, <2>5 DEF SaveFile
    <3> QED
      BY <2>5, <3>1, SaveFileSaves DEF Promise!Next
  <2>6. CASE SaveNothing \/ NewLineBehind \/ RemoveFromEmpty
    BY <1>3, <2>6 DEF SaveNothing, NewLineBehind, RemoveFromEmpty, Stray
  <2>7. CASE \E c \in Letter : InsertCharacter(c)
    <3>1. PICK c \in Letter : InsertCharacter(c)
      BY <2>7
    <3>2. Promise!Insert(c) \/ Promise!AddLine(c)
      BY <1>3, <3>1, InsertCharacterWrites
    <3>3. ~ lost
      BY <1>3, <3>1 DEF InsertCharacter
    <3> QED
      BY <3>2, <3>3 DEF Promise!Next
  <2>8. CASE InsertNewLine
    <3>1. Promise!Insert(Newline) /\ ~ lost
      BY <1>3, <2>8, InsertNewLineWrites DEF InsertNewLine
    <3> QED
      BY <3>1 DEF Promise!Next
  <2>9. CASE RemoveCharacter
    <3>1. (Promise!Erase \/ Promise!Move) /\ ~ lost
      BY <1>3, <2>9, RemoveCharacterErases DEF RemoveCharacter
    <3> QED
      BY <3>1 DEF Promise!Next
  <2>10. CASE JoinLines
    <3>1. Promise!Erase /\ ~ lost
      BY <1>3, <2>10, JoinLinesErases DEF JoinLines
    <3> QED
      BY <3>1 DEF Promise!Next
  <2> QED
    BY <1>3, <2>1, <2>2, <2>3, <2>4, <2>5, <2>6, <2>7, <2>8, <2>9, <2>10 DEF Next
<1> QED
  BY <1>1, <1>2, <1>3

(* Every key of TEd changes the text that is saved by one character at the *)
(* cursor, moves the cursor in it, or sets lost: for every file, length of *)
(* a line, size of the buffer and range of the cursor.                     *)
THEOREM EditsText == Spec => IsText
<1>1. Init => Promise!Init
  BY InitPromises
<1>2. Inv /\ [Next]_vars => [Promise!Next]_(Promise!vars)
  BY NextPromises
<1> QED
  BY <1>1, <1>2, Types, PTL DEF Spec, IsText, Promise!Spec
=============================================================================
