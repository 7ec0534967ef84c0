---------------------------- MODULE JournalFileProofs ----------------------------
(***************************************************************************)
(* What any image of the journal replays to, whatever was cut from it: the *)
(* invariant behind the properties of JournalFile, and its proof.          *)
(***************************************************************************)
EXTENDS JournalFile, DataLemmas

\* Only the first record of a log is a snapshot: it replaces nothing.
OneSnapshot(f) == \A i \in 1..Len(f) : f[i].kind = "Snapshot" => i = 2

\* A log replays to what the engine did, up to some point, and after it at most one
\* transition that the engine was told had failed.
Fits(read, done) ==
  \/ IsPrefix(read, done)
  \/ read # <<>> /\ IsPrefix(Front(read), done) /\ Last(read) \notin Range(done)

\* What a scan reads of a log passes the bound by less than a record.
Bounded(f) == BytesOf(f)[ValidPieces(f)] < MaxBytes + MaxRecordBytes

\* The image a crash may leave, and what has been promised of it.
ImageOK(f) ==
  /\ OneSnapshot(f)
  /\ Bounded(f)
  /\ Recovered(f) \in Seq(1..issued)
  /\ Fits(Recovered(f), history)

Promised == SubSeq(history, 1, sure)

Images ==
  /\ history \in Seq(1..issued)
  /\ ImageOK(file)
  /\ IsPrefix(Promised, Recovered(SubSeq(file, 1, safe)))
  /\ \A f \in former :
       /\ ImageOK(f)
       /\ Fits(Recovered(f), Recovered(file))
       /\ IsPrefix(Promised, Recovered(f))
       /\ doubt = "none" => IsPrefix(Recovered(f), Recovered(file))

Written == file \o log.buffer

\* The log goes on where a scan of what is written ends.
Continues ==
  /\ ValidPieces(Written) = Len(Written)
  /\ log.byte_count = BytesOf(Written)[Len(Written)] /\ Bounded(Written)
  /\ log.last_sequence = Len(Written) - 1
  /\ log.chain = ChainOf(Written, Len(Written))
  /\ Recovered(Written) = history

\* What is appended is out of the reach of any scan.
Lags ==
  /\ doubt = "failed" /\ log.buffer = <<>>
  /\ ValidPieces(file) < Len(file) \/ log.last_sequence # Len(file) - 1

\* What waits in the buffer changes nothing.
Buffered ==
  /\ Len(log.buffer) <= 1
  /\ \A i \in 1..Len(log.buffer) :
       log.buffer[i].kind = "CountersSync" /\ log.buffer[i].payload = <<>>

LogOK ==
  /\ Buffered
  /\ log.open => file # <<>> /\ (Continues \/ Lags)
  /\ ~log.open => log = ClosedLog

Inv == TypeOK /\ Images /\ LogOK

-------------------------------------------------------------------------------
(* Prefixes *)

LEMMA PrefixIs ==
  ASSUME NEW S, NEW s \in Seq(S), NEW t \in Seq(S)
  PROVE  IsPrefix(s, t) <=> Len(s) <= Len(t) /\ \A i \in 1..Len(s) : s[i] = t[i]
<1>1. Len(s) \in Nat /\ Len(t) \in Nat /\ SubSeq(s, 1, Len(s)) = s
  BY LenProperties, SubSeqFull
<1>2. ASSUME Len(s) <= Len(t)
      PROVE  s = SubSeq(t, 1, Len(s)) <=> \A i \in 1..Len(s) : s[i] = t[i]
  <2>1. Len(s) \in 0..Len(t)
    BY <1>1, <1>2
  <2>2. /\ SubSeq(t, 1, Len(s)) \in Seq(S) /\ Len(SubSeq(t, 1, Len(s))) = Len(s)
        /\ \A i \in 1..Len(s) : SubSeq(t, 1, Len(s))[i] = t[i]
    BY <2>1, CutFacts
  <2> QED BY <2>2, SeqEqual
<1> QED BY <1>1, <1>2 DEF IsPrefix

LEMMA PrefixTransitive ==
  ASSUME NEW S, NEW s \in Seq(S), NEW t \in Seq(S), NEW u \in Seq(S),
         IsPrefix(s, t), IsPrefix(t, u)
  PROVE  IsPrefix(s, u)
<1>1. Len(s) \in Nat /\ Len(t) \in Nat /\ Len(u) \in Nat
  BY LenProperties
<1>2. Len(s) <= Len(t) /\ \A i \in 1..Len(s) : s[i] = t[i]
  BY PrefixIs
<1>3. Len(t) <= Len(u) /\ \A i \in 1..Len(t) : t[i] = u[i]
  BY PrefixIs
<1>4. Len(s) <= Len(u) /\ \A i \in 1..Len(s) : s[i] = u[i]
  BY <1>1, <1>2, <1>3
<1> QED BY <1>4, PrefixIs

LEMMA PrefixReflexive ==
  ASSUME NEW S, NEW s \in Seq(S)
  PROVE  IsPrefix(s, s) /\ IsPrefix(<<>>, s)
<1>1. Len(s) \in Nat /\ <<>> \in Seq(S) /\ Len(<<>>) = 0
  BY LenProperties, EmptySeq
<1>2. IsPrefix(s, s)
  <2>1. Len(s) <= Len(s)
    BY <1>1
  <2> QED BY <2>1, PrefixIs
<1>3. IsPrefix(<<>>, s)
  <2> DEFINE e == <<>>
  <2>1. e \in Seq(S) /\ Len(e) <= Len(s) /\ \A i \in 1..Len(e) : e[i] = s[i]
    BY <1>1
  <2> HIDE DEF e
  <2>2. IsPrefix(e, s)
    BY <2>1, PrefixIs
  <2> QED BY <2>2 DEF e
<1> QED BY <1>2, <1>3

\* A sequence begins with each of its front parts, and one that is joined to another.
LEMMA PrefixOf ==
  ASSUME NEW S, NEW s \in Seq(S)
  PROVE  /\ \A n \in 0..Len(s) : IsPrefix(SubSeq(s, 1, n), s)
         /\ \A t \in Seq(S) : IsPrefix(s, s \o t)
<1>1. ASSUME NEW n \in 0..Len(s) PROVE IsPrefix(SubSeq(s, 1, n), s)
  <2>1. /\ SubSeq(s, 1, n) \in Seq(S) /\ Len(SubSeq(s, 1, n)) = n
        /\ \A i \in 1..n : SubSeq(s, 1, n)[i] = s[i]
    BY CutFacts
  <2>2. n <= Len(s)
    OBVIOUS
  <2> QED BY <2>1, <2>2, PrefixIs
<1>2. ASSUME NEW t \in Seq(S) PROVE IsPrefix(s, s \o t)
  <2>1. /\ s \o t \in Seq(S) /\ Len(s) \in Nat /\ Len(t) \in Nat /\ Len(s \o t) = Len(s) + Len(t)
        /\ \A i \in 1..Len(s) : (s \o t)[i] = s[i]
    BY ConcatFacts
  <2>2. Len(s) <= Len(s \o t)
    BY <2>1
  <2> QED BY <2>1, <2>2, PrefixIs
<1> QED BY <1>1, <1>2

\* Of two prefixes of a sequence the shorter one is a prefix of the other.
LEMMA PrefixesNest ==
  ASSUME NEW S, NEW s \in Seq(S), NEW t \in Seq(S), NEW u \in Seq(S),
         IsPrefix(s, u), IsPrefix(t, u), Len(s) <= Len(t)
  PROVE  IsPrefix(s, t)
<1>1. Len(s) \in Nat /\ Len(t) \in Nat /\ Len(u) \in Nat
  BY LenProperties
<1>2. \A i \in 1..Len(s) : s[i] = u[i]
  BY PrefixIs
<1>3. \A i \in 1..Len(t) : t[i] = u[i]
  BY PrefixIs
<1>4. \A i \in 1..Len(s) : s[i] = t[i]
  BY <1>1, <1>2, <1>3
<1> QED BY <1>4, PrefixIs

-------------------------------------------------------------------------------
(* Reading a log *)

LEMMA ValidFacts ==
  ASSUME NEW f \in Seq(Piece)
  PROVE  /\ Len(f) \in Nat /\ ValidPieces(f) \in 0..Len(f)
         /\ \A i \in 1..ValidPieces(f) : Sound(f, i)
         /\ ValidPieces(f) < Len(f) => ~Sound(f, ValidPieces(f) + 1)
<1> DEFINE T == {n \in 0..Len(f) : \A i \in 1..n : Sound(f, i)}
<1>1. Len(f) \in Nat
  BY LenProperties
<1>2. 0 \in T
  BY <1>1
<1>3. \E x \in T : \A y \in T : y <= x
  <2>1. T \in SUBSET (0..Len(f)) /\ T # {}
    BY <1>2
  <2> HIDE DEF T
  <2> QED BY <1>1, <2>1, GreatestNat
<1>4. \E x \in T : \A y \in T : x >= y
  BY <1>1, <1>3
<1>5. Max(T) \in T /\ \A y \in T : Max(T) >= y
  <2> HIDE DEF T
  <2> QED BY <1>4 DEF Max
<1>6. ValidPieces(f) = Max(T)
  BY DEF ValidPieces
<1>7. ASSUME ValidPieces(f) < Len(f), Sound(f, ValidPieces(f) + 1) PROVE FALSE
  <2> DEFINE v == ValidPieces(f)
  <2>1. v \in Nat /\ v + 1 \in 0..Len(f) /\ \A i \in 1..v : Sound(f, i)
    BY <1>1, <1>5, <1>6, <1>7
  <2>2. \A i \in 1..(v + 1) : i \in 1..v \/ i = v + 1
    BY <2>1
  <2>3. v + 1 \in T
    BY <1>7, <2>1, <2>2
  <2> QED BY <1>5, <1>6, <2>1, <2>3
<1> QED BY <1>1, <1>5, <1>6, <1>7

LEMMA ValidIs ==
  ASSUME NEW f \in Seq(Piece), NEW n \in 0..Len(f), \A i \in 1..n : Sound(f, i),
         n = Len(f) \/ ~Sound(f, n + 1)
  PROVE  ValidPieces(f) = n
<1>1. Len(f) \in Nat /\ n \in Nat /\ ValidPieces(f) \in Nat /\ ValidPieces(f) <= Len(f) /\ n <= Len(f)
  BY ValidFacts
<1>2. ~(ValidPieces(f) < n)
  <2>1. SUFFICES ASSUME ValidPieces(f) < n PROVE FALSE
    OBVIOUS
  <2>2. ValidPieces(f) < Len(f) /\ ValidPieces(f) + 1 \in 1..n
    BY <1>1, <2>1
  <2> QED BY <2>2, ValidFacts
<1>3. ~(n < ValidPieces(f))
  <2>1. SUFFICES ASSUME n < ValidPieces(f) PROVE FALSE
    OBVIOUS
  <2>2. n # Len(f) /\ n + 1 \in 1..ValidPieces(f)
    BY <1>1, <2>1
  <2> QED BY <2>2, ValidFacts
<1> QED BY <1>1, <1>2, <1>3

\* Two logs that begin with the same k pieces.
Same(f, g, k) ==
  /\ k \in Nat /\ k <= Len(f) /\ k <= Len(g)
  /\ \A i \in 1..k : f[i] = g[i]

\* Whether a piece is sound depends on it and on the pieces before it.
LEMMA SoundSame ==
  ASSUME NEW f \in Seq(Piece), NEW g \in Seq(Piece), NEW k, Same(f, g, k), NEW i \in 1..k
  PROVE  (Sound(f, i) <=> Sound(g, i)) /\ ChainOf(f, i) = ChainOf(g, i)
<1>1. \A j \in 1..(i - 1) : j + 1 \in 1..k
  BY DEF Same
<1>2. \A j \in 1..(i - 1) : f[j + 1] = g[j + 1]
  BY <1>1 DEF Same
<1>3. ChainOf(f, i) = ChainOf(g, i)
  BY <1>2 DEF ChainOf
<1> QED BY <1>3 DEF Same, Sound

\* The function that Replayed chooses exists: it can be built piece by piece.
LEMMA ReplayedIs ==
  ASSUME NEW f \in Seq(Piece)
  PROVE  Replayed(f) = [n \in 0..Len(f) |->
           IF n <= 1 THEN <<>> ELSE ReplayEntry(Replayed(f)[n - 1], f[n])]
<1> DEFINE Step(read, n) == IF n <= 1 THEN <<>> ELSE ReplayEntry(read[n - 1], f[n])
<1> DEFINE S == {k \in Nat : \E read : read = [n \in 0..k |-> Step(read, n)]}
<1>1. 0 \in S
  <2>1. [n \in 0..0 |-> <<>>] = [n \in 0..0 |-> Step([m \in 0..0 |-> <<>>], n)]
    OBVIOUS
  <2> QED BY <2>1
<1>2. ASSUME NEW k \in Nat, k \in S PROVE k + 1 \in S
  <2>1. PICK read : read = [n \in 0..k |-> Step(read, n)]
    BY <1>2
  <2> DEFINE next == [n \in 0..(k + 1) |-> IF n = k + 1 THEN Step(read, n) ELSE read[n]]
  <2>2. ASSUME NEW n \in 0..(k + 1) PROVE next[n] = Step(next, n)
    <3>1. CASE n <= 1
      <4>1. next[n] = <<>>
        BY <2>1, <3>1
      <4> QED BY <3>1, <4>1
    <3>2. CASE ~(n <= 1)
      <4>1. n - 1 \in 0..k /\ n - 1 # k + 1
        BY <2>2, <3>2
      <4>2. next[n - 1] = read[n - 1]
        BY <4>1
      <4>3. next[n] = Step(read, n)
        <5>1. CASE n = k + 1
          BY <5>1
        <5>2. CASE n # k + 1
          <6>1. n \in 0..k
            BY <5>2
          <6>2. read[n] = Step(read, n)
            BY <2>1, <6>1
          <6> QED BY <5>2, <6>2
        <5> QED BY <5>1, <5>2
      <4> QED BY <3>2, <4>2, <4>3
    <3> QED BY <3>1, <3>2
  <2>3. next = [n \in 0..(k + 1) |-> Step(next, n)]
    <3> HIDE DEF Step
    <3> QED BY <2>2
  <2>4. \E g : g = [n \in 0..(k + 1) |-> Step(g, n)]
    <3> HIDE DEF next, Step
    <3> QED BY <2>3
  <2> QED BY <2>4
<1>3. Nat \subseteq S
  <2> HIDE DEF S
  <2> QED BY <1>1, <1>2, NatInductive
<1>4. Len(f) \in Nat
  BY LenProperties
<1>5. \E read : read = [n \in 0..Len(f) |-> Step(read, n)]
  BY <1>3, <1>4
<1> QED BY <1>5 DEF Replayed

LEMMA ReplayedType ==
  ASSUME NEW f \in Seq(Piece)
  PROVE  \A n \in 0..Len(f) : Replayed(f)[n] \in Seq(Nat)
<1> DEFINE S == {n \in Nat : n <= Len(f) => Replayed(f)[n] \in Seq(Nat)}
<1>1. Len(f) \in Nat
  BY LenProperties
<1>2. 0 \in S
  <2>1. Replayed(f)[0] = <<>>
    BY <1>1, ReplayedIs
  <2> QED BY <2>1, EmptySeq
<1>3. ASSUME NEW n \in Nat, n \in S PROVE n + 1 \in S
  <2>1. SUFFICES ASSUME n + 1 <= Len(f) PROVE Replayed(f)[n + 1] \in Seq(Nat)
    OBVIOUS
  <2>2. n + 1 \in 1..Len(f) /\ n \in 0..Len(f) /\ (n + 1) - 1 = n
    BY <1>1, <2>1
  <2>3. Replayed(f)[n] \in Seq(Nat)
    BY <1>3, <2>2
  <2>4. Replayed(f)[n + 1] = IF n + 1 <= 1 THEN <<>> ELSE ReplayEntry(Replayed(f)[n], f[n + 1])
    BY <2>2, ReplayedIs
  <2>5. f[n + 1].payload \in Seq(Nat)
    <3>1. f[n + 1] \in Piece
      BY <2>2, ElementOfSeq
    <3> QED BY <3>1 DEF Piece
  <2>6. Replayed(f)[n] \o f[n + 1].payload \in Seq(Nat)
    BY <2>3, <2>5, ConcatFacts
  <2> QED BY <2>4, <2>5, <2>6, EmptySeq DEF ReplayEntry
<1>4. Nat \subseteq S
  <2> HIDE DEF S
  <2> QED BY <1>2, <1>3, NatInductive
<1> QED BY <1>1, <1>4

\* Logs that begin with the same pieces replay to the same up to there.
LEMMA ReplayedSame ==
  ASSUME NEW f \in Seq(Piece), NEW g \in Seq(Piece), NEW k, Same(f, g, k)
  PROVE  \A n \in 0..k : Replayed(f)[n] = Replayed(g)[n]
<1> DEFINE S == {n \in Nat : n <= k => Replayed(f)[n] = Replayed(g)[n]}
<1>1. Len(f) \in Nat /\ Len(g) \in Nat /\ k \in Nat /\ k <= Len(f) /\ k <= Len(g)
  BY LenProperties DEF Same
<1>2. 0 \in S
  BY <1>1, ReplayedIs
<1>3. ASSUME NEW n \in Nat, n \in S PROVE n + 1 \in S
  <2>1. SUFFICES ASSUME n + 1 <= k PROVE Replayed(f)[n + 1] = Replayed(g)[n + 1]
    OBVIOUS
  <2>2. /\ n + 1 \in 0..Len(f) /\ n + 1 \in 0..Len(g) /\ n + 1 \in 1..k /\ (n + 1) - 1 = n
        /\ n <= k
    BY <1>1, <2>1
  <2>3. f[n + 1] = g[n + 1] /\ Replayed(f)[n] = Replayed(g)[n]
    BY <1>3, <2>2 DEF Same
  <2>4. Replayed(f)[n + 1] = IF n + 1 <= 1 THEN <<>> ELSE ReplayEntry(Replayed(f)[n], f[n + 1])
    BY <2>2, ReplayedIs
  <2>5. Replayed(g)[n + 1] = IF n + 1 <= 1 THEN <<>> ELSE ReplayEntry(Replayed(g)[n], g[n + 1])
    BY <2>2, ReplayedIs
  <2> QED BY <2>3, <2>4, <2>5
<1>4. Nat \subseteq S
  <2> HIDE DEF S
  <2> QED BY <1>2, <1>3, NatInductive
<1> QED BY <1>1, <1>4

\* What is read grows with the log.
LEMMA ReplayedGrows ==
  ASSUME NEW f \in Seq(Piece), OneSnapshot(f), NEW m \in 0..Len(f)
  PROVE  \A n \in m..Len(f) : IsPrefix(Replayed(f)[m], Replayed(f)[n])
<1> DEFINE S == {d \in Nat : m + d <= Len(f) => IsPrefix(Replayed(f)[m], Replayed(f)[m + d])}
<1>1. Len(f) \in Nat /\ m \in Nat
  BY LenProperties
<1>2. 0 \in S
  <2>1. Replayed(f)[m] \in Seq(Nat) /\ m + 0 = m
    BY <1>1, ReplayedType
  <2> QED BY <2>1, PrefixReflexive
<1>3. ASSUME NEW d \in Nat, d \in S PROVE d + 1 \in S
  <2>1. SUFFICES ASSUME m + (d + 1) <= Len(f)
                 PROVE  IsPrefix(Replayed(f)[m], Replayed(f)[m + (d + 1)])
    OBVIOUS
  <2> DEFINE n == m + d
  <2>2. n \in Nat /\ n + 1 \in 1..Len(f) /\ n \in 0..Len(f) /\ (n + 1) - 1 = n /\ m + (d + 1) = n + 1
    BY <1>1, <2>1
  <2>3. IsPrefix(Replayed(f)[m], Replayed(f)[n])
    BY <1>3, <2>2
  <2>4. /\ Replayed(f)[m] \in Seq(Nat) /\ Replayed(f)[n] \in Seq(Nat)
        /\ Replayed(f)[n + 1] \in Seq(Nat)
    BY <2>2, ReplayedType
  <2>5. Replayed(f)[n + 1] = IF n + 1 <= 1 THEN <<>> ELSE ReplayEntry(Replayed(f)[n], f[n + 1])
    BY <2>2, ReplayedIs
  <2> HIDE DEF n
  <2>6. IsPrefix(Replayed(f)[n], Replayed(f)[n + 1])
    <3>1. CASE n <= 1
      <4>1. Replayed(f)[n] = <<>>
        BY <2>2, <3>1, ReplayedIs
      <4> QED BY <2>4, <4>1, PrefixReflexive
    <3>2. CASE n > 1
      <4>1. f[n + 1].kind # "Snapshot"
        BY <2>2, <3>2 DEF OneSnapshot
      <4>2. Replayed(f)[n + 1] = Replayed(f)[n] \o f[n + 1].payload
        <5>1. ~(n + 1 <= 1)
          BY <2>2, <3>2
        <5> QED BY <2>5, <4>1, <5>1 DEF ReplayEntry
      <4>3. f[n + 1].payload \in Seq(Nat)
        <5>1. f[n + 1] \in Piece
          BY <2>2, ElementOfSeq
        <5> QED BY <5>1 DEF Piece
      <4> QED BY <2>4, <4>2, <4>3, PrefixOf
    <3> QED BY <2>2, <3>1, <3>2
  <2>7. IsPrefix(Replayed(f)[m], Replayed(f)[n + 1])
    BY <2>3, <2>4, <2>6, PrefixTransitive
  <2> QED BY <2>2, <2>7
<1>4. Nat \subseteq S
  <2> HIDE DEF S
  <2> QED BY <1>2, <1>3, NatInductive
<1>5. ASSUME NEW n \in m..Len(f) PROVE IsPrefix(Replayed(f)[m], Replayed(f)[n])
  <2>1. n - m \in Nat /\ m + (n - m) = n /\ n <= Len(f)
    BY <1>1
  <2> QED BY <1>4, <2>1
<1> QED BY <1>5

\* The function that BytesOf chooses exists.
LEMMA BytesIs ==
  ASSUME NEW f \in Seq(Piece)
  PROVE  BytesOf(f) = [n \in 0..Len(f) |->
           IF n = 0 THEN 0 ELSE BytesOf(f)[n - 1] + f[n].size]
<1> DEFINE Step(total, n) == IF n = 0 THEN 0 ELSE total[n - 1] + f[n].size
<1> DEFINE S == {k \in Nat : \E total : total = [n \in 0..k |-> Step(total, n)]}
<1>1. 0 \in S
  <2>1. [n \in 0..0 |-> 0] = [n \in 0..0 |-> Step([m \in 0..0 |-> 0], n)]
    OBVIOUS
  <2> QED BY <2>1
<1>2. ASSUME NEW k \in Nat, k \in S PROVE k + 1 \in S
  <2>1. PICK total : total = [n \in 0..k |-> Step(total, n)]
    BY <1>2
  <2> DEFINE next == [n \in 0..(k + 1) |-> IF n = k + 1 THEN Step(total, n) ELSE total[n]]
  <2>2. ASSUME NEW n \in 0..(k + 1) PROVE next[n] = Step(next, n)
    <3>1. CASE n = 0
      BY <2>1, <3>1
    <3>2. CASE n # 0
      <4>1. next[n - 1] = total[n - 1]
        BY <3>2
      <4>2. next[n] = Step(total, n)
        <5>1. CASE n = k + 1
          BY <5>1
        <5>2. CASE n # k + 1
          <6>1. n \in 0..k
            BY <5>2
          <6>2. total[n] = Step(total, n)
            BY <2>1, <6>1
          <6> QED BY <5>2, <6>2
        <5> QED BY <5>1, <5>2
      <4> QED BY <3>2, <4>1, <4>2
    <3> QED BY <3>1, <3>2
  <2>3. next = [n \in 0..(k + 1) |-> Step(next, n)]
    <3> HIDE DEF Step
    <3> QED BY <2>2
  <2>4. \E g : g = [n \in 0..(k + 1) |-> Step(g, n)]
    <3> HIDE DEF next, Step
    <3> QED BY <2>3
  <2> QED BY <2>4
<1>3. Nat \subseteq S
  <2> HIDE DEF S
  <2> QED BY <1>1, <1>2, NatInductive
<1>4. Len(f) \in Nat
  BY LenProperties
<1>5. \E total : total = [n \in 0..Len(f) |-> Step(total, n)]
  BY <1>3, <1>4
<1> QED BY <1>5 DEF BytesOf

\* The bytes of the pieces, one after the other.
LEMMA BytesGrow ==
  ASSUME NEW f \in Seq(Piece)
  PROVE  /\ BytesOf(f)[0] = 0
         /\ \A n \in 0..Len(f) : BytesOf(f)[n] \in Nat
         /\ \A n \in 1..Len(f) :
              /\ f[n].size \in Nat
              /\ BytesOf(f)[n] = BytesOf(f)[n - 1] + f[n].size
<1> DEFINE total == BytesOf(f)
<1>1. Len(f) \in Nat
  BY LenProperties
<1>2. \A n \in 1..Len(f) : f[n].size \in Nat
  <2>1. \A n \in 1..Len(f) : f[n] \in Piece
    BY ElementOfSeq
  <2> QED BY <2>1 DEF Piece
<1>3. total = [n \in 0..Len(f) |-> IF n = 0 THEN 0 ELSE total[n - 1] + f[n].size]
  BY BytesIs
<1> HIDE DEF total
<1>4. total[0] = 0 /\ \A n \in 1..Len(f) : total[n] = total[n - 1] + f[n].size
  BY <1>1, <1>3
<1> DEFINE S == {n \in Nat : n <= Len(f) => total[n] \in Nat}
<1>5. 0 \in S
  BY <1>4
<1>6. ASSUME NEW n \in Nat, n \in S PROVE n + 1 \in S
  <2>1. SUFFICES ASSUME n + 1 <= Len(f) PROVE total[n + 1] \in Nat
    OBVIOUS
  <2>2. n + 1 \in 1..Len(f) /\ (n + 1) - 1 = n /\ total[n] \in Nat
    BY <1>1, <1>6, <2>1
  <2> QED BY <1>2, <1>4, <2>2
<1>7. Nat \subseteq S
  <2> HIDE DEF S
  <2> QED BY <1>5, <1>6, NatInductive
<1>8. \A n \in 0..Len(f) : total[n] \in Nat
  BY <1>1, <1>7
<1> QED BY <1>2, <1>4, <1>8 DEF total

\* Logs that begin with the same pieces are as long up to there.
LEMMA BytesSame ==
  ASSUME NEW f \in Seq(Piece), NEW g \in Seq(Piece), NEW k, Same(f, g, k)
  PROVE  \A n \in 0..k : BytesOf(f)[n] = BytesOf(g)[n]
<1> DEFINE S == {n \in Nat : n <= k => BytesOf(f)[n] = BytesOf(g)[n]}
<1>1. Len(f) \in Nat /\ Len(g) \in Nat /\ k \in Nat /\ k <= Len(f) /\ k <= Len(g)
  BY LenProperties DEF Same
<1>2. 0 \in S
  BY <1>1, BytesGrow
<1>3. ASSUME NEW n \in Nat, n \in S PROVE n + 1 \in S
  <2>1. SUFFICES ASSUME n + 1 <= k PROVE BytesOf(f)[n + 1] = BytesOf(g)[n + 1]
    OBVIOUS
  <2>2. n + 1 \in 1..Len(f) /\ n + 1 \in 1..Len(g) /\ n + 1 \in 1..k /\ (n + 1) - 1 = n
    BY <1>1, <2>1
  <2>3. f[n + 1] = g[n + 1] /\ BytesOf(f)[n] = BytesOf(g)[n]
    BY <1>1, <1>3, <2>1, <2>2 DEF Same
  <2>4. BytesOf(f)[n + 1] = BytesOf(f)[n] + f[n + 1].size
    BY <2>2, BytesGrow
  <2>5. BytesOf(g)[n + 1] = BytesOf(g)[n] + g[n + 1].size
    BY <2>2, BytesGrow
  <2> QED BY <2>3, <2>4, <2>5
<1>4. Nat \subseteq S
  <2> HIDE DEF S
  <2> QED BY <1>2, <1>3, NatInductive
<1> QED BY <1>1, <1>4

\* More pieces are not fewer bytes.
LEMMA BytesMount ==
  ASSUME NEW f \in Seq(Piece), NEW m \in 0..Len(f)
  PROVE  \A n \in m..Len(f) : BytesOf(f)[m] <= BytesOf(f)[n]
<1> DEFINE S == {d \in Nat : m + d <= Len(f) => BytesOf(f)[m] <= BytesOf(f)[m + d]}
<1>1. Len(f) \in Nat /\ m \in Nat
  BY LenProperties
<1>2. 0 \in S
  <2>1. BytesOf(f)[m] \in Nat /\ m + 0 = m
    BY <1>1, BytesGrow
  <2> QED BY <2>1
<1>3. ASSUME NEW d \in Nat, d \in S PROVE d + 1 \in S
  <2>1. SUFFICES ASSUME m + (d + 1) <= Len(f) PROVE BytesOf(f)[m] <= BytesOf(f)[m + (d + 1)]
    OBVIOUS
  <2>2. /\ m + (d + 1) \in 1..Len(f) /\ m + d \in 0..Len(f) /\ (m + (d + 1)) - 1 = m + d
        /\ m + d <= Len(f)
    BY <1>1, <2>1
  <2>3. BytesOf(f)[m] <= BytesOf(f)[m + d]
    BY <1>3, <2>2
  <2>4. /\ BytesOf(f)[m + (d + 1)] = BytesOf(f)[m + d] + f[m + (d + 1)].size
        /\ f[m + (d + 1)].size \in Nat
    BY <2>2, BytesGrow
  <2>5. BytesOf(f)[m] \in Nat /\ BytesOf(f)[m + d] \in Nat
    BY <2>2, BytesGrow
  <2> QED BY <2>3, <2>4, <2>5
<1>4. Nat \subseteq S
  <2> HIDE DEF S
  <2> QED BY <1>2, <1>3, NatInductive
<1>5. ASSUME NEW n \in m..Len(f) PROVE BytesOf(f)[m] <= BytesOf(f)[n]
  <2>1. n - m \in Nat /\ m + (n - m) = n /\ n <= Len(f)
    BY <1>1
  <2>2. n - m \in S
    BY <1>4, <2>1
  <2> QED BY <2>1, <2>2
<1> QED BY <1>5

LEMMA RecoveredFacts ==
  ASSUME NEW f \in Seq(Piece)
  PROVE  /\ Recovered(f) = Replayed(f)[ValidPieces(f)] /\ Recovered(f) \in Seq(Nat)
         /\ Len(f) <= 1 => Recovered(f) = <<>>
<1>1. /\ Len(f) \in Nat /\ ValidPieces(f) \in 0..Len(f)
  BY ValidFacts
<1>2. Recovered(f) = Replayed(f)[ValidPieces(f)]
  BY DEF Recovered
<1>3. Replayed(f)[ValidPieces(f)] \in Seq(Nat)
  BY <1>1, ReplayedType
<1>4. ASSUME Len(f) <= 1 PROVE Replayed(f)[ValidPieces(f)] = <<>>
  <2>1. ValidPieces(f) <= 1
    BY <1>1, <1>4
  <2> QED BY <1>1, <2>1, ReplayedIs
<1> QED BY <1>2, <1>3, <1>4

\* What becomes of a log of which the first n pieces are kept, when what follows them
\* cannot be reached: it is read as far as before, or as far as it was kept.
LEMMA KeptLog ==
  ASSUME NEW f \in Seq(Piece), NEW g \in Seq(Piece), NEW n, Same(f, g, n),
         n <= ValidPieces(f) => n = Len(g) \/ ~Sound(g, n + 1)
  PROVE  /\ ValidPieces(g) = IF n <= ValidPieces(f) THEN n ELSE ValidPieces(f)
         /\ Recovered(g) = Replayed(f)[ValidPieces(g)]
         /\ Bounded(f) => Bounded(g)
<1> DEFINE v == ValidPieces(f)
<1> DEFINE w == IF n <= v THEN n ELSE v
<1>1. /\ Len(f) \in Nat /\ Len(g) \in Nat /\ n \in Nat /\ n <= Len(f) /\ n <= Len(g)
      /\ v \in Nat /\ v <= Len(f)
  BY ValidFacts, LenProperties DEF Same
<1>2. w \in 0..Len(g) /\ w \in 0..n /\ w \in Nat /\ w <= n /\ w <= v
  BY <1>1
<1>3. ASSUME NEW i \in 1..w PROVE Sound(g, i)
  <2>1. i \in 1..n /\ i \in 1..v
    <3> HIDE DEF w
    <3> QED BY <1>1, <1>2
  <2>2. Sound(f, i)
    BY <2>1, ValidFacts
  <2> QED BY <2>1, <2>2, SoundSame
<1>4. w = Len(g) \/ ~Sound(g, w + 1)
  <2>1. CASE n <= v
    BY <2>1
  <2>2. CASE ~(n <= v)
    <3>1. v + 1 \in 1..n /\ v < Len(f) /\ w = v
      BY <1>1, <2>2
    <3>2. ~Sound(f, v + 1)
      BY <3>1, ValidFacts
    <3> QED BY <3>1, <3>2, SoundSame
  <2> QED BY <2>1, <2>2
<1>5. ValidPieces(g) = w
  <2> HIDE DEF w
  <2> QED BY <1>2, <1>3, <1>4, ValidIs
<1>6. Recovered(g) = Replayed(f)[ValidPieces(g)]
  <2>1. Replayed(f)[w] = Replayed(g)[w]
    <3> HIDE DEF w
    <3> QED BY <1>2, ReplayedSame
  <2> QED BY <1>5, <2>1, RecoveredFacts
<1>7. Bounded(f) => Bounded(g)
  <2>1. BytesOf(g)[w] = BytesOf(f)[w] /\ BytesOf(f)[w] <= BytesOf(f)[v]
    <3> HIDE DEF w
    <3>1. w \in 0..Len(f) /\ v \in w..Len(f)
      BY <1>1, <1>2
    <3> QED BY <1>2, <3>1, BytesSame, BytesMount
  <2>2. BytesOf(f)[w] \in Nat /\ BytesOf(f)[v] \in Nat
    <3> HIDE DEF w
    <3>1. w \in 0..Len(f) /\ v \in 0..Len(f)
      BY <1>1, <1>2
    <3> QED BY <3>1, BytesGrow
  <2> HIDE DEF w
  <2> QED BY <1>5, <2>1, <2>2, JournalAssumption DEF Bounded
<1> QED BY <1>5, <1>6, <1>7

LEMMA PieceTypes == Header \in Piece /\ Torn \in Piece /\ <<Header>> \in Seq(Piece)
<1>1. <<>> \in Seq(Nat) /\ <<>> \in Seq(Seq(Nat))
  BY EmptySeq
<1>2. Header \in Piece
  BY <1>1 DEF Header, Piece, Kinds
<1>3. Torn \in Piece
  BY <1>1 DEF Torn, Header, Piece, Kinds
<1> QED BY <1>2, <1>3

LEMMA TornIsUnsound ==
  ASSUME NEW f, NEW i, f[i] = Torn
  PROVE  ~Sound(f, i)
BY DEF Sound, Torn, Header

\* What a cut leaves, and perhaps a torn piece after it.
IsCut(f, n, torn, g) ==
  /\ g \in Seq(Piece) /\ Same(f, g, n)
  /\ Len(g) = n + Len(torn) /\ Len(torn) \in 0..1
  /\ torn # <<>> => g[n + 1] = Torn
  /\ ValidPieces(g) = IF n <= ValidPieces(f) THEN n ELSE ValidPieces(f)
  /\ Recovered(g) = Replayed(f)[ValidPieces(g)]
  /\ OneSnapshot(f) => OneSnapshot(g)
  /\ Bounded(f) => Bounded(g)

LEMMA CutLog ==
  ASSUME NEW f \in Seq(Piece), NEW n \in 0..Len(f), NEW torn \in {<<>>, <<Torn>>},
         NEW g, g = SubSeq(f, 1, n) \o torn
  PROVE  IsCut(f, n, torn, g)
<1>1. /\ SubSeq(f, 1, n) \in Seq(Piece) /\ Len(SubSeq(f, 1, n)) = n
      /\ \A i \in 1..n : SubSeq(f, 1, n)[i] = f[i]
  BY CutFacts
<1>2. torn \in Seq(Piece) /\ Len(torn) \in 0..1 /\ (torn # <<>> => Len(torn) = 1 /\ torn[1] = Torn)
      /\ (torn = <<>> => Len(torn) = 0)
  <2>1. CASE torn = <<>>
    BY <2>1, EmptySeq
  <2>2. CASE torn = <<Torn>>
    <3>1. <<Torn>> \in Seq(Piece) /\ Len(<<Torn>>) = 1 /\ <<Torn>>[1] = Torn
      BY PieceTypes
    <3> QED BY <2>2, <3>1
  <2> QED BY <2>1, <2>2
<1>3. Len(f) \in Nat /\ n \in Nat /\ n <= Len(f)
  BY LenProperties
<1>4. /\ g \in Seq(Piece) /\ Len(g) = n + Len(torn)
      /\ \A i \in 1..n : g[i] = f[i]
      /\ \A i \in 1..Len(torn) : g[n + i] = torn[i]
  <2> DEFINE front == SubSeq(f, 1, n)
  <2>1. front \in Seq(Piece) /\ torn \in Seq(Piece) /\ Len(front) = n
    BY <1>1, <1>2
  <2> HIDE DEF front
  <2>2. /\ front \o torn \in Seq(Piece) /\ Len(front \o torn) = Len(front) + Len(torn)
        /\ \A i \in 1..Len(front) : (front \o torn)[i] = front[i]
        /\ \A i \in 1..Len(torn) : (front \o torn)[Len(front) + i] = torn[i]
    BY <2>1, ConcatFacts, SMTT(20)
  <2>3. g = front \o torn
    BY DEF front
  <2>4. \A i \in 1..n : front[i] = f[i]
    BY <1>1 DEF front
  <2> QED BY <2>1, <2>2, <2>3, <2>4
<1>5. Same(f, g, n)
  BY <1>2, <1>3, <1>4 DEF Same
<1>6. torn # <<>> => g[n + 1] = Torn
  BY <1>2, <1>4
<1>7. n = Len(g) \/ ~Sound(g, n + 1)
  <2>1. CASE torn = <<>>
    BY <1>2, <1>3, <1>4, <2>1
  <2>2. CASE torn # <<>>
    BY <1>6, <2>2, TornIsUnsound
  <2> QED BY <2>1, <2>2
<1>8. OneSnapshot(f) => OneSnapshot(g)
  <2>1. SUFFICES ASSUME OneSnapshot(f), NEW i \in 1..Len(g), g[i].kind = "Snapshot" PROVE i = 2
    BY DEF OneSnapshot
  <2>2. CASE i \in 1..n
    BY <1>3, <1>4, <2>1, <2>2 DEF OneSnapshot
  <2>3. CASE i \notin 1..n
    <3>1. torn # <<>> /\ i = n + 1
      BY <1>2, <1>3, <1>4, <2>3
    <3> QED BY <1>6, <2>1, <3>1 DEF Torn, Header
  <2> QED BY <2>2, <2>3
<1>9. /\ ValidPieces(g) = IF n <= ValidPieces(f) THEN n ELSE ValidPieces(f)
      /\ Recovered(g) = Replayed(f)[ValidPieces(g)]
      /\ Bounded(f) => Bounded(g)
  BY <1>4, <1>5, <1>7, KeptLog
<1> QED BY <1>2, <1>4, <1>5, <1>6, <1>8, <1>9 DEF IsCut

\* What is read of a part of a log is the beginning of what is read of it.
LEMMA ReadOfCut ==
  ASSUME NEW f \in Seq(Piece), OneSnapshot(f), NEW g \in Seq(Piece),
         NEW v \in 0..ValidPieces(f), Recovered(g) = Replayed(f)[v]
  PROVE  IsPrefix(Recovered(g), Recovered(f))
<1>1. Len(f) \in Nat /\ ValidPieces(f) \in 0..Len(f)
  BY ValidFacts
<1>2. v \in 0..Len(f) /\ ValidPieces(f) \in v..Len(f)
  BY <1>1
<1> QED BY <1>2, ReplayedGrows, RecoveredFacts

\* A record that continues a sound log is read as its next one.
LEMMA NextRecord ==
  ASSUME NEW f \in Seq(Piece), ValidPieces(f) = Len(f), f # <<>>,
         NEW record \in Piece, record.kind \notin {"Header", "Torn"},
         record.sequence = Len(f) - 1,
         record.chain = Append(ChainOf(f, Len(f)), record.payload),
         NEW g, g = Append(f, record)
  PROVE  /\ g \in Seq(Piece) /\ Len(g) = Len(f) + 1 /\ Same(f, g, Len(f))
         /\ ValidPieces(g) = Len(g)
         /\ Recovered(g) = ReplayEntry(Recovered(f), record)
         /\ ChainOf(g, Len(g)) = record.chain
         /\ BytesOf(g)[Len(g)] = BytesOf(f)[Len(f)] + record.size
         /\ OneSnapshot(f) /\ (record.kind = "Snapshot" => Len(f) = 1) => OneSnapshot(g)
<1>1. /\ g \in Seq(Piece) /\ Len(f) \in Nat /\ Len(f) > 0 /\ Len(g) = Len(f) + 1
      /\ \A i \in 1..Len(f) : g[i] = f[i]
      /\ g[Len(f) + 1] = record
  BY AppendFacts, EmptySeq
<1>2. Same(f, g, Len(f))
  BY <1>1 DEF Same
<1>3. \A i \in 1..Len(f) : f[i].payload \in Seq(Nat)
  <2>1. \A i \in 1..Len(f) : f[i] \in Piece
    BY ElementOfSeq
  <2> QED BY <2>1 DEF Piece
<1>4. ChainOf(g, Len(g)) = record.chain
  <2> DEFINE c == ChainOf(f, Len(f))
  <2> DEFINE d == ChainOf(g, Len(g))
  <2>1. \A i \in 1..(Len(f) - 1) : i + 1 \in 1..Len(f)
    BY <1>1
  <2>2. c \in [1..(Len(f) - 1) -> Seq(Nat)]
    BY <1>3, <2>1 DEF ChainOf
  <2>3. Len(f) - 1 \in Nat
    BY <1>1
  <2>4. c \in Seq(Seq(Nat)) /\ Len(c) = Len(f) - 1
    <3> HIDE DEF c
    <3> QED BY <2>2, <2>3, SMTT(20)
  <2>5. record.payload \in Seq(Nat)
    BY DEF Piece
  <2>6. /\ Append(c, record.payload) \in Seq(Seq(Nat)) /\ Len(Append(c, record.payload)) = Len(f)
        /\ \A i \in 1..(Len(f) - 1) : Append(c, record.payload)[i] = c[i]
        /\ Append(c, record.payload)[Len(f)] = record.payload
    <3> HIDE DEF c
    <3>1. (Len(f) - 1) + 1 = Len(f)
      BY <1>1
    <3> QED BY <2>4, <2>5, <3>1, AppendFacts
  <2>7. \A i \in 1..Len(f) : g[i + 1].payload \in Seq(Nat)
    <3>1. \A i \in 1..Len(f) : i + 1 \in 1..Len(g)
      BY <1>1
    <3>2. \A i \in 1..Len(g) : g[i] \in Piece
      BY <1>1, ElementOfSeq
    <3> QED BY <3>1, <3>2 DEF Piece
  <2>8. d = [i \in 1..Len(f) |-> g[i + 1].payload]
    <3>1. Len(g) - 1 = Len(f)
      BY <1>1
    <3> QED BY <3>1 DEF ChainOf
  <2>9. d \in Seq(Seq(Nat)) /\ Len(d) = Len(f)
    <3>1. d \in [1..Len(f) -> Seq(Nat)]
      BY <2>7, <2>8
    <3>2. Len(f) \in Nat
      BY <1>1
    <3> HIDE DEF d
    <3> QED BY <3>1, <3>2
  <2>10. ASSUME NEW i \in 1..Len(f) PROVE d[i] = Append(c, record.payload)[i]
    <3>1. CASE i = Len(f)
      BY <1>1, <2>6, <2>8, <3>1
    <3>2. CASE i # Len(f)
      <4>1. i \in 1..(Len(f) - 1) /\ i + 1 \in 1..Len(f)
        BY <1>1, <3>2
      <4>2. d[i] = f[i + 1].payload
        BY <1>1, <2>8, <4>1
      <4>3. c[i] = f[i + 1].payload
        BY <4>1 DEF ChainOf
      <4> QED BY <2>6, <4>1, <4>2, <4>3
    <3> QED BY <3>1, <3>2
  <2> HIDE DEF c, d
  <2>11. d = Append(c, record.payload)
    BY <2>6, <2>9, <2>10, SeqEqual
  <2> QED BY <2>11 DEF c, d
<1>5. \A i \in 1..Len(g) : Sound(g, i)
  <2>1. ASSUME NEW i \in 1..Len(f) PROVE Sound(g, i)
    <3>1. Sound(f, i)
      BY ValidFacts
    <3> QED BY <1>1, <1>2, <3>1, SoundSame
  <2>2. Sound(g, Len(g))
    <3>1. Len(g) # 1 /\ Len(f) - 1 = Len(g) - 2
      BY <1>1
    <3>2. g[Len(g)] = record
      BY <1>1
    <3> QED BY <1>4, <3>1, <3>2 DEF Sound
  <2>3. \A i \in 1..Len(g) : i \in 1..Len(f) \/ i = Len(g)
    BY <1>1
  <2> QED BY <2>1, <2>2, <2>3
<1>6. ValidPieces(g) = Len(g)
  <2>1. Len(g) \in 0..Len(g)
    BY <1>1
  <2> QED BY <1>1, <1>5, <2>1, ValidIs
<1>7. Recovered(g) = ReplayEntry(Recovered(f), record)
  <2>1. Len(g) \in 0..Len(g) /\ ~(Len(g) <= 1) /\ Len(g) - 1 = Len(f) /\ Len(f) \in 0..Len(f)
    BY <1>1
  <2>2. Replayed(g)[Len(g)] = ReplayEntry(Replayed(g)[Len(f)], g[Len(g)])
    <3>1. g \in Seq(Piece)
      BY <1>1
    <3>2. \A n \in 0..Len(g) :
            Replayed(g)[n] = IF n <= 1 THEN <<>> ELSE ReplayEntry(Replayed(g)[n - 1], g[n])
      BY <3>1, ReplayedIs
    <3> QED BY <2>1, <3>2
  <2>3. Replayed(g)[Len(f)] = Replayed(f)[Len(f)]
    BY <1>1, <1>2, <2>1, ReplayedSame
  <2> QED BY <1>1, <1>6, <2>2, <2>3, RecoveredFacts
<1>8. OneSnapshot(f) /\ (record.kind = "Snapshot" => Len(f) = 1) => OneSnapshot(g)
  <2>1. \A i \in 1..Len(g) : i \in 1..Len(f) \/ i = Len(f) + 1
    BY <1>1
  <2> QED BY <1>1, <2>1 DEF OneSnapshot
<1>9. BytesOf(g)[Len(g)] = BytesOf(f)[Len(f)] + record.size
  <2>1. Len(g) \in 1..Len(g) /\ Len(g) - 1 = Len(f) /\ Len(f) \in 0..Len(f) /\ g[Len(g)] = record
    BY <1>1
  <2>2. BytesOf(g)[Len(g)] = BytesOf(g)[Len(f)] + record.size
    BY <1>1, <2>1, BytesGrow
  <2>3. BytesOf(f)[Len(f)] = BytesOf(g)[Len(f)]
    BY <1>1, <1>2, <2>1, BytesSame
  <2> QED BY <2>2, <2>3
<1> QED BY <1>1, <1>2, <1>4, <1>6, <1>7, <1>8, <1>9

-------------------------------------------------------------------------------
(* What fits what was done *)

LEMMA FitsItself ==
  ASSUME NEW S, NEW s \in Seq(S)
  PROVE  Fits(s, s)
BY PrefixReflexive DEF Fits

LEMMA FrontFacts ==
  ASSUME NEW S, NEW s \in Seq(S), s # <<>>
  PROVE  /\ Front(s) \in Seq(S) /\ Len(s) \in Nat /\ Len(s) > 0 /\ Len(Front(s)) = Len(s) - 1
         /\ IsPrefix(Front(s), s) /\ Last(s) \in S /\ Last(s) \in Range(s)
<1>1. Len(s) \in Nat /\ Len(s) > 0 /\ Len(s) - 1 \in 0..Len(s) /\ Len(s) \in 1..Len(s)
  BY LenProperties, EmptySeq
<1>2. Front(s) \in Seq(S) /\ Len(Front(s)) = Len(s) - 1
  BY <1>1, CutFacts DEF Front
<1>3. IsPrefix(Front(s), s)
  BY <1>1, PrefixOf DEF Front
<1>4. Last(s) \in S /\ Last(s) \in Range(s)
  BY <1>1, ElementOfSeq, LenProperties DEF Last, Range
<1> QED BY <1>1, <1>2, <1>3, <1>4

LEMMA FitsPrefix ==
  ASSUME NEW S, NEW s \in Seq(S), NEW t \in Seq(S), NEW done \in Seq(S),
         IsPrefix(s, t), Fits(t, done)
  PROVE  Fits(s, done)
<1>1. CASE IsPrefix(t, done)
  BY <1>1, PrefixTransitive DEF Fits
<1>2. CASE t # <<>> /\ IsPrefix(Front(t), done) /\ Last(t) \notin Range(done)
  <2>1. /\ Front(t) \in Seq(S) /\ Len(t) \in Nat /\ Len(t) > 0 /\ Len(Front(t)) = Len(t) - 1
        /\ IsPrefix(Front(t), t)
    BY <1>2, FrontFacts
  <2>2. Len(s) \in Nat /\ Len(s) <= Len(t) /\ \A i \in 1..Len(s) : s[i] = t[i]
    BY LenProperties, PrefixIs
  <2>3. CASE Len(s) = Len(t)
    <3>1. s = t
      BY <2>2, <2>3, SeqEqual
    <3> QED BY <3>1
  <2>4. CASE Len(s) # Len(t)
    <3>1. Len(s) <= Len(Front(t))
      BY <2>1, <2>2, <2>4
    <3>2. IsPrefix(s, Front(t))
      BY <2>1, <3>1, PrefixesNest
    <3>3. IsPrefix(s, done)
      BY <1>2, <2>1, <3>2, PrefixTransitive
    <3> QED BY <3>3 DEF Fits
  <2> QED BY <2>3, <2>4
<1> QED BY <1>1, <1>2 DEF Fits

LEMMA AppendedPrefix ==
  ASSUME NEW S, NEW s \in Seq(S), NEW x \in S
  PROVE  /\ Append(s, x) \in Seq(S) /\ IsPrefix(s, Append(s, x))
         /\ Range(Append(s, x)) = Range(s) \cup {x}
         /\ Append(s, x) # <<>> /\ Front(Append(s, x)) = s /\ Last(Append(s, x)) = x
<1>1. /\ Append(s, x) \in Seq(S) /\ Append(s, x) # <<>>
      /\ Len(s) \in Nat /\ Len(Append(s, x)) = Len(s) + 1
      /\ \A i \in 1..Len(s) : Append(s, x)[i] = s[i]
      /\ Append(s, x)[Len(s) + 1] = x
  BY AppendFacts
<1>2. IsPrefix(s, Append(s, x))
  <2>1. Len(s) <= Len(Append(s, x))
    BY <1>1
  <2> QED BY <1>1, <2>1, PrefixIs
<1>3. Range(Append(s, x)) = Range(s) \cup {x}
  <2>1. DOMAIN s = 1..Len(s) /\ DOMAIN Append(s, x) = 1..Len(Append(s, x))
    BY <1>1, LenProperties
  <2>2. 1..Len(Append(s, x)) = (1..Len(s)) \cup {Len(s) + 1}
    BY <1>1
  <2> QED BY <1>1, <2>1, <2>2 DEF Range
<1>4. Front(Append(s, x)) = s
  <2>1. /\ Front(Append(s, x)) \in Seq(S) /\ Len(Front(Append(s, x))) = Len(Append(s, x)) - 1
        /\ IsPrefix(Front(Append(s, x)), Append(s, x))
    BY <1>1, FrontFacts
  <2>2. Len(Front(Append(s, x))) = Len(s)
    BY <1>1, <2>1
  <2>3. \A i \in 1..Len(s) : Front(Append(s, x))[i] = Append(s, x)[i]
    <3> DEFINE whole == Append(s, x)
    <3> DEFINE front == Front(whole)
    <3>1. front \in Seq(S) /\ whole \in Seq(S) /\ IsPrefix(front, whole) /\ Len(front) = Len(s)
      BY <1>1, <2>1, <2>2
    <3> HIDE DEF front, whole
    <3>2. \A i \in 1..Len(front) : front[i] = whole[i]
      BY <3>1, PrefixIs
    <3> QED BY <3>1, <3>2 DEF front, whole
  <2> QED BY <1>1, <2>1, <2>2, <2>3, SeqEqual
<1>5. Last(Append(s, x)) = x
  BY <1>1 DEF Last
<1> QED BY <1>1, <1>2, <1>3, <1>4, <1>5

\* What fitted still fits when the engine does something new.
LEMMA FitsGrown ==
  ASSUME NEW S, NEW read \in Seq(S), NEW done \in Seq(S), Fits(read, done),
         NEW x \in S, x \notin Range(read)
  PROVE  Fits(read, Append(done, x))
<1>1. /\ Append(done, x) \in Seq(S) /\ IsPrefix(done, Append(done, x))
      /\ Range(Append(done, x)) = Range(done) \cup {x}
  BY AppendedPrefix
<1>2. CASE IsPrefix(read, done)
  BY <1>1, <1>2, PrefixTransitive DEF Fits
<1>3. CASE read # <<>> /\ IsPrefix(Front(read), done) /\ Last(read) \notin Range(done)
  <2>1. Front(read) \in Seq(S) /\ Last(read) \in Range(read)
    BY <1>3, FrontFacts
  <2>2. IsPrefix(Front(read), Append(done, x))
    BY <1>1, <1>3, <2>1, PrefixTransitive
  <2> QED BY <1>1, <1>3, <2>1, <2>2 DEF Fits
<1> QED BY <1>2, <1>3 DEF Fits

\* A failed append may leave what the engine did not do.
LEMMA FitsFailed ==
  ASSUME NEW S, NEW done \in Seq(S), NEW x \in S, x \notin Range(done)
  PROVE  Fits(Append(done, x), done)
<1>1. Append(done, x) # <<>> /\ Front(Append(done, x)) = done /\ Last(Append(done, x)) = x
  BY AppendedPrefix
<1> QED BY <1>1, PrefixReflexive DEF Fits

\* Numbers that were issued.
LEMMA Issued ==
  ASSUME NEW n \in Nat, NEW s \in Seq(1..n)
  PROVE  /\ s \in Seq(Nat) /\ s \in Seq(1..(n + 1)) /\ n + 1 \notin Range(s)
         /\ \A m \in Nat : n <= m => s \in Seq(1..m)
         /\ Append(s, n + 1) \in Seq(1..(n + 1))
<1>1. Len(s) \in Nat /\ s \in [1..Len(s) -> 1..n]
  BY LenProperties
<1>2. ASSUME NEW m \in Nat, n <= m PROVE s \in Seq(1..m)
  <2>1. s \in [1..Len(s) -> 1..m]
    BY <1>1, <1>2
  <2> QED BY <1>1, <2>1, SMTT(20)
<1>3. s \in Seq(Nat)
  <2>1. s \in [1..Len(s) -> Nat]
    BY <1>1
  <2> QED BY <1>1, <2>1
<1>4. s \in Seq(1..(n + 1))
  BY <1>2
<1>5. n + 1 \notin Range(s)
  BY <1>1 DEF Range
<1>6. Append(s, n + 1) \in Seq(1..(n + 1))
  BY <1>4, AppendFacts
<1> QED BY <1>2, <1>3, <1>4, <1>5, <1>6

-------------------------------------------------------------------------------
(* What the invariant says of the storage *)

LEMMA Types ==
  ASSUME TypeOK
  PROVE  /\ file \in Seq(Piece) /\ Len(file) \in Nat /\ safe \in 0..Len(file)
         /\ log.buffer \in Seq(Piece) /\ Len(log.buffer) \in Nat
         /\ Written \in Seq(Piece) /\ Len(Written) = Len(file) + Len(log.buffer)
         /\ \A i \in 1..Len(file) : Written[i] = file[i]
         /\ \A i \in 1..Len(log.buffer) : Written[Len(file) + i] = log.buffer[i]
         /\ issued \in Nat /\ history \in Seq(Nat) /\ Len(history) \in Nat /\ sure \in 0..Len(history)
         /\ \A f \in former : f \in Seq(Piece)
<1>1. file \in Seq(Piece) /\ log.buffer \in Seq(Piece) /\ history \in Seq(1..MaxIssued) /\ MaxIssued \in Nat
  BY JournalAssumption DEF TypeOK
<1>2. history \in Seq(Nat) /\ Len(history) \in Nat
  BY <1>1, Issued, LenProperties
<1>3. /\ file \o log.buffer \in Seq(Piece) /\ Len(file) \in Nat /\ Len(log.buffer) \in Nat
      /\ Len(file \o log.buffer) = Len(file) + Len(log.buffer)
      /\ \A i \in 1..Len(file) : (file \o log.buffer)[i] = file[i]
      /\ \A i \in 1..Len(log.buffer) : (file \o log.buffer)[Len(file) + i] = log.buffer[i]
  BY <1>1, ConcatFacts
<1>4. issued \in Nat /\ sure \in 0..Len(history) /\ safe \in 0..Len(file) /\ \A f \in former : f \in Seq(Piece)
  BY <1>1 DEF TypeOK
<1> QED BY <1>1, <1>2, <1>3, <1>4 DEF Written

\* What every loss of power leaves of the file.
Durable == Recovered(SubSeq(file, 1, safe))

LEMMA DurableFacts ==
  ASSUME TypeOK, OneSnapshot(file)
  PROVE  /\ SubSeq(file, 1, safe) \in Seq(Piece)
         /\ Durable \in Seq(Nat)
         /\ Durable = Replayed(file)[IF safe <= ValidPieces(file) THEN safe ELSE ValidPieces(file)]
         /\ IsPrefix(Durable, Recovered(file))
<1>1. file \in Seq(Piece) /\ safe \in 0..Len(file) /\ Len(file) \in Nat
  BY Types
<1> DEFINE g == SubSeq(file, 1, safe)
<1>2. g \in Seq(Piece) /\ g \o <<>> = g
  BY <1>1, CutFacts, ConcatEmptySeq
<1>3. /\ ValidPieces(g) = IF safe <= ValidPieces(file) THEN safe ELSE ValidPieces(file)
      /\ Recovered(g) = Replayed(file)[ValidPieces(g)]
  <2>1. g = SubSeq(file, 1, safe) \o <<>>
    BY <1>2
  <2> HIDE DEF g
  <2>2. IsCut(file, safe, <<>>, g)
    BY <1>1, <2>1, CutLog
  <2> QED BY <2>2 DEF IsCut
<1>4. ValidPieces(file) \in Nat
  BY <1>1, ValidFacts
<1>5. ValidPieces(g) \in 0..ValidPieces(file)
  BY <1>1, <1>3, <1>4
<1>6. IsPrefix(Recovered(g), Recovered(file))
  <2> HIDE DEF g
  <2> QED BY <1>1, <1>2, <1>3, <1>5, ReadOfCut
<1>7. Recovered(g) \in Seq(Nat)
  <2> HIDE DEF g
  <2> QED BY <1>2, RecoveredFacts
<1> QED BY <1>2, <1>3, <1>6, <1>7 DEF Durable

\* What is promised is read, whatever is lost of the file.
LEMMA PromisedFacts ==
  ASSUME TypeOK, Images
  PROVE  /\ Promised \in Seq(Nat) /\ Len(Promised) = sure /\ sure \in Nat
         /\ IsPrefix(Promised, history)
         /\ IsPrefix(Promised, Durable) /\ IsPrefix(Promised, Recovered(file))
         /\ Recovered(file) \in Seq(Nat) /\ sure <= Len(Recovered(file))
<1>1. history \in Seq(Nat) /\ sure \in 0..Len(history) /\ Len(history) \in Nat /\ file \in Seq(Piece)
  BY Types
<1>2. Promised \in Seq(Nat) /\ Len(Promised) = sure
  BY <1>1, CutFacts DEF Promised
<1>3. IsPrefix(Promised, history)
  BY <1>1, PrefixOf DEF Promised
<1>4. IsPrefix(Promised, Durable)
  BY DEF Images, Durable
<1>5. Durable \in Seq(Nat) /\ IsPrefix(Durable, Recovered(file))
  BY DurableFacts DEF Images, ImageOK
<1>6. Recovered(file) \in Seq(Nat)
  BY <1>1, RecoveredFacts
<1>7. IsPrefix(Promised, Recovered(file))
  BY <1>2, <1>4, <1>5, <1>6, PrefixTransitive
<1>8. sure <= Len(Recovered(file))
  BY <1>2, <1>6, <1>7, PrefixIs
<1> QED BY <1>1, <1>2, <1>3, <1>4, <1>6, <1>7, <1>8

\* A log that continues: what waits in its buffer adds nothing to what is read.
LEMMA ContinuesFacts ==
  ASSUME TypeOK, OneSnapshot(file), Buffered, Continues, file # <<>>
  PROVE  /\ OneSnapshot(Written) /\ Recovered(file) = history
         /\ ValidPieces(file) = Len(file) /\ Len(file) > 0
         /\ \A n \in Len(file)..Len(Written) : Replayed(Written)[n] = history
<1>1. /\ file \in Seq(Piece) /\ Len(file) \in Nat /\ Len(log.buffer) \in Nat
      /\ Written \in Seq(Piece) /\ Len(Written) = Len(file) + Len(log.buffer)
      /\ \A i \in 1..Len(file) : Written[i] = file[i]
      /\ history \in Seq(Nat)
  BY Types
<1>2. \A i \in 1..Len(log.buffer) :
        /\ Written[Len(file) + i].kind = "CountersSync"
        /\ Written[Len(file) + i].payload = <<>>
  BY Types DEF Buffered
<1>3. Len(file) > 0 /\ Len(log.buffer) <= 1
  BY <1>1, EmptySeq DEF Buffered
<1>4. ValidPieces(Written) = Len(Written) /\ Recovered(Written) = history
  BY DEF Continues
<1>5. Same(Written, file, Len(file))
  BY <1>1 DEF Same
<1>6. ValidPieces(file) = Len(file) /\ Recovered(file) = Replayed(Written)[Len(file)]
  <2>1. Len(file) <= ValidPieces(Written)
    BY <1>1, <1>4
  <2> QED BY <1>1, <1>5, <2>1, KeptLog
<1>7. Replayed(Written)[Len(Written)] = history
  BY <1>1, <1>4, RecoveredFacts
<1>8. Replayed(Written)[Len(file)] = history
  <2>1. CASE Len(log.buffer) = 0
    <3>1. Len(Written) = Len(file)
      BY <1>1, <2>1
    <3> QED BY <1>7, <3>1
  <2>2. CASE Len(log.buffer) # 0
    <3>1. /\ 1 \in 1..Len(log.buffer) /\ Len(Written) = Len(file) + 1 /\ ~(Len(Written) <= 1)
          /\ Len(Written) \in 0..Len(Written) /\ Len(Written) - 1 = Len(file)
          /\ Len(file) \in 0..Len(Written)
      BY <1>1, <1>3, <2>2
    <3>2. \A n \in 0..Len(Written) :
            Replayed(Written)[n] =
              IF n <= 1 THEN <<>> ELSE ReplayEntry(Replayed(Written)[n - 1], Written[n])
      BY <1>1, ReplayedIs
    <3>3. Replayed(Written)[Len(Written)] =
            ReplayEntry(Replayed(Written)[Len(file)], Written[Len(Written)])
      BY <3>1, <3>2
    <3>4. Written[Len(Written)].kind = "CountersSync" /\ Written[Len(Written)].payload = <<>>
      BY <1>2, <3>1
    <3>5. Replayed(Written)[Len(file)] \in Seq(Nat)
      BY <1>1, <3>1, ReplayedType
    <3>6. Replayed(Written)[Len(file)] \o <<>> = Replayed(Written)[Len(file)]
      BY <3>5, ConcatEmptySeq
    <3> QED BY <1>7, <3>3, <3>4, <3>6 DEF ReplayEntry
  <2> QED BY <2>1, <2>2
<1>9. OneSnapshot(Written)
  <2>1. SUFFICES ASSUME NEW i \in 1..Len(Written), Written[i].kind = "Snapshot" PROVE i = 2
    BY DEF OneSnapshot
  <2>2. CASE i \in 1..Len(file)
    BY <1>1, <2>1, <2>2 DEF OneSnapshot
  <2>3. CASE i \notin 1..Len(file)
    <3>1. i - Len(file) \in 1..Len(log.buffer) /\ i = Len(file) + (i - Len(file))
      BY <1>1, <2>3
    <3>2. Written[i].kind = "CountersSync"
      BY <1>2, <3>1
    <3> QED BY <2>1, <3>2
  <2> QED BY <2>2, <2>3
<1>10. \A n \in Len(file)..Len(Written) : n = Len(file) \/ n = Len(Written)
  BY <1>1, <1>3
<1> QED BY <1>3, <1>6, <1>7, <1>8, <1>9, <1>10

-------------------------------------------------------------------------------
(* What a write leaves *)

LEMMA SingleFacts ==
  ASSUME NEW S, NEW s \in Seq(S), NEW x \in S
  PROVE  s \o <<x>> = Append(s, x) /\ <<x>> \in Seq(S) /\ Len(<<x>>) = 1
<1>1. <<x>> \in Seq(S) /\ Len(<<x>>) = 1 /\ <<x>>[1] = x
  OBVIOUS
<1> DEFINE one == <<x>>
<1>2. one \in Seq(S) /\ Len(one) = 1 /\ one[1] = x
  BY <1>1
<1> HIDE DEF one
<1>3. /\ s \o one \in Seq(S) /\ Len(s) \in Nat /\ Len(s \o one) = Len(s) + 1
      /\ \A i \in 1..Len(s) : (s \o one)[i] = s[i]
      /\ (s \o one)[Len(s) + 1] = x
  <2>1. /\ s \o one \in Seq(S) /\ Len(s) \in Nat /\ Len(s \o one) = Len(s) + Len(one)
        /\ \A i \in 1..Len(s) : (s \o one)[i] = s[i]
        /\ \A i \in 1..Len(one) : (s \o one)[Len(s) + i] = one[i]
    <3>1. s \in Seq(S) /\ one \in Seq(S)
      BY <1>2
    <3> QED BY <3>1, ConcatFacts
  <2>2. 1 \in 1..Len(one)
    BY <1>2
  <2>3. (s \o one)[Len(s) + 1] = one[1]
    BY <2>1, <2>2
  <2> QED BY <1>2, <2>1, <2>3
<1>4. /\ Append(s, x) \in Seq(S) /\ Len(Append(s, x)) = Len(s) + 1
      /\ \A i \in 1..Len(s) : Append(s, x)[i] = s[i]
      /\ Append(s, x)[Len(s) + 1] = x
  BY AppendFacts
<1>5. \A i \in 1..(Len(s) + 1) : i \in 1..Len(s) \/ i = Len(s) + 1
  BY <1>3
<1>6. s \o one = Append(s, x)
  BY <1>3, <1>4, <1>5, SeqEqual
<1> QED BY <1>1, <1>6 DEF one

\* A write that was cut short leaves the beginning of what was written, and perhaps a
\* torn piece.
LEMMA CutShortIs ==
  ASSUME TypeOK, NEW more \in Seq(Piece), CutShort(more)
  PROVE  /\ safe' = safe /\ former' = former
         /\ Written \o more \in Seq(Piece)
         /\ \E n \in Len(file)..Len(Written \o more), torn \in {<<>>, <<Torn>>} :
              /\ file' = SubSeq(Written \o more, 1, n) \o torn
              /\ torn # <<>> => n < Len(Written \o more)
<1> DEFINE pending == log.buffer \o more
<1> DEFINE whole == Written \o more
<1>1. /\ file \in Seq(Piece) /\ log.buffer \in Seq(Piece) /\ Written \in Seq(Piece) /\ Len(file) \in Nat
  BY Types
<1>2. pending \in Seq(Piece) /\ Len(pending) \in Nat
  BY <1>1, ConcatFacts
<1>3. whole = file \o pending
  <2> DEFINE b == log.buffer
  <2>1. file \in Seq(Piece) /\ b \in Seq(Piece) /\ more \in Seq(Piece)
    BY <1>1
  <2> HIDE DEF b
  <2>2. (file \o b) \o more = file \o (b \o more)
    BY <2>1, ConcatAssociative
  <2> QED BY <2>2 DEF Written, b
<1>4. PICK m \in 0..Len(pending), torn \in {<<>>, <<Torn>>} :
        /\ torn # <<>> => m < Len(pending)
        /\ file' = file \o SubSeq(pending, 1, m) \o torn
  BY DEF CutShort
<1> HIDE DEF pending
<1>5. /\ whole \in Seq(Piece) /\ Len(whole) = Len(file) + Len(pending)
      /\ \A i \in 1..Len(file) : whole[i] = file[i]
      /\ \A i \in 1..Len(pending) : whole[Len(file) + i] = pending[i]
  <2>1. /\ file \o pending \in Seq(Piece) /\ Len(file \o pending) = Len(file) + Len(pending)
        /\ \A i \in 1..Len(file) : (file \o pending)[i] = file[i]
        /\ \A i \in 1..Len(pending) : (file \o pending)[Len(file) + i] = pending[i]
    BY <1>1, <1>2, ConcatFacts
  <2> QED BY <1>3, <2>1
<1> HIDE DEF whole
<1> DEFINE n == Len(file) + m
<1> DEFINE part == SubSeq(pending, 1, m)
<1>6. n \in Len(file)..Len(whole) /\ n \in 0..Len(whole) /\ (m < Len(pending) => n < Len(whole))
  BY <1>1, <1>2, <1>5
<1>7. part \in Seq(Piece) /\ Len(part) = m /\ \A i \in 1..m : part[i] = pending[i]
  BY <1>2, CutFacts
<1>8. file \o part = SubSeq(whole, 1, n)
  <2> HIDE DEF part, n
  <2>1. /\ file \o part \in Seq(Piece) /\ Len(file \o part) = Len(file) + m
        /\ \A i \in 1..Len(file) : (file \o part)[i] = file[i]
        /\ \A i \in 1..m : (file \o part)[Len(file) + i] = part[i]
    <3>1. part \in Seq(Piece) /\ Len(part) = m
      BY <1>7
    <3>2. /\ file \o part \in Seq(Piece) /\ Len(file \o part) = Len(file) + Len(part)
          /\ \A i \in 1..Len(file) : (file \o part)[i] = file[i]
          /\ \A i \in 1..Len(part) : (file \o part)[Len(file) + i] = part[i]
      <4>1. file \in Seq(Piece) /\ part \in Seq(Piece)
        BY <1>1, <3>1
      <4> QED BY <4>1, ConcatFacts
    <3> QED BY <3>1, <3>2
  <2>2. /\ SubSeq(whole, 1, n) \in Seq(Piece) /\ Len(SubSeq(whole, 1, n)) = n
        /\ \A i \in 1..n : SubSeq(whole, 1, n)[i] = whole[i]
    BY <1>5, <1>6, CutFacts
  <2>3. n = Len(file) + m
    BY DEF n
  <2>4. ASSUME NEW i \in 1..n PROVE (file \o part)[i] = SubSeq(whole, 1, n)[i]
    <3>1. CASE i \in 1..Len(file)
      BY <1>5, <2>1, <2>2, <3>1
    <3>2. CASE i \notin 1..Len(file)
      <4>1. i - Len(file) \in 1..m /\ i = Len(file) + (i - Len(file)) /\ m \in 0..Len(pending)
        BY <1>1, <1>2, <2>3, <3>2
      <4>2. i - Len(file) \in 1..Len(pending)
        BY <1>2, <4>1
      <4>3. (file \o part)[i] = pending[i - Len(file)]
        BY <1>7, <2>1, <4>1
      <4>4. whole[i] = pending[i - Len(file)]
        BY <1>5, <4>1, <4>2
      <4> QED BY <2>2, <4>3, <4>4
    <3> QED BY <3>1, <3>2
  <2> QED BY <2>1, <2>2, <2>3, <2>4, SeqEqual
<1>9. file' = SubSeq(whole, 1, n) \o torn
  BY <1>4, <1>8
<1>10. safe' = safe /\ former' = former
  BY DEF CutShort
<1>11. torn # <<>> => n < Len(whole)
  BY <1>4, <1>6
<1>12. \E q \in Len(file)..Len(whole), t \in {<<>>, <<Torn>>} :
         /\ file' = SubSeq(whole, 1, q) \o t
         /\ t # <<>> => q < Len(whole)
  <2> HIDE DEF n
  <2> QED BY <1>6, <1>9, <1>11
<1> QED BY <1>5, <1>10, <1>12 DEF whole

\* What is written behind a failed append is never read.
LEMMA LagsFacts ==
  ASSUME TypeOK, Lags, file # <<>>, NEW g \in Seq(Piece), Same(file, g, Len(file)),
         Len(file) < Len(g) =>
           g[Len(file) + 1] = Torn \/ g[Len(file) + 1].sequence = log.last_sequence
  PROVE  /\ ValidPieces(g) = ValidPieces(file) /\ Recovered(g) = Recovered(file)
         /\ Len(file) < Len(g) => ValidPieces(g) < Len(g)
         /\ Bounded(file) => Bounded(g)
<1>1. file \in Seq(Piece) /\ Len(file) \in Nat /\ Len(file) > 0
  BY Types, EmptySeq
<1>2. ValidPieces(file) \in 0..Len(file) /\ Len(g) \in Nat /\ Len(file) <= Len(g)
  BY <1>1, ValidFacts DEF Same
<1>3. Len(file) <= ValidPieces(file) => Len(file) = Len(g) \/ ~Sound(g, Len(file) + 1)
  <2>1. SUFFICES ASSUME Len(file) <= ValidPieces(file), Len(file) # Len(g)
                 PROVE  ~Sound(g, Len(file) + 1)
    OBVIOUS
  <2>2. Len(file) < Len(g) /\ log.last_sequence # Len(file) - 1
    BY <1>1, <1>2, <2>1 DEF Lags
  <2>3. CASE g[Len(file) + 1] = Torn
    BY <2>3, TornIsUnsound
  <2>4. CASE g[Len(file) + 1].sequence = log.last_sequence
    <3>1. Len(file) + 1 # 1 /\ (Len(file) + 1) - 2 = Len(file) - 1
      BY <1>1
    <3> QED BY <2>2, <2>4, <3>1 DEF Sound
  <2> QED BY <2>2, <2>3, <2>4
<1>4. /\ ValidPieces(g) = IF Len(file) <= ValidPieces(file) THEN Len(file) ELSE ValidPieces(file)
      /\ Recovered(g) = Replayed(file)[ValidPieces(g)]
      /\ Bounded(file) => Bounded(g)
  BY <1>1, <1>3, KeptLog
<1>5. ValidPieces(g) = ValidPieces(file)
  BY <1>1, <1>2, <1>4
<1> QED BY <1>1, <1>2, <1>4, <1>5, RecoveredFacts

\* The record of the next transition.
NextTransition(size) == Stamped(log, "Transition", <<issued + 1>>, size)

LEMMA TransitionFacts ==
  ASSUME TypeOK, NEW size \in 1..MaxRecordBytes
  PROVE  /\ NextTransition(size) \in Piece /\ NextTransition(size).kind = "Transition"
         /\ NextTransition(size).sequence = log.last_sequence
         /\ NextTransition(size).payload = <<issued + 1>> /\ NextTransition(size).size = size
         /\ NextTransition(size).chain = Append(log.chain, <<issued + 1>>)
         /\ <<NextTransition(size)>> \in Seq(Piece)
<1>1. issued + 1 \in Nat /\ issued \in Nat
  BY Types
<1>2. <<issued + 1>> \in Seq(Nat)
  BY <1>1
<1>3. log.last_sequence \in Nat /\ log.chain \in Seq(Seq(Nat))
  BY DEF TypeOK
<1>4. Append(log.chain, <<issued + 1>>) \in Seq(Seq(Nat))
  BY <1>2, <1>3, AppendFacts
<1>5. NextTransition(size) \in Piece
  BY <1>2, <1>3, <1>4, JournalAssumption DEF NextTransition, Stamped, Piece, Kinds
<1> QED BY <1>5 DEF NextTransition, Stamped

\* The log with its next record.
LEMMA ContinuedBy ==
  ASSUME TypeOK, OneSnapshot(file), Buffered, Continues, file # <<>>,
         NEW size \in 1..MaxRecordBytes, NEW g, g = Written \o <<NextTransition(size)>>
  PROVE  /\ g \in Seq(Piece) /\ Len(g) = Len(Written) + 1 /\ Same(Written, g, Len(Written))
         /\ ValidPieces(g) = Len(g) /\ OneSnapshot(g)
         /\ Recovered(g) = Append(history, issued + 1)
         /\ ChainOf(g, Len(g)) = NextTransition(size).chain
         /\ g # <<>>
         /\ BytesOf(g)[Len(g)] = log.byte_count + size
         /\ log.byte_count < MaxBytes => Bounded(g)
<1>1. /\ Written \in Seq(Piece) /\ Len(Written) \in Nat /\ Len(Written) >= Len(file)
      /\ Len(file) > 0 /\ OneSnapshot(Written) /\ history \in Seq(Nat) /\ issued \in Nat
  BY Types, ContinuesFacts
<1>2. Written # <<>>
  BY <1>1, EmptySeq, Types
<1>3. g = Append(Written, NextTransition(size))
  BY <1>1, TransitionFacts, SingleFacts
<1>4. /\ ValidPieces(Written) = Len(Written) /\ Recovered(Written) = history
      /\ NextTransition(size).sequence = Len(Written) - 1
      /\ NextTransition(size).chain = Append(ChainOf(Written, Len(Written)), NextTransition(size).payload)
  BY TransitionFacts DEF Continues
<1>5. /\ NextTransition(size) \in Piece /\ NextTransition(size).kind \notin {"Header", "Torn"}
      /\ NextTransition(size).kind # "Snapshot"
  BY TransitionFacts
<1>6. /\ g \in Seq(Piece) /\ Len(g) = Len(Written) + 1 /\ Same(Written, g, Len(Written))
      /\ ValidPieces(g) = Len(g)
      /\ Recovered(g) = ReplayEntry(Recovered(Written), NextTransition(size))
      /\ ChainOf(g, Len(g)) = NextTransition(size).chain
      /\ OneSnapshot(g)
      /\ BytesOf(g)[Len(g)] = BytesOf(Written)[Len(Written)] + NextTransition(size).size
  BY <1>1, <1>2, <1>3, <1>4, <1>5, NextRecord
<1>7. ReplayEntry(history, NextTransition(size)) = Append(history, issued + 1)
  <2>1. ReplayEntry(history, NextTransition(size)) = history \o <<issued + 1>>
    BY <1>5, TransitionFacts DEF ReplayEntry
  <2>2. issued + 1 \in Nat
    BY <1>1
  <2> QED BY <1>1, <2>1, <2>2, SingleFacts
<1>8. g # <<>>
  BY <1>1, <1>6, EmptySeq
<1>9. BytesOf(g)[Len(g)] = log.byte_count + size
  BY <1>6, TransitionFacts DEF Continues
<1>10. log.byte_count < MaxBytes => Bounded(g)
  <2>1. log.byte_count \in Nat /\ size \in Nat /\ size <= MaxRecordBytes /\ MaxRecordBytes \in Nat
        /\ MaxBytes \in Nat
    BY JournalAssumption DEF TypeOK
  <2> QED BY <1>6, <1>9, <2>1 DEF Bounded
<1> QED BY <1>4, <1>6, <1>7, <1>8, <1>9, <1>10

\* An append that is reported as failed: nothing new can be read, or just this record.
LEMMA FailedAppend ==
  ASSUME TypeOK, OneSnapshot(file), Bounded(file), Buffered, file # <<>>,
         Continues \/ Lags, log.byte_count < MaxBytes, NEW size \in 1..MaxRecordBytes,
         CutShort(<<NextTransition(size)>>), log' = [log EXCEPT !.buffer = <<>>],
         history' = history, doubt' = "failed"
  PROVE  /\ file' \in Seq(Piece) /\ file' # <<>> /\ OneSnapshot(file')
         /\ Bounded(file') /\ Same(file, file', Len(file))
         /\ \/ Recovered(file') = Recovered(file)
            \/ Recovered(file) = history /\ Recovered(file') = Append(history, issued + 1)
         /\ Continues' \/ Lags'
<1> DEFINE g == Written \o <<NextTransition(size)>>
<1>1. PICK n \in Len(file)..Len(g), torn \in {<<>>, <<Torn>>} :
        /\ file' = SubSeq(g, 1, n) \o torn
        /\ torn # <<>> => n < Len(g)
  BY TransitionFacts, CutShortIs
<1>2. /\ file \in Seq(Piece) /\ Len(file) \in Nat /\ Len(file) > 0
      /\ Written \in Seq(Piece) /\ Len(Written) \in Nat /\ Len(Written) >= Len(file)
      /\ \A i \in 1..Len(file) : Written[i] = file[i]
      /\ history \in Seq(Nat) /\ log.last_sequence \in Nat
  BY Types, EmptySeq, SMTT(20) DEF TypeOK
<1>3. log'.buffer = <<>> /\ log'.last_sequence = log.last_sequence /\ log'.chain = log.chain
      /\ log'.byte_count = log.byte_count
  BY DEF TypeOK
<1>4. /\ g \in Seq(Piece) /\ Len(g) = Len(Written) + 1
      /\ \A i \in 1..Len(Written) : g[i] = Written[i]
      /\ g[Len(Written) + 1] = NextTransition(size)
  <2>1. g = Append(Written, NextTransition(size))
    BY <1>2, TransitionFacts, SingleFacts
  <2> HIDE DEF g
  <2> QED BY <1>2, <2>1, TransitionFacts, AppendFacts
<1> HIDE DEF g
<1>5. n \in 0..Len(g) /\ n \in Nat /\ n >= Len(file) /\ n <= Len(g)
  BY <1>2, <1>4
<1>6. /\ file' \in Seq(Piece) /\ Same(g, file', n) /\ Len(file') = n + Len(torn) /\ Len(torn) \in 0..1
      /\ torn # <<>> => file'[n + 1] = Torn
      /\ ValidPieces(file') = IF n <= ValidPieces(g) THEN n ELSE ValidPieces(g)
      /\ Recovered(file') = Replayed(g)[ValidPieces(file')]
      /\ OneSnapshot(g) => OneSnapshot(file')
      /\ Bounded(g) => Bounded(file')
  <2>1. /\ g \in Seq(Piece) /\ n \in 0..Len(g) /\ torn \in {<<>>, <<Torn>>}
        /\ file' = SubSeq(g, 1, n) \o torn
    BY <1>1, <1>4, <1>5
  <2>2. IsCut(g, n, torn, file')
    BY <2>1, CutLog
  <2> QED BY <2>2 DEF IsCut
<1>7. Same(file, file', Len(file)) /\ file' # <<>>
  <2>1. \A i \in 1..Len(file) : file'[i] = file[i]
    <3>1. ASSUME NEW i \in 1..Len(file) PROVE file'[i] = file[i]
      <4>1. i \in 1..n /\ i \in 1..Len(Written)
        BY <1>2, <1>5
      <4> QED BY <1>2, <1>4, <1>6, <4>1 DEF Same
    <3> QED BY <3>1
  <2>2. Len(file') \in Nat /\ Len(file) <= Len(file') /\ Len(file') # 0
    BY <1>2, <1>5, <1>6
  <2> QED BY <1>2, <2>1, <2>2, EmptySeq DEF Same
<1>8. Written' = file'
  BY <1>3, <1>6, ConcatEmptySeq DEF Written
<1>9. ASSUME Continues
      PROVE  /\ OneSnapshot(file') /\ Bounded(file')
             /\ \/ Recovered(file') = Recovered(file)
                \/ Recovered(file) = history /\ Recovered(file') = Append(history, issued + 1)
             /\ Continues' \/ Lags'
  <2>1. /\ Same(Written, g, Len(Written)) /\ ValidPieces(g) = Len(g) /\ OneSnapshot(g)
        /\ Recovered(g) = Append(history, issued + 1) /\ Bounded(g)
    BY <1>9, ContinuedBy DEF g
  <2>2. /\ Recovered(file) = history
        /\ \A m \in Len(file)..Len(Written) : Replayed(Written)[m] = history
        /\ log.last_sequence = Len(Written) - 1 /\ log.chain = ChainOf(Written, Len(Written))
    BY <1>9, ContinuesFacts DEF Continues
  <2>3. ValidPieces(file') = n
    BY <1>5, <1>6, <2>1
  <2>4. Bounded(file')
    BY <1>6, <2>1
  <2>5. CASE n <= Len(Written)
    <3>1. n \in Len(file)..Len(Written) /\ n \in 0..Len(Written)
      BY <1>2, <1>5, <2>5
    <3>2. Replayed(g)[n] = history
      BY <1>2, <1>4, <2>1, <2>2, <3>1, ReplayedSame
    <3>3. Recovered(file') = history
      BY <1>6, <2>3, <3>2
    <3>4. CASE torn = <<>> /\ n = Len(Written)
      <4>1. Len(file') = Len(Written)
        BY <1>5, <1>6, <3>4, EmptySeq
      <4>2. \A i \in 1..Len(Written) : file'[i] = Written[i]
        BY <1>4, <1>6, <3>4 DEF Same
      <4>3. file' = Written
        BY <1>2, <1>6, <4>1, <4>2, SeqEqual
      <4>4. Continues'
        BY <1>3, <1>8, <1>9, <4>3 DEF Continues
      <4> QED BY <1>6, <2>1, <2>2, <2>3, <2>4, <3>3, <4>4
    <3>5. CASE ~(torn = <<>> /\ n = Len(Written))
      <4>1. ValidPieces(file') < Len(file') \/ log.last_sequence # Len(file') - 1
        <5>1. CASE torn = <<>>
          <6>1. Len(file') = n
            BY <1>5, <1>6, <5>1, EmptySeq
          <6> QED BY <1>2, <1>5, <2>2, <3>5, <5>1, <6>1
        <5>2. CASE torn # <<>>
          <6>1. Len(torn) = 1
            BY <5>2
          <6> QED BY <1>5, <1>6, <2>3, <6>1
        <5> QED BY <5>1, <5>2
      <4>2. Lags'
        BY <1>3, <4>1 DEF Lags
      <4> QED BY <1>6, <2>1, <2>2, <2>3, <2>4, <3>3, <4>2
    <3> QED BY <3>4, <3>5
  <2>6. CASE ~(n <= Len(Written))
    <3>1. n = Len(g) /\ torn = <<>>
      <4>1. Len(g) = Len(Written) + 1 /\ Len(Written) \in Nat
        BY <1>2, <1>4
      <4>2. n = Len(g)
        BY <1>5, <2>6, <4>1
      <4>3. ~(n < Len(g))
        BY <4>1, <4>2
      <4> QED BY <1>1, <4>2, <4>3
    <3>2. Recovered(file') = Append(history, issued + 1)
      <4>1. Recovered(g) = Replayed(g)[Len(g)]
        BY <1>4, <2>1, RecoveredFacts
      <4> QED BY <1>6, <2>1, <2>3, <3>1, <4>1
    <3>3. Len(file') = Len(Written) + 1
      BY <1>4, <1>5, <1>6, <3>1, EmptySeq
    <3>4. log.last_sequence # Len(file') - 1
      BY <1>2, <2>2, <3>3
    <3>5. Lags'
      BY <1>3, <3>4 DEF Lags
    <3> QED BY <1>6, <2>1, <2>2, <2>3, <2>4, <3>2, <3>5
  <2> QED BY <2>5, <2>6
<1>10. ASSUME Lags
       PROVE  /\ OneSnapshot(file') /\ Bounded(file')
              /\ Recovered(file') = Recovered(file) /\ Lags'
  <2>1. Written = file
    BY <1>2, <1>10, ConcatEmptySeq DEF Lags, Written
  <2>2. OneSnapshot(g)
    <3>1. \A i \in 1..Len(g) : i \in 1..Len(file) \/ i = Len(file) + 1
      BY <1>2, <1>4, <2>1
    <3>2. NextTransition(size).kind # "Snapshot"
      BY TransitionFacts
    <3> QED BY <1>4, <2>1, <3>1, <3>2 DEF OneSnapshot
  <2>3. ASSUME Len(file) < Len(file')
        PROVE  file'[Len(file) + 1] = Torn \/ file'[Len(file) + 1].sequence = log.last_sequence
    <3>1. CASE n = Len(file)
      <4>1. torn # <<>>
        BY <1>2, <1>6, <2>3, <3>1, EmptySeq
      <4> QED BY <1>6, <3>1, <4>1
    <3>2. CASE n # Len(file)
      <4>1. Len(file) + 1 \in 1..n
        BY <1>2, <1>5, <3>2
      <4>2. file'[Len(file) + 1] = NextTransition(size)
        BY <1>4, <1>6, <2>1, <4>1 DEF Same
      <4> QED BY <4>2, TransitionFacts
    <3> QED BY <3>1, <3>2
  <2>4. /\ ValidPieces(file') = ValidPieces(file) /\ Recovered(file') = Recovered(file)
        /\ Len(file) < Len(file') => ValidPieces(file') < Len(file')
        /\ Bounded(file')
    BY <1>6, <1>7, <1>10, <2>3, LagsFacts
  <2>5. Len(file) < Len(file') \/ Len(file) = Len(file')
    BY <1>2, <1>5, <1>6
  <2>6. Lags'
    BY <1>3, <1>10, <2>4, <2>5 DEF Lags
  <2> QED BY <1>6, <2>2, <2>4, <2>6
<1> QED BY <1>6, <1>7, <1>9, <1>10

\* A sync that fails, on its own: nothing new can be read.
LEMMA FailedSync ==
  ASSUME TypeOK, OneSnapshot(file), Bounded(file), Buffered, file # <<>>,
         Continues \/ Lags, CutShort(<<>>)
  PROVE  /\ file' \in Seq(Piece) /\ file' # <<>> /\ OneSnapshot(file')
         /\ Bounded(file') /\ Same(file, file', Len(file))
         /\ Recovered(file') = Recovered(file)
<1>1. /\ file \in Seq(Piece) /\ Len(file) \in Nat /\ Len(file) > 0
      /\ Written \in Seq(Piece) /\ Len(Written) \in Nat /\ Len(Written) >= Len(file)
      /\ \A i \in 1..Len(file) : Written[i] = file[i]
  BY Types, EmptySeq
<1>2. <<>> \in Seq(Piece) /\ Written \o <<>> = Written
  BY <1>1, EmptySeq, ConcatEmptySeq
<1>3. PICK n \in Len(file)..Len(Written), torn \in {<<>>, <<Torn>>} :
        /\ file' = SubSeq(Written, 1, n) \o torn
        /\ torn # <<>> => n < Len(Written)
  <2> DEFINE more == <<>>
  <2>1. more \in Seq(Piece) /\ CutShort(more) /\ Written \o more = Written
    BY <1>2
  <2> HIDE DEF more
  <2>2. \E n \in Len(file)..Len(Written \o more), torn \in {<<>>, <<Torn>>} :
          /\ file' = SubSeq(Written \o more, 1, n) \o torn
          /\ torn # <<>> => n < Len(Written \o more)
    BY <2>1, CutShortIs
  <2> QED BY <2>1, <2>2
<1>4. n \in 0..Len(Written) /\ n \in Nat /\ n >= Len(file) /\ n <= Len(Written)
  BY <1>1
<1>5. IsCut(Written, n, torn, file')
  BY <1>1, <1>3, <1>4, CutLog
<1>6. /\ file' \in Seq(Piece) /\ Same(Written, file', n) /\ Len(file') = n + Len(torn)
      /\ Len(torn) \in 0..1
      /\ ValidPieces(file') = IF n <= ValidPieces(Written) THEN n ELSE ValidPieces(Written)
      /\ Recovered(file') = Replayed(Written)[ValidPieces(file')]
      /\ OneSnapshot(Written) => OneSnapshot(file')
      /\ Bounded(Written) => Bounded(file')
  BY <1>5 DEF IsCut
<1>7. Same(file, file', Len(file)) /\ file' # <<>>
  <2>1. \A i \in 1..Len(file) : i \in 1..n
    BY <1>1, <1>4
  <2>2. \A i \in 1..Len(file) : file'[i] = file[i]
    BY <1>1, <1>6, <2>1 DEF Same
  <2>3. Len(file') \in Nat /\ Len(file) <= Len(file') /\ Len(file') # 0
    BY <1>1, <1>4, <1>6
  <2> QED BY <1>1, <2>2, <2>3, EmptySeq DEF Same
<1>8. CASE Continues
  <2>1. /\ OneSnapshot(Written) /\ Recovered(file) = history
        /\ Replayed(Written)[n] = history
        /\ ValidPieces(Written) = Len(Written) /\ Bounded(Written)
    BY <1>8, ContinuesFacts DEF Continues
  <2>2. ValidPieces(file') = n
    BY <1>4, <1>6, <2>1
  <2>3. Bounded(file')
    BY <1>6, <2>1
  <2> QED BY <1>6, <1>7, <2>1, <2>2, <2>3
<1>9. CASE Lags
  <2>1. Written = file
    BY <1>1, <1>9, ConcatEmptySeq DEF Lags, Written
  <2>2. n = Len(file)
    BY <1>1, <1>4, <2>1
  <2>3. torn = <<>>
    BY <1>1, <1>3, <2>1, <2>2
  <2>4. Len(file') = Len(file)
    BY <1>1, <1>6, <2>2, <2>3, EmptySeq
  <2>5. file' = file
    BY <1>1, <1>6, <1>7, <2>4, SeqEqual DEF Same
  <2> QED BY <1>6, <1>7, <2>5
<1> QED BY <1>8, <1>9

\* A sync that succeeds, on its own: nothing new can be read, and the log is all there.
LEMMA SyncedSync ==
  ASSUME TypeOK, OneSnapshot(file), Bounded(file), Buffered, file # <<>>,
         Continues \/ Lags, Synced(<<>>)
  PROVE  /\ file' = Written /\ file' \in Seq(Piece) /\ file' # <<>> /\ OneSnapshot(file')
         /\ Bounded(file') /\ Recovered(file') = Recovered(file)
         /\ doubt # "failed" => Recovered(file) = history
<1>1. /\ file \in Seq(Piece) /\ Len(file) \in Nat /\ Len(file) > 0
      /\ Written \in Seq(Piece) /\ Len(Written) \in Nat /\ Len(Written) >= Len(file)
  BY Types, EmptySeq
<1>2. file' = Written
  <2>1. Written \o <<>> = Written
    BY <1>1, ConcatEmptySeq
  <2> QED BY <2>1 DEF Synced, Written
<1>3. Written # <<>>
  BY <1>1, EmptySeq
<1>4. CASE Continues
  <2>1. /\ OneSnapshot(Written) /\ Recovered(file) = history /\ Recovered(Written) = history
        /\ ValidPieces(Written) = Len(Written) /\ Bounded(Written)
    BY <1>4, ContinuesFacts DEF Continues
  <2> QED BY <1>1, <1>2, <1>3, <2>1
<1>5. CASE Lags
  <2>1. Written = file /\ doubt = "failed"
    BY <1>1, <1>5, ConcatEmptySeq DEF Lags, Written
  <2> QED BY <1>1, <1>2, <1>3, <2>1
<1> QED BY <1>4, <1>5

\* An append that is reported as durable: it is read, unless it lies behind one that failed.
LEMMA SyncedAppend ==
  ASSUME TypeOK, OneSnapshot(file), Bounded(file), Buffered, file # <<>>,
         Continues \/ Lags, log.byte_count < MaxBytes, NEW size \in 1..MaxRecordBytes,
         Synced(<<NextTransition(size)>>),
         log' = [Counted(log, NextTransition(size)) EXCEPT !.buffer = <<>>],
         history' = Append(history, issued + 1),
         doubt' = IF doubt = "failed" THEN doubt ELSE "none"
  PROVE  /\ file' \in Seq(Piece) /\ file' # <<>> /\ OneSnapshot(file')
         /\ Bounded(file')
         /\ doubt # "failed" =>
              Recovered(file) = history /\ Recovered(file') = Append(history, issued + 1)
         /\ \/ Recovered(file') = Append(history, issued + 1) /\ Recovered(file) = history
            \/ doubt = "failed" /\ Recovered(file') = Recovered(file)
         /\ Continues' \/ Lags'
<1> DEFINE g == Written \o <<NextTransition(size)>>
<1>1. /\ file \in Seq(Piece) /\ Len(file) \in Nat /\ Len(file) > 0
      /\ Written \in Seq(Piece) /\ Len(Written) \in Nat /\ Len(Written) >= Len(file)
      /\ \A i \in 1..Len(file) : Written[i] = file[i]
      /\ log.last_sequence \in Nat /\ log.byte_count \in Nat
  BY Types, EmptySeq, SMTT(20) DEF TypeOK
<1>2. file' = g
  BY DEF Synced, Written
<1>3. /\ log'.buffer = <<>> /\ log'.last_sequence = log.last_sequence + 1
      /\ log'.byte_count = log.byte_count + size /\ log'.chain = NextTransition(size).chain
  BY TransitionFacts DEF TypeOK, Counted
<1>4. /\ g \in Seq(Piece) /\ Len(g) = Len(Written) + 1
      /\ \A i \in 1..Len(Written) : g[i] = Written[i]
      /\ g[Len(Written) + 1] = NextTransition(size)
  <2>1. g = Append(Written, NextTransition(size))
    BY <1>1, TransitionFacts, SingleFacts
  <2> HIDE DEF g
  <2> QED BY <1>1, <2>1, TransitionFacts, AppendFacts
<1> HIDE DEF g
<1>5. Written' = file' /\ file' # <<>>
  <2>1. file' \o <<>> = file'
    BY <1>2, <1>4, ConcatEmptySeq
  <2>2. file' # <<>>
    BY <1>1, <1>2, <1>4, EmptySeq
  <2> QED BY <1>3, <2>1, <2>2 DEF Written
<1>6. CASE Continues
  <2>1. /\ ValidPieces(g) = Len(g) /\ OneSnapshot(g)
        /\ Recovered(g) = Append(history, issued + 1)
        /\ ChainOf(g, Len(g)) = NextTransition(size).chain
        /\ BytesOf(g)[Len(g)] = log.byte_count + size /\ Bounded(g)
    BY <1>6, ContinuedBy DEF g
  <2>2. /\ Recovered(file) = history
        /\ log.last_sequence = Len(Written) - 1
    BY <1>6, ContinuesFacts DEF Continues
  <2>3. log'.byte_count = BytesOf(g)[Len(g)] /\ log'.last_sequence = Len(g) - 1
    BY <1>1, <1>3, <1>4, <2>1, <2>2
  <2>4. Continues'
    BY <1>2, <1>3, <1>5, <2>1, <2>3 DEF Continues
  <2> QED BY <1>2, <1>4, <1>5, <2>1, <2>2, <2>3, <2>4
<1>7. CASE Lags
  <2>1. Written = file /\ doubt = "failed"
    BY <1>1, <1>7, ConcatEmptySeq DEF Lags, Written
  <2>2. OneSnapshot(g)
    <3>1. \A i \in 1..Len(g) : i \in 1..Len(file) \/ i = Len(file) + 1
      BY <1>1, <1>4, <2>1
    <3>2. NextTransition(size).kind # "Snapshot"
      BY TransitionFacts
    <3> QED BY <1>4, <2>1, <3>1, <3>2 DEF OneSnapshot
  <2>3. Same(file, g, Len(file))
    BY <1>1, <1>4, <2>1 DEF Same
  <2>4. g[Len(file) + 1].sequence = log.last_sequence /\ Len(file) < Len(g)
    BY <1>1, <1>4, <2>1, TransitionFacts
  <2>5. /\ ValidPieces(g) = ValidPieces(file) /\ Recovered(g) = Recovered(file)
        /\ ValidPieces(g) < Len(g) /\ Bounded(g)
    BY <1>1, <1>4, <1>7, <2>3, <2>4, LagsFacts
  <2>6. Lags'
    BY <1>2, <1>3, <2>1, <2>5 DEF Lags
  <2> QED BY <1>2, <1>4, <1>5, <2>1, <2>2, <2>5, <2>6
<1> QED BY <1>6, <1>7

-------------------------------------------------------------------------------
(* Keeping the images in order *)

LEMMA PrefixInSeq ==
  ASSUME NEW S, NEW t \in Seq(S), NEW s \in Seq(Nat), IsPrefix(s, t)
  PROVE  s \in Seq(S) /\ s = SubSeq(t, 1, Len(s)) /\ Len(s) \in 0..Len(t)
<1>1. s = SubSeq(t, 1, Len(s)) /\ Len(s) <= Len(t)
  BY DEF IsPrefix
<1>2. Len(s) \in 0..Len(t)
  BY <1>1, LenProperties
<1>3. SubSeq(t, 1, Len(s)) \in Seq(S)
  BY <1>2, CutFacts
<1> QED BY <1>1, <1>2, <1>3

\* The beginning of a sequence is the beginning of what it grows to.
LEMMA FrontOfGrown ==
  ASSUME NEW S, NEW s \in Seq(S), NEW t \in Seq(S), IsPrefix(s, t), NEW n \in 0..Len(s)
  PROVE  SubSeq(t, 1, n) = SubSeq(s, 1, n)
<1>1. Len(s) \in Nat /\ Len(t) \in Nat /\ Len(s) <= Len(t) /\ \A i \in 1..Len(s) : s[i] = t[i]
  BY LenProperties, PrefixIs
<1>2. n \in 0..Len(t) /\ n <= Len(s) /\ n \in Nat
  BY <1>1
<1>3. /\ SubSeq(t, 1, n) \in Seq(S) /\ Len(SubSeq(t, 1, n)) = n
      /\ \A i \in 1..n : SubSeq(t, 1, n)[i] = t[i]
  BY <1>2, CutFacts
<1>4. /\ SubSeq(s, 1, n) \in Seq(S) /\ Len(SubSeq(s, 1, n)) = n
      /\ \A i \in 1..n : SubSeq(s, 1, n)[i] = s[i]
  BY CutFacts
<1>5. \A i \in 1..n : i \in 1..Len(s)
  BY <1>1, <1>2
<1>6. \A i \in 1..n : SubSeq(t, 1, n)[i] = SubSeq(s, 1, n)[i]
  BY <1>1, <1>3, <1>4, <1>5
<1> QED BY <1>3, <1>4, <1>6, SeqEqual

\* Logs that begin with the same pieces are cut to the same.
LEMMA CutSame ==
  ASSUME NEW f \in Seq(Piece), NEW g \in Seq(Piece), NEW k, Same(f, g, k), NEW n \in 0..k
  PROVE  SubSeq(g, 1, n) = SubSeq(f, 1, n)
<1>1. /\ Len(f) \in Nat /\ Len(g) \in Nat /\ k \in Nat /\ k <= Len(f) /\ k <= Len(g)
      /\ \A i \in 1..k : f[i] = g[i]
  BY LenProperties DEF Same
<1>2. n \in 0..Len(f) /\ n \in 0..Len(g)
  BY <1>1
<1>3. /\ SubSeq(f, 1, n) \in Seq(Piece) /\ Len(SubSeq(f, 1, n)) = n
      /\ \A i \in 1..n : SubSeq(f, 1, n)[i] = f[i]
  BY <1>2, CutFacts
<1>4. /\ SubSeq(g, 1, n) \in Seq(Piece) /\ Len(SubSeq(g, 1, n)) = n
      /\ \A i \in 1..n : SubSeq(g, 1, n)[i] = g[i]
  BY <1>2, CutFacts
<1>5. \A i \in 1..n : SubSeq(g, 1, n)[i] = SubSeq(f, 1, n)[i]
  BY <1>1, <1>3, <1>4
<1> QED BY <1>3, <1>4, <1>5, SeqEqual

LEMMA MinOfTwo ==
  ASSUME NEW a \in Nat, NEW b \in Nat
  PROVE  Min({a, b}) = IF a <= b THEN a ELSE b
<1> DEFINE m == IF a <= b THEN a ELSE b
<1>1. m \in {a, b} /\ \A y \in {a, b} : m <= y
  OBVIOUS
<1>2. \A x \in {a, b} : (\A y \in {a, b} : x <= y) => x = m
  OBVIOUS
<1> HIDE DEF m
<1>3. Min({a, b}) = m
  BY <1>1, <1>2 DEF Min
<1> QED BY <1>3 DEF m

\* A write that is not synced keeps every image in order when it adds nothing to what is
\* read, or the one transition that is reported as failed.
LEMMA UnsyncedImages ==
  ASSUME TypeOK, Images, safe' = safe, former' = former, history' = history, sure' = sure,
         doubt' = "failed", issued' \in {issued, issued + 1},
         file' \in Seq(Piece), Same(file, file', Len(file)), OneSnapshot(file'),
         Bounded(file'),
         \/ Recovered(file') = Recovered(file)
         \/ /\ Recovered(file) = history /\ Recovered(file') = Append(history, issued + 1)
            /\ issued' = issued + 1
  PROVE  Images'
<1>1. /\ file \in Seq(Piece) /\ Len(file) \in Nat /\ safe \in 0..Len(file) /\ issued \in Nat
      /\ \A f \in former : f \in Seq(Piece)
      /\ history \in Seq(Nat)
  BY Types
<1>2. issued' \in Nat /\ issued <= issued'
  BY <1>1
<1>3. \A s : s \in Seq(1..issued) => s \in Seq(1..issued')
  <2>1. SUFFICES ASSUME NEW s, s \in Seq(1..issued) PROVE s \in Seq(1..issued')
    OBVIOUS
  <2> QED BY <1>1, <1>2, <2>1, Issued
<1>4. history \in Seq(1..issued) /\ Recovered(file) \in Seq(1..issued) /\ Fits(Recovered(file), history)
  BY DEF Images, ImageOK
<1>5. ASSUME Recovered(file) = history, Recovered(file') = Append(history, issued + 1),
             issued' = issued + 1
      PROVE  /\ Recovered(file') \in Seq(1..issued') /\ Fits(Recovered(file'), history)
             /\ \A f \in former : Fits(Recovered(f), Recovered(file'))
  <2>1. /\ history \in Seq(Nat) /\ issued + 1 \notin Range(history) /\ issued + 1 \in Nat
        /\ Append(history, issued + 1) \in Seq(1..(issued + 1))
    BY <1>1, <1>4, Issued
  <2>2. Fits(Append(history, issued + 1), history)
    BY <2>1, FitsFailed
  <2>3. ASSUME NEW f \in former PROVE Fits(Recovered(f), Recovered(file'))
    <3>1. Recovered(f) \in Seq(1..issued) /\ Fits(Recovered(f), history)
      BY DEF Images, ImageOK
    <3>2. Recovered(f) \in Seq(Nat) /\ issued + 1 \notin Range(Recovered(f))
      BY <1>1, <3>1, Issued
    <3>3. Fits(Recovered(f), Append(history, issued + 1))
      BY <2>1, <3>1, <3>2, FitsGrown
    <3> QED BY <1>5, <3>3
  <2> QED BY <1>5, <2>1, <2>2, <2>3
<1>6. /\ Recovered(file') \in Seq(1..issued') /\ Fits(Recovered(file'), history)
      /\ \A f \in former : Fits(Recovered(f), Recovered(file'))
  <2>1. CASE Recovered(file') = Recovered(file)
    BY <1>3, <1>4, <2>1 DEF Images
  <2> QED BY <1>5, <2>1
<1>7. SubSeq(file', 1, safe) = SubSeq(file, 1, safe)
  BY <1>1, CutSame
<1>8. IsPrefix(SubSeq(history, 1, sure), Recovered(SubSeq(file, 1, safe)))
  BY DEF Images, Promised
<1>9. IsPrefix(Promised', Recovered(SubSeq(file', 1, safe')))
  BY <1>7, <1>8 DEF Promised
<1>10. ASSUME NEW f \in former
       PROVE  /\ OneSnapshot(f) /\ Bounded(f)
              /\ Recovered(f) \in Seq(1..issued') /\ Fits(Recovered(f), history)
              /\ Fits(Recovered(f), Recovered(file')) /\ IsPrefix(SubSeq(history, 1, sure), Recovered(f))
  BY <1>3, <1>6 DEF Images, ImageOK, Promised
<1>11. history' \in Seq(1..issued')
  BY <1>3, <1>4
<1>12. ImageOK(file)'
  BY <1>6 DEF ImageOK
<1>13. \A f \in former' :
         /\ ImageOK(f)'
         /\ Fits(Recovered(f), Recovered(file'))
         /\ IsPrefix(Promised', Recovered(f))
  BY <1>10 DEF ImageOK, Promised
<1> QED BY <1>9, <1>11, <1>12, <1>13 DEF Images

\* What is synced is the only image left.
LEMMA SyncedImages ==
  ASSUME file' \in Seq(Piece), safe' = Len(file'), former' = {},
         issued' \in Nat, history' \in Seq(1..issued'),
         OneSnapshot(file'), Bounded(file'),
         Recovered(file') \in Seq(1..issued'), Fits(Recovered(file'), history'),
         IsPrefix(Promised', Recovered(file'))
  PROVE  Images'
<1>1. SubSeq(file', 1, safe') = file'
  BY SubSeqFull
<1>2. IsPrefix(Promised', Recovered(SubSeq(file', 1, safe')))
  BY <1>1
<1> QED BY <1>2 DEF Images, ImageOK

-------------------------------------------------------------------------------
(* The steps *)

\* What a step does to the log as the next start would read it.
Unmoved ==
  /\ Recovered(file') = Recovered(file) /\ sure' = sure
  /\ doubt' = "none" <=> doubt = "none"

Recorded ==
  /\ doubt = "none" /\ doubt' = "none"
  /\ \E e \in 1..MaxIssued : Recovered(file') = Append(Recovered(file), e)
  /\ sure' = Len(Recovered(file'))

Settled ==
  /\ doubt = "none" /\ doubt' = "none"
  /\ Recovered(file') = Recovered(file) /\ sure' = Len(Recovered(file))

Lost ==
  /\ doubt = "none" /\ doubt' = "none"
  /\ IsPrefix(Recovered(file'), Recovered(file)) /\ sure' = sure

Doubted ==
  /\ doubt # "none" \/ doubt' # "none"
  /\ sure <= sure'
  /\ SubSeq(history', 1, sure) = SubSeq(history, 1, sure)

Moves == Unmoved \/ Recorded \/ Settled \/ Lost \/ Doubted

\* What the invariant and a step of the log's state come to.
LEMMA ClosedLogType ==
  /\ ClosedLog \in [open : BOOLEAN, buffer : Seq(Piece), byte_count : Nat, record_count : Nat,
                    last_sequence : Nat, chain : Seq(Seq(Nat))]
  /\ ~ClosedLog.open /\ ClosedLog.buffer = <<>>
<1>1. <<>> \in Seq(Piece) /\ <<>> \in Seq(Seq(Nat))
  BY EmptySeq
<1> QED BY <1>1 DEF ClosedLog

LEMMA ClosedIsOK ==
  ASSUME log' = ClosedLog
  PROVE  LogOK'
<1>1. log'.buffer = <<>> /\ ~log'.open
  BY DEF ClosedLog
<1>2. Buffered'
  <2>1. Len(<<>>) = 0
    BY EmptySeq
  <2> QED BY <1>1, <2>1 DEF Buffered
<1> QED BY <1>1, <1>2 DEF LogOK

LEMMA ChainType ==
  ASSUME NEW f \in Seq(Piece), f # <<>>, NEW n \in 1..Len(f)
  PROVE  ChainOf(f, n) \in Seq(Seq(Nat))
<1>1. Len(f) \in Nat /\ n - 1 \in Nat /\ \A i \in 1..(n - 1) : i + 1 \in 1..Len(f)
  BY LenProperties
<1>2. \A i \in 1..Len(f) : f[i].payload \in Seq(Nat)
  <2>1. \A i \in 1..Len(f) : f[i] \in Piece
    BY ElementOfSeq
  <2> QED BY <2>1 DEF Piece
<1>3. ChainOf(f, n) \in [1..(n - 1) -> Seq(Nat)]
  BY <1>1, <1>2 DEF ChainOf
<1> QED BY <1>1, <1>3

\* A log just opened: what is found of it is what has been written.
LEMMA OpenedIsOK ==
  ASSUME file' \in Seq(Piece), file' # <<>>, ValidPieces(file') = Len(file'),
         Bounded(file'), NEW n, n = Len(file'), NEW f,
         ChainOf(f, n) = ChainOf(file', n), BytesOf(f)[n] = BytesOf(file')[n], log' = OpenedLog(f, n),
         history' = Recovered(file')
  PROVE  /\ LogOK' /\ log'.open
         /\ log' \in [open : BOOLEAN, buffer : Seq(Piece), byte_count : Nat,
                      record_count : Nat, last_sequence : Nat, chain : Seq(Seq(Nat))]
<1>1. Len(file') \in Nat /\ Len(file') > 0 /\ n \in 1..Len(file')
  BY EmptySeq
<1>2. /\ log'.open /\ log'.buffer = <<>> /\ log'.byte_count = BytesOf(file')[Len(file')]
      /\ log'.last_sequence = Len(file') - 1
      /\ log'.chain = ChainOf(file', Len(file'))
  BY DEF OpenedLog, ClosedLog
<1>3. ChainOf(file', Len(file')) \in Seq(Seq(Nat))
  BY <1>1, ChainType
<1>4. Written' = file'
  BY <1>2, ConcatEmptySeq DEF Written
<1>5. Continues'
  BY <1>2, <1>4 DEF Continues
<1>6. Buffered'
  <2>1. Len(<<>>) = 0
    BY EmptySeq
  <2> QED BY <1>2, <2>1 DEF Buffered
<1>7. LogOK'
  BY <1>2, <1>5, <1>6 DEF LogOK
<1>8. log' \in [open : BOOLEAN, buffer : Seq(Piece), byte_count : Nat, record_count : Nat,
                last_sequence : Nat, chain : Seq(Seq(Nat))]
  <2>1. Len(file') - 1 \in Nat /\ <<>> \in Seq(Piece)
    BY <1>1, EmptySeq
  <2>2. BytesOf(f)[n] \in Nat
    <3>1. n \in 0..Len(file')
      BY <1>1
    <3> QED BY <3>1, BytesGrow
  <2> QED BY <1>1, <1>3, <2>1, <2>2 DEF OpenedLog, ClosedLog
<1> QED BY <1>2, <1>7, <1>8

LEMMA HeaderLog ==
  /\ <<Header>> \in Seq(Piece) /\ <<Header>> # <<>> /\ Len(<<Header>>) = 1
  /\ ValidPieces(<<Header>>) = 1 /\ Recovered(<<Header>>) = <<>> /\ OneSnapshot(<<Header>>)
  /\ BytesOf(<<Header>>)[1] = 1 /\ Bounded(<<Header>>)
<1> DEFINE f == <<Header>>
<1>1. f \in Seq(Piece) /\ Len(f) = 1 /\ f[1] = Header /\ f # <<>>
  BY PieceTypes
<1> HIDE DEF f
<1>2. Sound(f, 1)
  BY <1>1 DEF Sound, Header
<1>3. ValidPieces(f) = 1
  <2>1. 1 \in 0..Len(f) /\ \A i \in 1..1 : Sound(f, i)
    BY <1>1, <1>2
  <2> QED BY <1>1, <2>1, ValidIs
<1>4. Recovered(f) = <<>>
  <2>1. Len(f) <= 1
    BY <1>1
  <2> QED BY <1>1, <2>1, RecoveredFacts
<1>5. OneSnapshot(f)
  BY <1>1 DEF OneSnapshot, Header
<1>6. BytesOf(f)[1] = 1
  <2>1. 1 \in 1..Len(f) /\ 1 - 1 = 0 /\ f[1].size = 1
    BY <1>1 DEF Header
  <2>2. BytesOf(f)[1] = BytesOf(f)[0] + f[1].size /\ BytesOf(f)[0] = 0
    BY <1>1, <2>1, BytesGrow
  <2> QED BY <2>1, <2>2
<1>7. Bounded(f)
  BY <1>3, <1>6, JournalAssumption DEF Bounded
<1> QED BY <1>1, <1>3, <1>4, <1>5, <1>6, <1>7 DEF f

\* A start that finds no log.
LEMMA StartsFreshStep ==
  ASSUME Inv, StartsFresh
  PROVE  Inv' /\ Moves
<1>1. /\ TypeOK /\ Images /\ LogOK /\ ~up /\ file = <<>>
  BY DEF Inv, StartsFresh
<1>2. /\ file \in Seq(Piece) /\ issued \in Nat /\ history \in Seq(Nat) /\ safe \in 0..Len(file)
      /\ \A f \in former : f \in Seq(Piece)
  BY <1>1, Types
<1>3. log = ClosedLog
  BY <1>1 DEF TypeOK, LogOK
<1>4. Recovered(file) = <<>> /\ Len(file) = 0 /\ safe = 0
  <2>1. Len(file) = 0
    BY <1>1, EmptySeq
  <2>2. Len(file) <= 1
    BY <2>1
  <2>3. Recovered(file) = <<>>
    BY <1>2, <2>2, RecoveredFacts
  <2> QED BY <1>2, <2>1, <2>3
<1>5. sure = 0
  <2>1. sure \in Nat /\ sure <= Len(Recovered(file))
    BY <1>1, PromisedFacts
  <2> QED BY <1>4, <2>1, EmptySeq
<1>6. /\ history' = <<>> /\ sure' = 0 /\ issued' = issued
      /\ doubt' = IF doubt = "none" THEN "none" ELSE "rewritten"
  BY DEF StartsFresh, Rewrites
<1>7. /\ <<>> \in Seq(1..issued) /\ <<>> \in Seq(1..MaxIssued) /\ Len(<<>>) = 0
      /\ SubSeq(history', 1, sure') = <<>>
  <2> DEFINE e == <<>>
  <2>1. e \in Seq(Nat) /\ Len(e) = 0 /\ 0 \in 0..Len(e)
    BY EmptySeq
  <2> HIDE DEF e
  <2>2. SubSeq(e, 1, 0) \in Seq(Nat) /\ Len(SubSeq(e, 1, 0)) = 0
    BY <2>1, CutFacts
  <2>3. SubSeq(e, 1, 0) = <<>>
    BY <2>2, EmptySeq
  <2> QED BY <1>6, <2>3, EmptySeq DEF e
<1>8. ASSUME NEW s \in Seq(Nat) PROVE IsPrefix(<<>>, s)
  BY PrefixReflexive
<1>9. doubt' \in {"none", "failed", "rewritten"} /\ (doubt' = "none" <=> doubt = "none")
  BY <1>1, <1>6 DEF TypeOK
<1>10. CASE Synced(<<Header>>) /\ up' = TRUE /\ log' = OpenedLog(file', 1)
  <2>1. file' = <<Header>>
    <3>1. log.buffer = <<>>
      BY <1>3 DEF ClosedLog
    <3>2. file' = (<<>> \o <<>>) \o <<Header>>
      BY <1>1, <1>10, <3>1 DEF Synced
    <3>3. <<>> \o <<>> = <<>>
      OBVIOUS
    <3>4. <<>> \o <<Header>> = <<Header>>
      BY PieceTypes, ConcatEmptySeq
    <3> QED BY <3>2, <3>3, <3>4
  <2>2. /\ file' \in Seq(Piece) /\ file' # <<>> /\ Len(file') = 1 /\ ValidPieces(file') = 1
        /\ Recovered(file') = <<>> /\ OneSnapshot(file') /\ Bounded(file')
    BY <2>1, HeaderLog
  <2>3. safe' = Len(file') /\ former' = {}
    BY <1>10 DEF Synced
  <2>4. Images'
    <3>1. Fits(Recovered(file'), history')
      BY <1>6, <2>2, FitsItself, EmptySeq
    <3>2. IsPrefix(Promised', Recovered(file'))
      BY <1>7, <1>8, <2>2, EmptySeq DEF Promised
    <3> QED BY <1>2, <1>6, <1>7, <2>2, <2>3, <3>1, <3>2, SyncedImages
  <2>5. /\ LogOK' /\ log'.open
        /\ log' \in [open : BOOLEAN, buffer : Seq(Piece), byte_count : Nat,
                     record_count : Nat, last_sequence : Nat, chain : Seq(Seq(Nat))]
    <3>1. /\ file' \in Seq(Piece) /\ file' # <<>> /\ ValidPieces(file') = Len(file')
          /\ Bounded(file') /\ 1 = Len(file') /\ ChainOf(file', 1) = ChainOf(file', 1)
          /\ log' = OpenedLog(file', 1) /\ history' = Recovered(file')
      BY <1>6, <1>10, <2>2
    <3> QED BY <3>1, OpenedIsOK
  <2>6. TypeOK'
    BY <1>1, <1>6, <1>7, <1>9, <1>10, <2>2, <2>3, <2>5 DEF TypeOK
  <2>7. Unmoved
    BY <1>4, <1>5, <1>6, <1>9, <2>2 DEF Unmoved
  <2> QED BY <2>4, <2>5, <2>6, <2>7 DEF Inv, Moves
<1>11. CASE CutShort(<<Header>>) /\ UNCHANGED <<up, log>>
  <2>1. PICK n \in 0..1, torn \in {<<>>, <<Torn>>} :
          /\ file' = SubSeq(<<Header>>, 1, n) \o torn
          /\ torn # <<>> => n < 1
    <3> DEFINE more == <<Header>>
    <3>1. more \in Seq(Piece) /\ Len(more) = 1 /\ CutShort(more)
      BY <1>11, HeaderLog
    <3>2. Written \o more = more
      <4>1. log.buffer = <<>>
        BY <1>3 DEF ClosedLog
      <4>2. <<>> \o <<>> = <<>>
        OBVIOUS
      <4>3. Written = <<>>
        BY <1>1, <4>1, <4>2 DEF Written
      <4>4. <<>> \o more = more
        BY <3>1, ConcatEmptySeq
      <4> QED BY <4>3, <4>4
    <3> HIDE DEF more
    <3>3. PICK n \in 0..Len(more), torn \in {<<>>, <<Torn>>} :
            /\ file' = SubSeq(more, 1, n) \o torn
            /\ torn # <<>> => n < Len(more)
      <4>1. \E n \in Len(file)..Len(Written \o more), torn \in {<<>>, <<Torn>>} :
              /\ file' = SubSeq(Written \o more, 1, n) \o torn
              /\ torn # <<>> => n < Len(Written \o more)
        BY <1>1, <3>1, CutShortIs
      <4> QED BY <1>4, <3>2, <4>1
    <3>4. n \in 0..1
      BY <3>1
    <3> QED BY <3>1, <3>3, <3>4 DEF more
  <2>2. IsCut(<<Header>>, n, torn, file')
    BY <2>1, HeaderLog, CutLog
  <2>3. /\ file' \in Seq(Piece) /\ Len(file') = n + Len(torn) /\ Len(torn) \in 0..1
        /\ OneSnapshot(file') /\ Bounded(file')
    BY <2>2, HeaderLog DEF IsCut
  <2>4. Len(file') <= 1 /\ Len(file') \in Nat
    <3>1. CASE torn = <<>>
      BY <2>1, <2>3, <3>1, EmptySeq
    <3>2. CASE torn # <<>>
      BY <2>1, <2>3, <3>2
    <3> QED BY <3>1, <3>2
  <2>5. Recovered(file') = <<>> /\ Bounded(file')
    BY <2>3, <2>4, RecoveredFacts
  <2>6. safe' = safe /\ former' = former /\ up' = up /\ log' = log
    BY <1>11 DEF CutShort
  <2>7. ASSUME NEW f \in former
        PROVE  /\ ImageOK(f)' /\ Fits(Recovered(f), Recovered(file'))
               /\ IsPrefix(Promised', Recovered(f))
               /\ doubt' = "none" => IsPrefix(Recovered(f), Recovered(file'))
    <3>1. /\ OneSnapshot(f) /\ Bounded(f) /\ Recovered(f) \in Seq(1..issued)
          /\ Fits(Recovered(f), Recovered(file))
          /\ doubt = "none" => IsPrefix(Recovered(f), Recovered(file))
      BY <1>1 DEF Images, ImageOK
    <3>2. Recovered(f) \in Seq(Nat)
      BY <1>2, RecoveredFacts
    <3>3. IsPrefix(Promised', Recovered(f))
      BY <1>7, <1>8, <3>2 DEF Promised
    <3> QED BY <1>4, <1>6, <1>9, <2>5, <3>1, <3>3 DEF ImageOK
  <2>8. ImageOK(file)'
    <3>1. Fits(<<>>, <<>>)
      BY FitsItself, EmptySeq
    <3> QED BY <1>6, <1>7, <2>3, <2>5, <3>1 DEF ImageOK
  <2>9. IsPrefix(Promised', Recovered(SubSeq(file', 1, safe')))
    <3>1. SubSeq(file', 1, safe') \in Seq(Piece)
      <4>1. 0 \in 0..Len(file')
        BY <2>4
      <4>2. SubSeq(file', 1, 0) \in Seq(Piece)
        BY <2>3, <4>1, CutFacts
      <4> QED BY <1>4, <2>6, <4>2
    <3>2. Recovered(SubSeq(file', 1, safe')) \in Seq(Nat)
      BY <3>1, RecoveredFacts
    <3> QED BY <1>7, <1>8, <3>2 DEF Promised
  <2>10. Images'
    BY <1>6, <1>7, <2>6, <2>7, <2>8, <2>9 DEF Images
  <2>11. LogOK'
    BY <1>3, <2>6, ClosedIsOK
  <2>12. TypeOK'
    <3>1. safe' \in 0..Len(file')
      BY <1>4, <2>4, <2>6
    <3> QED BY <1>1, <1>6, <1>7, <1>9, <2>3, <2>6, <3>1 DEF TypeOK
  <2>13. Unmoved
    BY <1>4, <1>5, <1>6, <1>9, <2>5 DEF Unmoved
  <2> QED BY <2>10, <2>11, <2>12, <2>13 DEF Inv, Moves
<1> QED BY <1>10, <1>11 DEF StartsFresh

\* A start that finds a log cuts what it cannot read and goes on there.
LEMMA StartsAgainStep ==
  ASSUME Inv, StartsAgain
  PROVE  Inv' /\ Moves
<1> DEFINE n == ValidPieces(file)
<1>1. /\ TypeOK /\ Images /\ LogOK /\ ~up /\ file # <<>> /\ Readable(file)
  BY DEF Inv, StartsAgain
<1>2. /\ file \in Seq(Piece) /\ Len(file) \in Nat /\ issued \in Nat /\ safe \in 0..Len(file)
      /\ safe \in Nat /\ history \in Seq(Nat) /\ MaxIssued \in Nat /\ issued <= MaxIssued
      /\ \A f \in former : f \in Seq(Piece)
  BY <1>1, Types, JournalAssumption DEF TypeOK
<1>3. /\ OneSnapshot(file) /\ Bounded(file) /\ Recovered(file) \in Seq(1..issued)
  BY <1>1 DEF Images, ImageOK
<1>4. n \in 1..Len(file) /\ n \in 0..Len(file) /\ n \in Nat
  <2>1. n \in 0..Len(file) /\ (n < Len(file) => ~Sound(file, n + 1)) /\ Len(file) > 0
    BY <1>1, <1>2, ValidFacts, EmptySeq
  <2>2. Sound(file, 1)
    BY <1>1 DEF Readable, Sound
  <2>3. n # 0
    BY <1>2, <2>1, <2>2
  <2> QED BY <1>2, <2>1, <2>3
<1>5. /\ file' = SubSeq(file, 1, n) /\ safe' = Min({safe, n})
      /\ former' = IF n < Len(file) THEN former \cup {file} ELSE former
      /\ log' = OpenedLog(file, n) /\ up' = TRUE /\ history' = Recovered(file)
      /\ sure' = Min({sure, Len(history')}) /\ issued' = issued
      /\ doubt' = IF doubt = "none" THEN "none" ELSE "rewritten"
  BY DEF StartsAgain, Rewrites
<1> HIDE DEF n
<1>6. /\ file' \in Seq(Piece) /\ Same(file, file', n) /\ Len(file') = n
      /\ ValidPieces(file') = n /\ Recovered(file') = Recovered(file) /\ OneSnapshot(file')
      /\ Bounded(file')
  <2>1. SubSeq(file, 1, n) \in Seq(Piece)
    BY <1>2, <1>4, CutFacts
  <2>2. file' = SubSeq(file, 1, n) \o <<>>
    BY <1>5, <2>1, ConcatEmptySeq
  <2>3. IsCut(file, n, <<>>, file')
    BY <1>2, <1>4, <2>2, CutLog
  <2>4. /\ file' \in Seq(Piece) /\ Same(file, file', n) /\ Len(file') = n + Len(<<>>)
        /\ ValidPieces(file') = n /\ Recovered(file') = Replayed(file)[ValidPieces(file')]
        /\ OneSnapshot(file') /\ Bounded(file')
    BY <1>3, <2>3 DEF IsCut, n
  <2>5. Len(file') = n
    BY <1>4, <2>4, EmptySeq
  <2>6. Recovered(file') = Recovered(file)
    BY <2>4 DEF n, Recovered
  <2> QED BY <2>4, <2>5, <2>6
<1>7. file' # <<>>
  BY <1>4, <1>6, EmptySeq
<1>8. /\ history' \in Seq(1..issued') /\ history' \in Seq(1..MaxIssued) /\ history' \in Seq(Nat)
      /\ Len(history') \in Nat
  <2>1. Recovered(file) \in Seq(1..MaxIssued) /\ Recovered(file) \in Seq(Nat)
    BY <1>2, <1>3, Issued
  <2> QED BY <1>3, <1>5, <2>1, LenProperties
<1>9. sure' = sure /\ sure \in 0..Len(history')
  <2>1. sure \in Nat /\ sure <= Len(history')
    BY <1>1, <1>5, PromisedFacts
  <2>2. Min({sure, Len(history')}) = sure
    BY <1>8, <2>1, MinOfTwo
  <2> QED BY <1>5, <1>8, <2>1, <2>2
<1>10. Promised' = Promised
  <2>1. /\ Promised \in Seq(Nat) /\ Len(Promised) = sure /\ IsPrefix(Promised, Recovered(file))
        /\ Recovered(file) \in Seq(Nat)
    BY <1>1, PromisedFacts
  <2>2. Promised = SubSeq(Recovered(file), 1, sure)
    BY <2>1, PrefixInSeq
  <2> QED BY <1>5, <1>9, <2>2 DEF Promised
<1>11. safe' = (IF safe <= n THEN safe ELSE n) /\ safe' \in 0..Len(file')
  <2>1. Min({safe, n}) = IF safe <= n THEN safe ELSE n
    BY <1>2, <1>4, MinOfTwo
  <2> QED BY <1>2, <1>4, <1>5, <1>6, <2>1
<1>12. IsPrefix(Promised', Recovered(SubSeq(file', 1, safe')))
  <2> DEFINE m == IF safe <= n THEN safe ELSE n
  <2>1. m \in 0..n /\ m \in 0..Len(file) /\ m \in Nat /\ m <= n
    BY <1>2, <1>4
  <2>2. SubSeq(file', 1, m) = SubSeq(file, 1, m)
    <3> HIDE DEF m
    <3> QED BY <1>2, <1>6, <2>1, CutSame
  <2>3. Recovered(SubSeq(file, 1, m)) = Replayed(file)[m]
    <3> HIDE DEF m
    <3>1. SubSeq(file, 1, m) \in Seq(Piece)
      BY <1>2, <2>1, CutFacts
    <3>2. SubSeq(file, 1, m) = SubSeq(file, 1, m) \o <<>>
      BY <3>1, ConcatEmptySeq
    <3>3. IsCut(file, m, <<>>, SubSeq(file, 1, m))
      BY <1>2, <2>1, <3>2, CutLog
    <3>4. ValidPieces(SubSeq(file, 1, m)) = m
      BY <2>1, <3>3 DEF IsCut, n
    <3> QED BY <3>3, <3>4 DEF IsCut
  <2>4. Durable = Replayed(file)[m]
    BY <1>1, <1>3, DurableFacts DEF n
  <2>5. IsPrefix(Promised, Durable)
    BY <1>1, PromisedFacts
  <2>6. safe' = m
    BY <1>11
  <2> HIDE DEF m
  <2> QED BY <1>10, <2>2, <2>3, <2>4, <2>5, <2>6
<1>13. ImageOK(file)'
  <2>1. Fits(Recovered(file), Recovered(file))
    BY <1>3, FitsItself
  <2> QED BY <1>3, <1>5, <1>6, <2>1 DEF ImageOK
<1>14. ASSUME NEW f \in former'
       PROVE  /\ ImageOK(f)' /\ Fits(Recovered(f), Recovered(file'))
              /\ IsPrefix(Promised', Recovered(f))
              /\ doubt' = "none" => IsPrefix(Recovered(f), Recovered(file'))
  <2>1. CASE f \in former
    <3>1. /\ OneSnapshot(f) /\ Bounded(f) /\ Recovered(f) \in Seq(1..issued)
          /\ Fits(Recovered(f), Recovered(file)) /\ IsPrefix(Promised, Recovered(f))
          /\ doubt = "none" => IsPrefix(Recovered(f), Recovered(file))
      BY <1>1, <2>1 DEF Images, ImageOK
    <3> QED BY <1>5, <1>6, <1>10, <3>1 DEF ImageOK
  <2>2. CASE f = file
    <3>1. /\ Fits(Recovered(file), Recovered(file)) /\ IsPrefix(Recovered(file), Recovered(file))
      BY <1>3, FitsItself, PrefixReflexive
    <3>2. IsPrefix(Promised, Recovered(file))
      BY <1>1, PromisedFacts
    <3> QED BY <1>3, <1>5, <1>6, <1>10, <2>2, <3>1, <3>2 DEF ImageOK, n
  <2> QED BY <1>5, <2>1, <2>2
<1>15. Images'
  BY <1>8, <1>12, <1>13, <1>14 DEF Images
<1>16. /\ LogOK' /\ log'.open
       /\ log' \in [open : BOOLEAN, buffer : Seq(Piece), byte_count : Nat,
                    record_count : Nat, last_sequence : Nat, chain : Seq(Seq(Nat))]
  <2>1. ChainOf(file, n) = ChainOf(file', n) /\ BytesOf(file)[n] = BytesOf(file')[n]
    <3>1. n \in 1..n /\ n \in 0..n
      BY <1>4
    <3> QED BY <1>2, <1>6, <3>1, SoundSame, BytesSame
  <2>2. /\ ValidPieces(file') = Len(file') /\ Bounded(file') /\ n = Len(file')
        /\ history' = Recovered(file') /\ log' = OpenedLog(file, n)
    BY <1>3, <1>5, <1>6
  <2> QED BY <1>6, <1>7, <2>1, <2>2, OpenedIsOK
<1>17. former' \in SUBSET Seq(Piece)
  BY <1>2, <1>5
<1>18. TypeOK'
  BY <1>1, <1>5, <1>6, <1>8, <1>9, <1>11, <1>16, <1>17 DEF TypeOK
<1>19. Unmoved
  BY <1>5, <1>6, <1>9 DEF Unmoved
<1> QED BY <1>15, <1>16, <1>18, <1>19 DEF Inv, Moves

\* What holds while the log is open.
LEMMA OpenFacts ==
  ASSUME Inv, log.open
  PROVE  /\ TypeOK /\ Images /\ OneSnapshot(file) /\ Bounded(file) /\ Buffered
         /\ file # <<>> /\ (Continues \/ Lags) /\ up
         /\ file \in Seq(Piece) /\ issued \in Nat /\ history \in Seq(1..issued)
         /\ history \in Seq(Nat) /\ Recovered(file) \in Seq(1..issued)
         /\ doubt # "failed" => Recovered(file) = history
<1>1. /\ TypeOK /\ Images /\ OneSnapshot(file) /\ Bounded(file) /\ Buffered
      /\ file # <<>> /\ (Continues \/ Lags) /\ up
      /\ history \in Seq(1..issued) /\ Recovered(file) \in Seq(1..issued)
  BY DEF Inv, Images, ImageOK, LogOK, TypeOK
<1>2. file \in Seq(Piece) /\ issued \in Nat /\ history \in Seq(Nat)
  BY <1>1, Types
<1>3. Continues => Recovered(file) = history
  BY <1>1, ContinuesFacts
<1>4. Lags => doubt = "failed"
  BY DEF Lags
<1> QED BY <1>1, <1>2, <1>3, <1>4

LEMMA EmptiedIsOK ==
  ASSUME log'.buffer = <<>>, file' # <<>>, log'.open, Continues' \/ Lags'
  PROVE  LogOK'
<1>1. Buffered'
  <2>1. Len(<<>>) = 0
    BY EmptySeq
  <2> QED BY <2>1 DEF Buffered
<1> QED BY <1>1 DEF LogOK

\* The engine's next transition.
LEMMA AppendsStep ==
  ASSUME Inv, Appends
  PROVE  Inv' /\ Moves
<1>1. /\ log.open /\ ~ShouldCompact /\ issued < MaxIssued /\ issued' = issued + 1 /\ up' = up
  BY DEF Appends
<1>2. /\ TypeOK /\ Images /\ OneSnapshot(file) /\ Bounded(file) /\ Buffered
      /\ file # <<>> /\ (Continues \/ Lags) /\ up
      /\ file \in Seq(Piece) /\ issued \in Nat /\ history \in Seq(1..issued)
      /\ history \in Seq(Nat) /\ Recovered(file) \in Seq(1..issued)
      /\ (doubt # "failed" => Recovered(file) = history)
  BY <1>1, OpenFacts
<1>3. log.byte_count < MaxBytes
  BY <1>1, <1>2, JournalAssumption DEF ShouldCompact, TypeOK
<1>4. PICK size \in 1..MaxRecordBytes :
         \/ /\ Synced(<<NextTransition(size)>>)
            /\ log' = [Counted(log, NextTransition(size)) EXCEPT !.buffer = <<>>]
            /\ history' = Append(history, issued')
            /\ Settles(history')
         \/ /\ CutShort(<<NextTransition(size)>>)
            /\ log' = [log EXCEPT !.buffer = <<>>]
            /\ doubt' = "failed"
            /\ UNCHANGED <<history, sure>>
  BY <1>1 DEF Appends, NextTransition
<1>5. /\ issued + 1 \in Nat /\ issued + 1 \in 0..MaxIssued /\ issued + 1 \in 1..MaxIssued
      /\ MaxIssued \in Nat /\ issued \in 0..MaxIssued
  BY <1>1, <1>2, JournalAssumption
<1>6. /\ history \in Seq(1..(issued + 1)) /\ issued + 1 \notin Range(history)
      /\ Append(history, issued + 1) \in Seq(1..(issued + 1))
      /\ history \in Seq(1..MaxIssued)
      /\ Recovered(file) \in Seq(1..(issued + 1)) /\ Recovered(file) \in Seq(Nat)
      /\ issued + 1 \notin Range(Recovered(file))
  <2>1. issued <= MaxIssued
    BY <1>1, <1>5
  <2> QED BY <1>2, <1>5, <2>1, Issued
<1>7. Append(history, issued + 1) \in Seq(1..MaxIssued)
  <2>1. issued + 1 <= MaxIssued
    BY <1>5
  <2> QED BY <1>5, <1>6, <2>1, Issued
<1>8. /\ log \in [open : BOOLEAN, buffer : Seq(Piece), byte_count : Nat, record_count : Nat,
                  last_sequence : Nat, chain : Seq(Seq(Nat))]
      /\ sure \in Nat /\ sure \in 0..Len(history) /\ doubt \in {"none", "failed", "rewritten"}
      /\ Len(history) \in Nat
  <2>1. Len(history) \in Nat
    BY <1>2, LenProperties
  <2> QED BY <1>2, <2>1 DEF TypeOK
<1>9. CASE /\ Synced(<<NextTransition(size)>>)
           /\ log' = [Counted(log, NextTransition(size)) EXCEPT !.buffer = <<>>]
           /\ history' = Append(history, issued')
           /\ Settles(history')
  <2>1. /\ history' = Append(history, issued + 1)
        /\ sure' = IF doubt = "failed" THEN sure ELSE Len(history')
        /\ doubt' = IF doubt = "failed" THEN doubt ELSE "none"
    BY <1>1, <1>9 DEF Settles
  <2>2. /\ file' \in Seq(Piece) /\ file' # <<>> /\ OneSnapshot(file')
        /\ Bounded(file')
        /\ doubt # "failed" =>
             Recovered(file) = history /\ Recovered(file') = Append(history, issued + 1)
        /\ \/ Recovered(file') = Append(history, issued + 1) /\ Recovered(file) = history
           \/ doubt = "failed" /\ Recovered(file') = Recovered(file)
        /\ Continues' \/ Lags'
    BY <1>2, <1>3, <1>9, <2>1, SyncedAppend
  <2>3. safe' = Len(file') /\ former' = {}
    BY <1>9 DEF Synced
  <2>4. /\ history' \in Seq(1..issued') /\ history' \in Seq(1..MaxIssued) /\ history' \in Seq(Nat)
        /\ Len(history') = Len(history) + 1 /\ IsPrefix(history, history')
    <3>1. /\ Append(history, issued + 1) \in Seq(Nat) /\ IsPrefix(history, Append(history, issued + 1))
          /\ Len(Append(history, issued + 1)) = Len(history) + 1
      BY <1>2, <1>5, AppendedPrefix, AppendFacts
    <3> QED BY <1>1, <1>6, <1>7, <2>1, <3>1
  <2>5. SubSeq(history', 1, sure) = SubSeq(history, 1, sure)
    <3>1. /\ history \in Seq(Nat) /\ history' \in Seq(Nat) /\ IsPrefix(history, history')
          /\ sure \in 0..Len(history)
      BY <1>2, <1>8, <2>4
    <3> QED BY <3>1, FrontOfGrown
  <2>6. Recovered(file') \in Seq(1..issued')
    BY <1>1, <1>6, <2>2
  <2>7. Fits(Recovered(file'), history')
    <3>1. CASE Recovered(file') = Append(history, issued + 1)
      BY <2>1, <2>4, <3>1, FitsItself
    <3>2. CASE Recovered(file') = Recovered(file)
      <4>1. Fits(Recovered(file), history)
        BY <1>2 DEF Images, ImageOK
      <4>2. Fits(Recovered(file), Append(history, issued + 1))
        BY <1>2, <1>5, <1>6, <4>1, FitsGrown
      <4> QED BY <2>1, <3>2, <4>2
    <3> QED BY <2>2, <3>1, <3>2
  <2>8. IsPrefix(Promised', Recovered(file'))
    <3>1. CASE doubt # "failed"
      <4>1. Promised' = history' /\ Recovered(file') = history'
        <5>1. SubSeq(history', 1, Len(history')) = history'
          BY <2>4, SubSeqFull
        <5> QED BY <2>1, <2>2, <3>1, <5>1 DEF Promised
      <4> QED BY <2>4, <4>1, PrefixReflexive
    <3>2. CASE doubt = "failed"
      <4>1. Promised' = Promised
        BY <2>1, <2>5, <3>2 DEF Promised
      <4>2. /\ Promised \in Seq(Nat) /\ IsPrefix(Promised, history)
            /\ IsPrefix(Promised, Recovered(file))
        BY <1>2, PromisedFacts
      <4>3. IsPrefix(Promised, history')
        BY <1>2, <2>4, <4>2, PrefixTransitive
      <4> QED BY <2>1, <2>2, <4>1, <4>2, <4>3
    <3> QED BY <3>1, <3>2
  <2>9. Images'
    BY <1>1, <1>5, <2>2, <2>3, <2>4, <2>6, <2>7, <2>8, SyncedImages
  <2>10. /\ log' \in [open : BOOLEAN, buffer : Seq(Piece), byte_count : Nat, record_count : Nat,
                      last_sequence : Nat, chain : Seq(Seq(Nat))]
         /\ log'.open /\ log'.buffer = <<>>
    <3>1. /\ NextTransition(size).sequence = log.last_sequence
          /\ NextTransition(size).chain \in Seq(Seq(Nat))
      BY <1>2, TransitionFacts DEF Piece
    <3>2. /\ <<>> \in Seq(Piece) /\ log.last_sequence + 1 \in Nat
          /\ log.byte_count + NextTransition(size).size \in Nat
          /\ log.record_count + 1 \in Nat
      <4>1. NextTransition(size).size \in Nat
        BY <1>2, TransitionFacts DEF Piece
      <4>2. /\ log.last_sequence \in Nat /\ log.byte_count \in Nat /\ log.record_count \in Nat
        BY <1>8
      <4> HIDE DEF NextTransition
      <4> QED BY <4>1, <4>2, EmptySeq
    <3> QED BY <1>1, <1>8, <1>9, <3>1, <3>2 DEF Counted
  <2>11. LogOK'
    BY <2>2, <2>10, EmptiedIsOK
  <2>12. sure' \in 0..Len(history') /\ sure <= sure' /\ doubt' \in {"none", "failed", "rewritten"}
    BY <1>8, <2>1, <2>4
  <2>13. TypeOK'
    <3>1. safe' \in 0..Len(file')
      BY <2>2, <2>3, LenProperties
    <3> QED BY <1>1, <1>2, <1>5, <2>2, <2>3, <2>4, <2>10, <2>12, <3>1 DEF TypeOK
  <2>14. Moves
    <3>1. CASE doubt = "none"
      <4>1. Recovered(file') = Append(Recovered(file), issued + 1) /\ doubt' = "none"
            /\ sure' = Len(Recovered(file'))
        BY <2>1, <2>2, <3>1
      <4> QED BY <1>5, <3>1, <4>1 DEF Moves, Recorded
    <3>2. CASE doubt # "none"
      BY <2>5, <2>12, <3>2 DEF Moves, Doubted
    <3> QED BY <3>1, <3>2
  <2> QED BY <2>9, <2>11, <2>13, <2>14 DEF Inv
<1>10. CASE /\ CutShort(<<NextTransition(size)>>)
            /\ log' = [log EXCEPT !.buffer = <<>>]
            /\ doubt' = "failed"
            /\ UNCHANGED <<history, sure>>
  <2>1. /\ file' \in Seq(Piece) /\ file' # <<>> /\ OneSnapshot(file')
        /\ Bounded(file') /\ Same(file, file', Len(file))
        /\ \/ Recovered(file') = Recovered(file)
           \/ Recovered(file) = history /\ Recovered(file') = Append(history, issued + 1)
        /\ Continues' \/ Lags'
    BY <1>2, <1>3, <1>10, FailedAppend
  <2>2. safe' = safe /\ former' = former /\ history' = history /\ sure' = sure
    BY <1>10 DEF CutShort
  <2>3. Images'
    <3>1. doubt' = "failed" /\ issued' \in {issued, issued + 1}
      BY <1>1, <1>10
    <3> QED BY <1>1, <1>2, <2>1, <2>2, <3>1, UnsyncedImages
  <2>4. /\ log' \in [open : BOOLEAN, buffer : Seq(Piece), byte_count : Nat, record_count : Nat,
                     last_sequence : Nat, chain : Seq(Seq(Nat))]
        /\ log'.open /\ log'.buffer = <<>>
    <3>1. <<>> \in Seq(Piece)
      BY EmptySeq
    <3> QED BY <1>1, <1>8, <1>10, <3>1
  <2>5. LogOK'
    BY <2>1, <2>4, EmptiedIsOK
  <2>6. safe' \in 0..Len(file')
    <3>1. safe \in 0..Len(file) /\ Len(file) \in Nat /\ Len(file') \in Nat /\ Len(file) <= Len(file')
      BY <1>2, <2>1, Types, LenProperties DEF Same
    <3> QED BY <2>2, <3>1
  <2>7. TypeOK'
    <3>1. former' \in SUBSET Seq(Piece)
      BY <1>2, <2>2 DEF TypeOK
    <3> QED BY <1>1, <1>2, <1>5, <1>6, <1>8, <1>10, <2>1, <2>2, <2>4, <2>6, <3>1 DEF TypeOK
  <2>8. Moves
    BY <1>8, <1>10, <2>2 DEF Moves, Doubted
  <2> QED BY <2>3, <2>5, <2>7, <2>8 DEF Inv
<1> QED BY <1>4, <1>9, <1>10

\* The log is closed: what waits is synced, or a part of it is lost.
LEMMA ClosingStep ==
  ASSUME Inv, log.open, log' = ClosedLog, up' \in BOOLEAN, history' = history, issued' = issued,
         \/ Synced(<<>>) /\ Settles(history)
         \/ CutShort(<<>>) /\ doubt' = "failed" /\ sure' = sure
  PROVE  Inv' /\ Moves
<1>1. /\ TypeOK /\ Images /\ OneSnapshot(file) /\ Bounded(file) /\ Buffered
      /\ file # <<>> /\ (Continues \/ Lags)
      /\ file \in Seq(Piece) /\ issued \in Nat /\ history \in Seq(1..issued)
      /\ history \in Seq(Nat) /\ Recovered(file) \in Seq(1..issued)
      /\ (doubt # "failed" => Recovered(file) = history)
  BY OpenFacts
<1>2. /\ sure \in Nat /\ sure \in 0..Len(history) /\ doubt \in {"none", "failed", "rewritten"}
      /\ Len(history) \in Nat /\ history \in Seq(1..MaxIssued) /\ issued \in 0..MaxIssued
  <2>1. Len(history) \in Nat
    BY <1>1, LenProperties
  <2> QED BY <1>1, <2>1 DEF TypeOK
<1>3. LogOK'
  BY ClosedIsOK
<1>4. /\ log' \in [open : BOOLEAN, buffer : Seq(Piece), byte_count : Nat, record_count : Nat,
                   last_sequence : Nat, chain : Seq(Seq(Nat))]
      /\ ~log'.open
  BY ClosedLogType
<1>5. CASE Synced(<<>>) /\ Settles(history)
  <2>1. /\ sure' = IF doubt = "failed" THEN sure ELSE Len(history)
        /\ doubt' = IF doubt = "failed" THEN doubt ELSE "none"
    BY <1>5 DEF Settles
  <2>2. /\ file' = Written /\ file' \in Seq(Piece) /\ file' # <<>> /\ OneSnapshot(file')
        /\ Bounded(file') /\ Recovered(file') = Recovered(file)
    BY <1>1, <1>5, SyncedSync
  <2>3. safe' = Len(file') /\ former' = {}
    BY <1>5 DEF Synced
  <2>4. Fits(Recovered(file'), history')
    BY <1>1, <2>2 DEF Images, ImageOK
  <2>5. IsPrefix(Promised', Recovered(file'))
    <3>1. CASE doubt # "failed"
      <4>1. Promised' = history
        <5>1. SubSeq(history, 1, Len(history)) = history
          BY <1>1, SubSeqFull
        <5> QED BY <2>1, <3>1, <5>1 DEF Promised
      <4>2. Recovered(file') = history
        BY <1>1, <2>2, <3>1
      <4> QED BY <1>1, <4>1, <4>2, PrefixReflexive
    <3>2. CASE doubt = "failed"
      <4>1. Promised' = Promised
        BY <2>1, <3>2 DEF Promised
      <4> QED BY <1>1, <2>2, <4>1, PromisedFacts
    <3> QED BY <3>1, <3>2
  <2>6. Images'
    BY <1>1, <2>2, <2>3, <2>4, <2>5, SyncedImages
  <2>7. TypeOK'
    <3>1. safe' \in 0..Len(file')
      BY <2>2, <2>3, LenProperties
    <3>2. sure' \in 0..Len(history') /\ doubt' \in {"none", "failed", "rewritten"}
      BY <1>2, <2>1
    <3> QED BY <1>2, <1>4, <2>2, <2>3, <3>1, <3>2 DEF TypeOK
  <2>8. Moves
    <3>1. CASE doubt = "none"
      <4>1. Recovered(file) = history /\ sure' = Len(history) /\ doubt' = "none"
        BY <1>1, <2>1, <3>1
      <4> QED BY <2>2, <3>1, <4>1 DEF Moves, Settled
    <3>2. CASE doubt # "none"
      <4>1. sure <= sure'
        BY <1>2, <2>1
      <4> QED BY <3>2, <4>1 DEF Moves, Doubted
    <3> QED BY <3>1, <3>2
  <2> QED BY <1>3, <2>6, <2>7, <2>8 DEF Inv
<1>6. CASE CutShort(<<>>) /\ doubt' = "failed" /\ sure' = sure
  <2>1. /\ file' \in Seq(Piece) /\ file' # <<>> /\ OneSnapshot(file')
        /\ Bounded(file') /\ Same(file, file', Len(file))
        /\ Recovered(file') = Recovered(file)
    BY <1>1, <1>6, FailedSync
  <2>2. safe' = safe /\ former' = former
    BY <1>6 DEF CutShort
  <2>3. Images'
    <3>1. issued' \in {issued, issued + 1}
      OBVIOUS
    <3> QED BY <1>1, <1>6, <2>1, <2>2, <3>1, UnsyncedImages
  <2>4. safe' \in 0..Len(file')
    <3>1. safe \in 0..Len(file) /\ Len(file) \in Nat /\ Len(file') \in Nat /\ Len(file) <= Len(file')
      BY <1>1, <2>1, Types, LenProperties DEF Same
    <3> QED BY <2>2, <3>1
  <2>5. TypeOK'
    <3>1. former' \in SUBSET Seq(Piece)
      BY <1>1, <2>2 DEF TypeOK
    <3> QED BY <1>2, <1>4, <1>6, <2>1, <2>4, <3>1 DEF TypeOK
  <2>6. Moves
    BY <1>2, <1>6 DEF Moves, Doubted
  <2> QED BY <1>3, <2>3, <2>5, <2>6 DEF Inv
<1> QED BY <1>5, <1>6

\* What opening a log and taking a record make of the Journal object.
LogType ==
  [open : BOOLEAN, buffer : Seq(Piece), byte_count : Nat, record_count : Nat,
   last_sequence : Nat, chain : Seq(Seq(Nat))]

LEMMA OpenedLogFacts ==
  ASSUME NEW f, NEW n \in Nat, n - 1 \in Nat, ChainOf(f, n) \in Seq(Seq(Nat)),
         BytesOf(f)[n] \in Nat
  PROVE  LET l == OpenedLog(f, n)
         IN  /\ l \in LogType
             /\ l.open /\ l.buffer = <<>> /\ l.byte_count = BytesOf(f)[n] /\ l.last_sequence = n - 1
             /\ l.chain = ChainOf(f, n)
<1> DEFINE c == ChainOf(f, n)
<1> DEFINE b == BytesOf(f)[n]
<1>1. b \in Nat /\ c \in Seq(Seq(Nat)) /\ <<>> \in Seq(Piece)
  BY EmptySeq
<1>2. OpenedLog(f, n) = [ClosedLog EXCEPT !.open = TRUE, !.byte_count = b,
                                          !.last_sequence = n - 1, !.chain = c]
  BY DEF OpenedLog
<1> HIDE DEF c, b
<1>3. OpenedLog(f, n) = [open |-> TRUE, buffer |-> <<>>, byte_count |-> b, record_count |-> 0,
                         last_sequence |-> n - 1, chain |-> c]
  BY <1>2 DEF ClosedLog
<1> QED BY <1>1, <1>3 DEF LogType, c, b

LEMMA CountedFacts ==
  ASSUME NEW l \in LogType, NEW record \in Piece
  PROVE  LET m == Counted(l, record)
         IN  /\ m \in LogType /\ m.open = l.open
             /\ m.byte_count = l.byte_count + record.size /\ m.last_sequence = record.sequence + 1
             /\ m.chain = record.chain
             /\ \A b \in Seq(Piece) :
                  LET e == [m EXCEPT !.buffer = b]
                  IN  /\ e \in LogType /\ e.open = l.open /\ e.buffer = b
                      /\ e.byte_count = m.byte_count /\ e.last_sequence = m.last_sequence
                      /\ e.chain = m.chain
<1>1. record.size \in Nat /\ record.sequence \in Nat /\ record.chain \in Seq(Seq(Nat))
  BY DEF Piece
<1> DEFINE z == record.size
<1> DEFINE q == record.sequence
<1> DEFINE c == record.chain
<1>2. z \in Nat /\ q + 1 \in Nat /\ c \in Seq(Seq(Nat))
  BY <1>1
<1>3. Counted(l, record) = [l EXCEPT !.byte_count = @ + z, !.record_count = @ + 1,
                                     !.last_sequence = q + 1, !.chain = c]
  BY DEF Counted
<1> HIDE DEF q, c, z
<1>4. l.byte_count + z \in Nat /\ l.record_count + 1 \in Nat
  BY <1>2 DEF LogType
<1> QED BY <1>2, <1>3, <1>4 DEF LogType, q, c, z

\* The log that a compaction writes, with and without what waits in its buffer.
LEMMA CompactedFacts ==
  ASSUME history \in Seq(Nat), NEW size \in 1..MaxRecordBytes
  PROVE  LET image == <<Header, Snapshot(size)>>
             whole == image \o CompactedLog(size).buffer
         IN  /\ image \in Seq(Piece) /\ Len(image) = 2 /\ ValidPieces(image) = 2
             /\ OneSnapshot(image) /\ Recovered(image) = history
             /\ whole \in Seq(Piece) /\ Len(whole) = 3 /\ ValidPieces(whole) = 3
             /\ Bounded(image) /\ Bounded(whole)
             /\ Recovered(whole) = history
             /\ CompactedLog(size).byte_count = BytesOf(whole)[3] /\ CompactedLog(size).last_sequence = 2
             /\ CompactedLog(size).chain = ChainOf(whole, 3)
             /\ CompactedLog(size).open
             /\ Len(CompactedLog(size).buffer) = 1
             /\ CompactedLog(size).buffer[1].kind = "CountersSync"
             /\ CompactedLog(size).buffer[1].payload = <<>>
             /\ CompactedLog(size) \in LogType
<1> DEFINE fresh == OpenedLog(<<Header>>, 1)
<1> DEFINE head == <<Header>>
<1> DEFINE image == <<Header, Snapshot(size)>>
<1> DEFINE taken == Counted(fresh, Snapshot(size))
<1> DEFINE counters == Stamped(taken, "CountersSync", <<>>, 1)
<1> DEFINE whole == image \o CompactedLog(size).buffer
<1>1. /\ fresh.last_sequence = 0 /\ fresh.byte_count = 1
      /\ fresh.chain = ChainOf(head, 1) /\ fresh.open
      /\ fresh.buffer = <<>>
      /\ fresh \in LogType
  <2>1. ChainOf(head, 1) \in Seq(Seq(Nat)) /\ <<>> \in Seq(Piece)
    <3>1. 1 \in 1..Len(head) /\ head \in Seq(Piece) /\ head # <<>>
      BY HeaderLog
    <3> HIDE DEF head
    <3> QED BY <3>1, ChainType, EmptySeq
  <2>4. BytesOf(head)[1] = 1
    BY HeaderLog
  <2> HIDE DEF head
  <2>2. 1 \in Nat /\ 1 - 1 \in Nat /\ 1 - 1 = 0
    OBVIOUS
  <2>3. /\ fresh \in LogType
        /\ fresh.open /\ fresh.buffer = <<>> /\ fresh.byte_count = 1 /\ fresh.last_sequence = 1 - 1
        /\ fresh.chain = ChainOf(head, 1)
    BY <2>1, <2>2, <2>4, OpenedLogFacts DEF head
  <2> QED BY <2>2, <2>3
<1> HIDE DEF fresh
<1>2. /\ Snapshot(size).kind = "Snapshot" /\ Snapshot(size).sequence = 0 /\ Snapshot(size).payload = history
      /\ Snapshot(size).chain = Append(ChainOf(head, 1), history)
      /\ Snapshot(size) \in Piece /\ Snapshot(size).size = size /\ size \in Nat
  <2>1. Append(fresh.chain, history) \in Seq(Seq(Nat))
    <3>1. fresh.chain \in Seq(Seq(Nat))
      BY <1>1 DEF LogType
    <3> QED BY <3>1, AppendFacts
  <2>2. Snapshot(size) = [kind |-> "Snapshot", size |-> size, sequence |-> 0, chain |-> Append(fresh.chain, history),
                    payload |-> history]
    BY <1>1 DEF Snapshot, Stamped, fresh
  <2>3. size \in Nat
    BY JournalAssumption
  <2> QED BY <1>1, <2>1, <2>2, <2>3 DEF Piece, Kinds
<1> HIDE DEF Snapshot
<1>3. /\ image = Append(head, Snapshot(size)) /\ head \in Seq(Piece) /\ head # <<>> /\ Len(head) = 1
      /\ ValidPieces(head) = 1 /\ Recovered(head) = <<>> /\ OneSnapshot(head)
      /\ BytesOf(head)[1] = 1
  BY HeaderLog
<1> HIDE DEF head, image
<1>4. /\ image \in Seq(Piece) /\ Len(image) = 2 /\ ValidPieces(image) = 2 /\ OneSnapshot(image)
      /\ Recovered(image) = history /\ ChainOf(image, 2) = Snapshot(size).chain
      /\ BytesOf(image)[2] = 1 + size
  <2>1. /\ ValidPieces(head) = Len(head) /\ Snapshot(size).kind \notin {"Header", "Torn"}
        /\ Snapshot(size).sequence = Len(head) - 1
        /\ Snapshot(size).chain = Append(ChainOf(head, Len(head)), Snapshot(size).payload)
    BY <1>2, <1>3
  <2>2. /\ image \in Seq(Piece) /\ Len(image) = Len(head) + 1 /\ ValidPieces(image) = Len(image)
        /\ Recovered(image) = ReplayEntry(Recovered(head), Snapshot(size))
        /\ ChainOf(image, Len(image)) = Snapshot(size).chain
        /\ BytesOf(image)[Len(image)] = BytesOf(head)[Len(head)] + Snapshot(size).size
        /\ OneSnapshot(image)
    BY <1>2, <1>3, <2>1, NextRecord
  <2>3. ReplayEntry(Recovered(head), Snapshot(size)) = history
    BY <1>2 DEF ReplayEntry
  <2> QED BY <1>2, <1>3, <2>2, <2>3
<1>5. /\ taken.last_sequence = 1 /\ taken.byte_count = 1 + size /\ taken.chain = ChainOf(image, 2)
      /\ taken \in LogType
      /\ taken.open
  <2>1. /\ taken \in LogType /\ taken.open = fresh.open
        /\ taken.byte_count = fresh.byte_count + Snapshot(size).size
        /\ taken.last_sequence = Snapshot(size).sequence + 1 /\ taken.chain = Snapshot(size).chain
    BY <1>1, <1>2, CountedFacts
  <2> QED BY <1>1, <1>2, <1>4, <2>1
<1> HIDE DEF taken
<1>6. /\ counters.kind = "CountersSync" /\ counters.sequence = 1 /\ counters.payload = <<>>
      /\ counters.chain = Append(ChainOf(image, 2), <<>>)
      /\ counters \in Piece /\ counters.size = 1
  <2>1. taken.chain \in Seq(Seq(Nat)) /\ <<>> \in Seq(Nat)
    BY <1>5, EmptySeq DEF LogType
  <2>2. Append(taken.chain, <<>>) \in Seq(Seq(Nat))
    BY <2>1, AppendFacts
  <2> QED BY <1>5, <2>1, <2>2 DEF Stamped, Piece, Kinds
<1> HIDE DEF counters
<1>7. CompactedLog(size) = [Counted(taken, counters) EXCEPT !.buffer = <<counters>>]
  BY DEF CompactedLog, Snapshot, taken, counters, fresh
<1>8. /\ CompactedLog(size).buffer = <<counters>> /\ CompactedLog(size).byte_count = 2 + size
      /\ CompactedLog(size).last_sequence = 2 /\ CompactedLog(size).chain = counters.chain
      /\ CompactedLog(size).open
      /\ CompactedLog(size) \in LogType
  <2>1. <<counters>> \in Seq(Piece)
    BY <1>6
  <2> DEFINE b == <<counters>>
  <2>2. b \in Seq(Piece) /\ CompactedLog(size) = [Counted(taken, counters) EXCEPT !.buffer = b]
    BY <1>7, <2>1
  <2> HIDE DEF b
  <2>3. /\ CompactedLog(size) \in LogType
        /\ CompactedLog(size).open = taken.open /\ CompactedLog(size).buffer = b
        /\ CompactedLog(size).byte_count = taken.byte_count + counters.size
        /\ CompactedLog(size).last_sequence = counters.sequence + 1
        /\ CompactedLog(size).chain = counters.chain
    <3> DEFINE m == Counted(taken, counters)
    <3>1. /\ m.byte_count = taken.byte_count + counters.size /\ m.last_sequence = counters.sequence + 1
          /\ m.chain = counters.chain
          /\ \A d \in Seq(Piece) :
               LET e == [m EXCEPT !.buffer = d]
               IN  /\ e \in LogType /\ e.open = taken.open /\ e.buffer = d
                   /\ e.byte_count = m.byte_count /\ e.last_sequence = m.last_sequence
                   /\ e.chain = m.chain
      BY <1>5, <1>6, CountedFacts
    <3>2. CompactedLog(size) = [m EXCEPT !.buffer = b]
      BY <2>2
    <3> DEFINE e == [m EXCEPT !.buffer = b]
    <3> HIDE DEF m
    <3>3. /\ e \in LogType /\ e.open = taken.open /\ e.buffer = b
          /\ e.byte_count = m.byte_count /\ e.last_sequence = m.last_sequence
          /\ e.chain = m.chain
      BY <2>2, <3>1
    <3>4. CompactedLog(size) = e
      BY <3>2
    <3> HIDE DEF e
    <3> QED BY <3>1, <3>3, <3>4
  <2> QED BY <1>2, <1>5, <1>6, <2>3 DEF b
<1>9. whole = Append(image, counters)
  BY <1>4, <1>6, <1>8, SingleFacts
<1> HIDE DEF whole
<1>10. /\ whole \in Seq(Piece) /\ Len(whole) = 3 /\ ValidPieces(whole) = 3
       /\ Recovered(whole) = history /\ ChainOf(whole, 3) = counters.chain
       /\ BytesOf(whole)[3] = 2 + size
  <2>1. /\ ValidPieces(image) = Len(image) /\ image # <<>>
        /\ counters.kind \notin {"Header", "Torn"}
        /\ counters.sequence = Len(image) - 1
        /\ counters.chain = Append(ChainOf(image, Len(image)), counters.payload)
    <3>1. image # <<>>
      <4>1. image \in Seq(Piece) /\ Len(image) # 0
        BY <1>4
      <4> QED BY <4>1, EmptySeq
    <3>2. ChainOf(image, Len(image)) = ChainOf(image, 2) /\ Len(image) - 1 = 1
      BY <1>4
    <3> QED BY <1>4, <1>6, <3>1, <3>2
  <2>2. /\ whole \in Seq(Piece) /\ Len(whole) = Len(image) + 1 /\ ValidPieces(whole) = Len(whole)
        /\ Recovered(whole) = ReplayEntry(Recovered(image), counters)
        /\ ChainOf(whole, Len(whole)) = counters.chain
        /\ BytesOf(whole)[Len(whole)] = BytesOf(image)[Len(image)] + counters.size
    BY <1>4, <1>6, <1>9, <2>1, NextRecord
  <2>3. ReplayEntry(history, counters) = history
    <3>1. history \o <<>> = history
      BY ConcatEmptySeq
    <3> QED BY <1>6, <3>1 DEF ReplayEntry
  <2> QED BY <1>2, <1>4, <1>6, <2>2, <2>3
<1>11. /\ Len(CompactedLog(size).buffer) = 1 /\ CompactedLog(size).buffer[1].kind = "CountersSync"
       /\ CompactedLog(size).buffer[1].payload = <<>>
  BY <1>6, <1>8
<1>12. Bounded(image) /\ Bounded(whole)
  BY <1>2, <1>4, <1>10, JournalAssumption DEF Bounded
<1> QED BY <1>4, <1>8, <1>10, <1>11, <1>12 DEF image, whole

\* A compaction that gets as far as the rename.
LEMMA RenamedStep ==
  ASSUME Inv, log.open, up' = up, history' = history, issued' = issued,
         NEW size \in 1..MaxRecordBytes, file' = <<Header, Snapshot(size)>>,
         safe' = Len(file'), former' = {file \o log.buffer},
         log' \in {CompactedLog(size), ClosedLog},
         sure' = IF doubt = "failed" THEN sure ELSE Len(history),
         doubt' = IF doubt = "failed" THEN "rewritten" ELSE "none"
  PROVE  Inv' /\ Moves
<1>1. /\ TypeOK /\ Images /\ OneSnapshot(file) /\ Bounded(file) /\ Buffered
      /\ file # <<>> /\ (Continues \/ Lags) /\ up
      /\ file \in Seq(Piece) /\ issued \in Nat /\ history \in Seq(1..issued)
      /\ history \in Seq(Nat) /\ Recovered(file) \in Seq(1..issued)
      /\ (doubt # "failed" => Recovered(file) = history)
  BY OpenFacts
<1>2. /\ sure \in Nat /\ sure \in 0..Len(history) /\ doubt \in {"none", "failed", "rewritten"}
      /\ Len(history) \in Nat /\ history \in Seq(1..MaxIssued) /\ issued \in 0..MaxIssued
  <2>1. Len(history) \in Nat
    BY <1>1, LenProperties
  <2> QED BY <1>1, <2>1 DEF TypeOK
<1> DEFINE whole == file' \o CompactedLog(size).buffer
<1>3. /\ file' \in Seq(Piece) /\ Len(file') = 2 /\ ValidPieces(file') = 2
      /\ OneSnapshot(file') /\ Recovered(file') = history
      /\ whole \in Seq(Piece) /\ Len(whole) = 3 /\ ValidPieces(whole) = 3
      /\ Bounded(file') /\ Bounded(whole)
      /\ Recovered(whole) = history
      /\ CompactedLog(size).byte_count = BytesOf(whole)[3] /\ CompactedLog(size).last_sequence = 2
      /\ CompactedLog(size).chain = ChainOf(whole, 3)
      /\ CompactedLog(size).open
      /\ Len(CompactedLog(size).buffer) = 1
      /\ CompactedLog(size).buffer[1].kind = "CountersSync"
      /\ CompactedLog(size).buffer[1].payload = <<>>
      /\ CompactedLog(size) \in LogType
  BY <1>1, CompactedFacts
<1> HIDE DEF whole
<1>4. file' # <<>>
  BY <1>3, EmptySeq
<1>5. LogOK' /\ log' \in LogType
  <2>1. CASE log' = ClosedLog
    BY <2>1, ClosedIsOK, ClosedLogType DEF LogType
  <2>2. CASE log' = CompactedLog(size)
    <3>1. Written' = whole
      BY <2>2 DEF Written, whole
    <3>2. /\ log'.byte_count = BytesOf(whole)[Len(whole)] /\ Bounded(whole)
          /\ log'.last_sequence = Len(whole) - 1 /\ log'.chain = ChainOf(whole, Len(whole))
          /\ ValidPieces(whole) = Len(whole) /\ Recovered(whole) = history'
      BY <1>3, <1>4, <2>2
    <3>3. Continues'
      BY <3>1, <3>2 DEF Continues
    <3>4. Buffered'
      <4>1. \A i \in 1..Len(log'.buffer) : i = 1
        <5>1. Len(log'.buffer) = 1
          BY <1>3, <2>2
        <5> QED BY <5>1
      <4> QED BY <1>3, <2>2, <4>1 DEF Buffered
    <3> QED BY <1>3, <1>4, <2>2, <3>3, <3>4 DEF LogOK
  <2> QED BY <2>1, <2>2
<1>6. /\ Written \in Seq(Piece) /\ OneSnapshot(Written) /\ Bounded(Written)
      /\ Recovered(Written) = Recovered(file)
  <2>1. Written \in Seq(Piece)
    BY <1>1, Types
  <2>2. CASE Continues
    <3>1. /\ OneSnapshot(Written) /\ Recovered(file) = history /\ Recovered(Written) = history
          /\ ValidPieces(Written) = Len(Written) /\ Bounded(Written)
      BY <1>1, <2>2, ContinuesFacts DEF Continues
    <3> QED BY <2>1, <3>1
  <2>3. CASE Lags
    <3>1. Written = file
      BY <1>1, <2>3, ConcatEmptySeq DEF Lags, Written
    <3> QED BY <1>1, <3>1
  <2> QED BY <1>1, <2>2, <2>3, <2>1
<1>7. /\ Promised \in Seq(Nat) /\ IsPrefix(Promised, history) /\ IsPrefix(Promised, Recovered(file))
      /\ Len(Promised) = sure
  BY <1>1, PromisedFacts
<1>8. IsPrefix(Promised', history) /\ IsPrefix(Promised', Recovered(file))
  <2>1. CASE doubt = "failed"
    <3>1. Promised' = Promised
      BY <2>1 DEF Promised
    <3> QED BY <1>7, <3>1
  <2>2. CASE doubt # "failed"
    <3>1. Promised' = history
      <4>1. SubSeq(history, 1, Len(history)) = history
        BY <1>1, SubSeqFull
      <4> QED BY <2>2, <4>1 DEF Promised
    <3>2. IsPrefix(history, history)
      BY <1>1, PrefixReflexive
    <3> QED BY <1>1, <2>2, <3>1, <3>2
  <2> QED BY <2>1, <2>2
<1>9. Images'
  <2>1. ImageOK(file)'
    <3>1. Fits(history, history)
      BY <1>1, FitsItself
    <3> QED BY <1>1, <1>3, <1>4, <3>1 DEF ImageOK
  <2>2. IsPrefix(Promised', Recovered(SubSeq(file', 1, safe')))
    <3>1. SubSeq(file', 1, safe') = file'
      BY <1>3, SubSeqFull
    <3> QED BY <1>3, <1>8, <3>1
  <2>3. Fits(Recovered(file), history)
    BY <1>1 DEF Images, ImageOK
  <2>4. doubt' = "none" => IsPrefix(Recovered(Written), Recovered(file'))
    <3>1. IsPrefix(history, history)
      BY <1>1, PrefixReflexive
    <3> QED BY <1>1, <1>3, <1>6, <3>1
  <2>5. \A f \in former' : f = Written
    BY DEF Written
  <2>6. \A f \in former' :
          /\ ImageOK(f)' /\ Fits(Recovered(f), Recovered(file'))
          /\ IsPrefix(Promised', Recovered(f))
          /\ doubt' = "none" => IsPrefix(Recovered(f), Recovered(file'))
    BY <1>1, <1>3, <1>6, <1>8, <2>3, <2>4, <2>5 DEF ImageOK
  <2> QED BY <1>1, <2>1, <2>2, <2>6 DEF Images
<1>10. TypeOK'
  <2>1. safe' \in 0..Len(file') /\ former' \in SUBSET Seq(Piece)
    BY <1>3, <1>6 DEF Written
  <2>2. sure' \in 0..Len(history') /\ doubt' \in {"none", "failed", "rewritten"}
    BY <1>2
  <2> QED BY <1>1, <1>2, <1>3, <1>5, <2>1, <2>2 DEF TypeOK, LogType
<1>11. Moves
  <2>1. CASE doubt = "none"
    BY <1>1, <1>3, <2>1 DEF Moves, Settled
  <2>2. CASE doubt # "none"
    <3>1. sure <= sure'
      BY <1>2
    <3> QED BY <2>2, <3>1 DEF Moves, Doubted
  <2> QED BY <2>1, <2>2
<1> QED BY <1>5, <1>9, <1>10, <1>11 DEF Inv

LEMMA CompactsStep ==
  ASSUME Inv, Compacts
  PROVE  Inv' /\ Moves
<1>1. log.open /\ up' = up /\ history' = history /\ issued' = issued /\ up' \in BOOLEAN
  BY DEF Compacts, Inv, TypeOK
<1>2. CASE CutShort(<<>>) /\ log' = ClosedLog /\ doubt' = "failed" /\ UNCHANGED sure
  BY <1>1, <1>2, ClosingStep
<1>3. CASE Synced(<<>>) /\ log' = ClosedLog /\ Settles(history)
  BY <1>1, <1>3, ClosingStep
<1>4. CASE /\ \E size \in 1..MaxRecordBytes :
                /\ file' = <<Header, Snapshot(size)>>
                /\ log' \in {CompactedLog(size), ClosedLog}
           /\ safe' = Len(file')
           /\ former' = {file \o log.buffer}
           /\ sure' = IF doubt = "failed" THEN sure ELSE Len(history)
           /\ doubt' = IF doubt = "failed" THEN "rewritten" ELSE "none"
  BY <1>1, <1>4, RenamedStep
<1> QED BY <1>2, <1>3, <1>4 DEF Compacts

\* Nothing is written, and the log is closed.
LEMMA DroppedStep ==
  ASSUME Inv, log' = ClosedLog, up' = FALSE, UNCHANGED <<storage, history, issued, promises>>
  PROVE  Inv' /\ Moves
<1>1. /\ file' = file /\ safe' = safe /\ former' = former /\ history' = history
      /\ issued' = issued /\ sure' = sure /\ doubt' = doubt
  BY DEF storage, promises
<1>2. LogOK'
  BY ClosedIsOK
<1>3. TypeOK'
  BY <1>1, ClosedLogType DEF Inv, TypeOK
<1>4. Images'
  BY <1>1 DEF Inv, Images, ImageOK, Promised
<1>5. Unmoved
  BY <1>1 DEF Unmoved
<1> QED BY <1>2, <1>3, <1>4, <1>5 DEF Inv, Moves

LEMMA StopsStep ==
  ASSUME Inv, Stops
  PROVE  Inv' /\ Moves
<1>1. up' = FALSE /\ log' = ClosedLog /\ history' = history /\ issued' = issued
  BY DEF Stops
<1>2. CASE log.open /\ Synced(<<>>) /\ Settles(history)
  BY <1>1, <1>2, ClosingStep
<1>3. CASE log.open /\ CutShort(<<>>) /\ doubt' = "failed" /\ UNCHANGED sure
  BY <1>1, <1>3, ClosingStep
<1>4. CASE ~log.open /\ UNCHANGED <<storage, sure, doubt>>
  BY <1>1, <1>4, DroppedStep DEF storage, promises
<1> QED BY <1>2, <1>3, <1>4 DEF Stops

\* The power fails.
LEMMA LosesPowerStep ==
  ASSUME Inv, LosesPower
  PROVE  Inv' /\ Moves
<1>1. /\ up' = FALSE /\ log' = ClosedLog /\ safe' = Len(file') /\ former' = {} /\ doubt' = "none"
      /\ history' = history /\ issued' = issued /\ sure' = sure
  BY DEF LosesPower
<1>2. /\ TypeOK /\ Images /\ history \in Seq(1..issued) /\ issued \in Nat
      /\ file \in Seq(Piece) /\ OneSnapshot(file) /\ Bounded(file)
      /\ Recovered(file) \in Seq(1..issued) /\ Fits(Recovered(file), history)
      /\ history \in Seq(Nat) /\ Recovered(file) \in Seq(Nat)
      /\ safe \in 0..Len(file) /\ safe \in Nat /\ Len(file) \in Nat
      /\ Promised' = Promised /\ Promised \in Seq(Nat)
  BY <1>1, Types, RecoveredFacts, PromisedFacts DEF Inv, Images, ImageOK, Promised
<1>3. /\ file' \in Seq(Piece) /\ OneSnapshot(file') /\ Bounded(file')
      /\ Recovered(file') \in Seq(1..issued) /\ Fits(Recovered(file'), history)
      /\ IsPrefix(Promised, Recovered(file'))
      /\ doubt = "none" => IsPrefix(Recovered(file'), Recovered(file))
  <2>1. CASE file' \in former
    <3>1. \A f \in former :
            /\ f \in Seq(Piece) /\ OneSnapshot(f) /\ Bounded(f)
            /\ Recovered(f) \in Seq(1..issued) /\ Fits(Recovered(f), history)
            /\ IsPrefix(Promised, Recovered(f))
            /\ doubt = "none" => IsPrefix(Recovered(f), Recovered(file))
      BY <1>2, Types DEF Images, ImageOK
    <3> QED BY <2>1, <3>1
  <2>2. CASE \E n \in safe..Len(file), torn \in {<<>>, <<Torn>>} :
               /\ torn # <<>> => n < Len(file)
               /\ file' = SubSeq(file, 1, n) \o torn
    <3>1. PICK n \in safe..Len(file), torn \in {<<>>, <<Torn>>} :
            file' = SubSeq(file, 1, n) \o torn
      BY <2>2
    <3>2. n \in 0..Len(file) /\ n \in Nat /\ safe <= n
      BY <1>2
    <3>3. IsCut(file, n, torn, file')
      BY <1>2, <3>1, <3>2, CutLog
    <3> DEFINE v == ValidPieces(file)
    <3> DEFINE kept == IF n <= v THEN n ELSE v
    <3> DEFINE low == IF safe <= v THEN safe ELSE v
    <3>4. v \in 0..Len(file) /\ v \in Nat
      BY <1>2, ValidFacts
    <3>5. kept \in 0..v /\ low \in 0..Len(file) /\ kept \in low..Len(file) /\ kept <= v /\ kept \in Nat
      BY <1>2, <3>2, <3>4
    <3> HIDE DEF kept, low, v
    <3>6. /\ file' \in Seq(Piece) /\ ValidPieces(file') = kept /\ OneSnapshot(file')
          /\ Bounded(file')
          /\ Recovered(file') = Replayed(file)[kept]
      BY <1>2, <3>3 DEF IsCut, kept, v
    <3>8. IsPrefix(Recovered(file'), Recovered(file)) /\ Recovered(file') \in Seq(Nat)
      BY <1>2, <3>5, <3>6, ReadOfCut, RecoveredFacts DEF v
    <3>9. Recovered(file') \in Seq(1..issued)
      BY <1>2, <3>8, PrefixInSeq
    <3>10. Fits(Recovered(file'), history)
      BY <1>2, <3>8, FitsPrefix
    <3>11. IsPrefix(Promised, Recovered(file'))
      <4>1. Durable = Replayed(file)[low] /\ Durable \in Seq(Nat)
        BY <1>2, DurableFacts DEF low, v
      <4>2. IsPrefix(Replayed(file)[low], Replayed(file)[kept])
        BY <1>2, <3>5, ReplayedGrows
      <4>3. IsPrefix(Promised, Durable)
        BY <1>2, PromisedFacts
      <4> QED BY <1>2, <3>6, <3>8, <4>1, <4>2, <4>3, PrefixTransitive
    <3> QED BY <3>6, <3>8, <3>9, <3>10, <3>11
  <2> QED BY <2>1, <2>2 DEF LosesPower
<1>4. Images'
  BY <1>1, <1>2, <1>3, SyncedImages
<1>5. LogOK'
  BY <1>1, ClosedIsOK
<1>6. TypeOK'
  <2>1. safe' \in 0..Len(file')
    BY <1>1, <1>3, LenProperties
  <2> QED BY <1>1, <1>2, <1>3, <2>1, ClosedLogType DEF TypeOK
<1>7. Moves
  <2>1. CASE doubt = "none"
    BY <1>1, <1>3, <2>1 DEF Moves, Lost
  <2>2. CASE doubt # "none"
    <3>1. sure <= sure'
      BY <1>1, <1>2 DEF TypeOK
    <3> QED BY <1>1, <2>2, <3>1 DEF Moves, Doubted
  <2> QED BY <2>1, <2>2
<1> QED BY <1>4, <1>5, <1>6, <1>7 DEF Inv

\* Every step keeps the invariant, and moves the log in one of the ways above.
LEMMA StepKeeps ==
  ASSUME Inv, [Next]_vars
  PROVE  Inv' /\ Moves
<1>1. CASE StartsFresh BY <1>1, StartsFreshStep
<1>2. CASE StartsAgain BY <1>2, StartsAgainStep
<1>3. CASE Stops BY <1>3, StopsStep
<1>4. CASE Appends BY <1>4, AppendsStep
<1>5. CASE Compacts BY <1>5, CompactsStep
<1>6. CASE Crashes BY <1>6, DroppedStep DEF Crashes
<1>7. CASE LosesPower BY <1>7, LosesPowerStep
<1>8. CASE UNCHANGED vars
  <2>1. /\ file' = file /\ safe' = safe /\ former' = former /\ up' = up /\ log' = log
        /\ history' = history /\ issued' = issued /\ sure' = sure /\ doubt' = doubt
    BY <1>8 DEF vars, storage, promises
  <2>2. TypeOK' /\ Images'
    BY <2>1 DEF Inv, TypeOK, Images, ImageOK, Promised
  <2>3. LogOK'
    BY <2>1 DEF Inv, LogOK, Buffered, Continues, Lags, Written
  <2>4. Unmoved
    BY <2>1 DEF Unmoved
  <2> QED BY <2>2, <2>3, <2>4 DEF Inv, Moves
<1> QED BY <1>1, <1>2, <1>3, <1>4, <1>5, <1>6, <1>7, <1>8 DEF Next

LEMMA Start ==
  ASSUME Init
  PROVE  Inv
<1> DEFINE e == <<>>
<1>1. e \in Seq(Piece) /\ e \in Seq(Nat) /\ e \in Seq(1..MaxIssued) /\ e \in Seq(1..issued) /\ Len(e) = 0
  BY EmptySeq
<1>2. /\ file = e /\ safe = 0 /\ former = {} /\ up = FALSE /\ log = ClosedLog
      /\ history = e /\ issued = 0 /\ sure = 0 /\ doubt = "none"
  BY DEF Init
<1> HIDE DEF e
<1>3. ValidPieces(e) = 0 /\ Recovered(e) = e /\ SubSeq(e, 1, 0) = e
  <2>1. ValidPieces(e) \in 0..Len(e)
    BY <1>1, ValidFacts
  <2>2. Recovered(e) = <<>>
    <3>1. Len(e) <= 1
      BY <1>1
    <3> QED BY <1>1, <3>1, RecoveredFacts
  <2>3. SubSeq(e, 1, 0) = e
    <3>1. 0 \in 0..Len(e)
      BY <1>1
    <3>2. SubSeq(e, 1, 0) \in Seq(Nat) /\ Len(SubSeq(e, 1, 0)) = 0
      BY <1>1, <3>1, CutFacts
    <3> QED BY <1>1, <3>2, EmptySeq
  <2> QED BY <1>1, <2>1, <2>2, <2>3 DEF e
<1>4. OneSnapshot(e) /\ Bounded(e)
  <2>1. BytesOf(e)[0] = 0
    BY <1>1, BytesGrow
  <2> QED BY <1>1, <1>3, <2>1, JournalAssumption DEF OneSnapshot, Bounded
<1>5. IsPrefix(e, e) /\ Fits(e, e)
  BY <1>1, PrefixReflexive, FitsItself
<1>6. TypeOK
  <2>1. /\ safe \in 0..Len(file) /\ sure \in 0..Len(history) /\ issued \in 0..MaxIssued
    BY <1>1, <1>2, JournalAssumption
  <2>2. /\ former \in SUBSET Seq(Piece) /\ up \in BOOLEAN /\ doubt \in {"none", "failed", "rewritten"}
        /\ file \in Seq(Piece) /\ history \in Seq(1..MaxIssued)
    BY <1>1, <1>2
  <2>3. /\ log \in [open : BOOLEAN, buffer : Seq(Piece), byte_count : Nat, record_count : Nat,
                     last_sequence : Nat, chain : Seq(Seq(Nat))]
        /\ ~log.open
    BY <1>2, ClosedLogType
  <2> QED BY <2>1, <2>2, <2>3 DEF TypeOK
<1>7. Images
  <2>1. ImageOK(file)
    BY <1>1, <1>2, <1>3, <1>4, <1>5 DEF ImageOK
  <2>2. IsPrefix(Promised, Recovered(SubSeq(file, 1, safe)))
    BY <1>2, <1>3, <1>5 DEF Promised
  <2> QED BY <1>1, <1>2, <2>1, <2>2 DEF Images
<1>8. LogOK
  <2>1. log.buffer = <<>> /\ ~log.open
    BY <1>2, ClosedLogType
  <2>2. Buffered
    <3>1. Len(log.buffer) = 0
      BY <2>1, EmptySeq
    <3> QED BY <3>1 DEF Buffered
  <2> QED BY <1>2, <2>1, <2>2 DEF LogOK
<1> QED BY <1>6, <1>7, <1>8 DEF Inv

-------------------------------------------------------------------------------
(* What is proved *)

\* The invariant holds in every state the journal can come to.
THEOREM Invariance == Spec => []Inv
<1>1. Init => Inv
  BY Start
<1>2. Inv /\ [Next]_vars => Inv'
  BY StepKeeps
<1> QED BY <1>1, <1>2, PTL DEF Spec

\* The journal's state keeps its types: no count goes wrong.
THEOREM TypesOfJournal == Spec => []TypeOK
<1>1. Inv => TypeOK
  BY DEF Inv
<1> QED BY <1>1, Invariance, PTL

\* Journal::append and its sync: what was reported durable, with no failed append before
\* it since the log was opened or compacted, is found by the next start, whatever
\* short write, failed sync, crash or loss of power came after it, and in between.
THEOREM PromisesHold == Spec => []PromisesSurvive
<1>1. Inv => PromisesSurvive
  <2>1. SUFFICES ASSUME Inv PROVE IsPrefix(Promised, Recovered(file))
    BY DEF PromisesSurvive, Promised
  <2>2. TypeOK /\ Images
    BY <2>1 DEF Inv
  <2> QED BY <2>2, PromisedFacts
<1> QED BY <1>1, Invariance, PTL

\* replay_journal: a start makes nothing up and skips nothing.  What it reads is a
\* beginning of what the engine did, and after it at most one transition of which the
\* engine was told that it had failed.
THEOREM ReplaysHistory == Spec => []OnlyHistoryReplays
<1>1. Inv => OnlyHistoryReplays
  BY DEF Inv, Images, ImageOK, Fits, OnlyHistoryReplays
<1> QED BY <1>1, Invariance, PTL

\* Journal::open and maybe_compact: the counts and the chain of an open log are those
\* that a scan of the file ends with, so what is appended is read again.
THEOREM AppendsAreRead == Spec => []AppendsLandInReach
<1>1. Inv => AppendsLandInReach
  <2>1. SUFFICES ASSUME Inv, log.open, doubt # "failed"
                 PROVE  Continues
    BY DEF AppendsLandInReach, Continues, Written
  <2> QED BY <2>1, OpenFacts DEF Lags
<1> QED BY <1>1, Invariance, PTL

\* Journal::should_compact is asked before a record is written: the count of an open
\* log is the size of the log, and passes the bound by less than the largest record.
THEOREM BytesStayBounded == Spec => []BytesAreBounded
<1>1. Inv => BytesAreBounded
  <2>1. SUFFICES ASSUME Inv, log.open, doubt # "failed"
                 PROVE  /\ log.byte_count = BytesOf(Written)[Len(Written)]
                        /\ log.byte_count < MaxBytes + MaxRecordBytes
    BY DEF BytesAreBounded, Written
  <2>2. Continues
    BY <2>1, OpenFacts DEF Lags
  <2> QED BY <2>2 DEF Continues, Bounded
<1> QED BY <1>1, Invariance, PTL

\* What the log it stands for knows of the file: what waits in the buffer is not read,
\* and what is promised is.
ReadBack ==
  /\ Recovered(Written) = Recovered(file) /\ Recovered(file) \in Seq(Nat)
  /\ Promised \in Seq(Nat) /\ Len(Promised) = sure /\ IsPrefix(Promised, Recovered(file))
  /\ sure \in Nat /\ sure <= Len(Recovered(file)) /\ Len(Recovered(file)) \in Nat

LEMMA WhatIsRead ==
  ASSUME Inv
  PROVE  ReadBack
<1>1. Recovered(Written) = Recovered(file)
  <2>1. CASE log.open
    <3>1. TypeOK /\ OneSnapshot(file) /\ Buffered /\ file # <<>> /\ (Continues \/ Lags)
      BY <2>1, OpenFacts
    <3>2. CASE Continues
      BY <3>1, <3>2, ContinuesFacts DEF Continues
    <3>3. CASE Lags
      BY <3>1, <3>3, Types, ConcatEmptySeq DEF Lags, Written
    <3> QED BY <3>1, <3>2, <3>3
  <2>2. CASE ~log.open
    <3>1. log.buffer = <<>> /\ file \in Seq(Piece)
      BY <2>2, ClosedLogType, Types DEF Inv, LogOK
    <3> QED BY <3>1, ConcatEmptySeq DEF Written
  <2> QED BY <2>1, <2>2
<1>2. /\ Recovered(file) \in Seq(Nat)
      /\ Promised \in Seq(Nat) /\ Len(Promised) = sure /\ IsPrefix(Promised, Recovered(file))
      /\ sure \in Nat /\ sure <= Len(Recovered(file))
  BY PromisedFacts DEF Inv
<1>3. Len(Recovered(file)) \in Nat
  BY <1>2, LenProperties
<1> QED BY <1>1, <1>2, <1>3 DEF ReadBack

\* Each move of the file is a step of the log it stands for, or none.
LEMMA MovesAreSteps ==
  ASSUME ReadBack, ReadBack', TypeOK, TypeOK', Moves
  PROVE  [Abstract!RecordLogNext]_(Abstract!recordLog)
<1> PICK q, p : q = Recovered(file) /\ p = Recovered(file')
  OBVIOUS
<1>1. /\ Recovered(file \o log.buffer) = q /\ Recovered(file' \o log'.buffer) = p
      /\ Recovered(file) = q /\ Recovered(file') = p
  BY DEF ReadBack, Written
<1>2. /\ q \in Seq(Nat) /\ p \in Seq(Nat) /\ sure \in 0..Len(q) /\ sure' \in 0..Len(p)
      /\ sure \in Nat /\ sure' \in Nat /\ Len(q) \in Nat /\ Len(p) \in Nat
      /\ Promised = SubSeq(q, 1, sure) /\ Promised' = SubSeq(p, 1, sure')
  <2>1. /\ q \in Seq(Nat) /\ sure \in Nat /\ sure <= Len(q) /\ Len(q) \in Nat
        /\ Promised \in Seq(Nat) /\ Len(Promised) = sure /\ IsPrefix(Promised, q)
    BY <1>1 DEF ReadBack
  <2>2. /\ p \in Seq(Nat) /\ sure' \in Nat /\ sure' <= Len(p) /\ Len(p) \in Nat
        /\ Promised' \in Seq(Nat) /\ Len(Promised') = sure' /\ IsPrefix(Promised', p)
    BY <1>1 DEF ReadBack
  <2>3. Promised = SubSeq(q, 1, sure)
    <3>1. Promised = SubSeq(q, 1, Len(Promised))
      BY <2>1, PrefixInSeq
    <3> QED BY <2>1, <3>1
  <2>4. Promised' = SubSeq(p, 1, sure')
    <3>1. PICK s : s = Promised'
      OBVIOUS
    <3>2. s \in Seq(Nat) /\ IsPrefix(s, p)
      BY <2>2, <3>1
    <3>3. s = SubSeq(p, 1, Len(s))
      BY <2>2, <3>2, PrefixInSeq
    <3> QED BY <2>2, <3>1, <3>3
  <2> QED BY <2>1, <2>2, <2>3, <2>4
<1>3. CASE Unmoved
  BY <1>1, <1>3 DEF Unmoved, Abstract!recordLog
<1>4. CASE Recorded
  <2>1. PICK e \in 1..MaxIssued : p = Append(q, e)
    BY <1>1, <1>4 DEF Recorded
  <2>2. Abstract!Accept(e)
    BY <1>1, <1>4, <2>1 DEF Recorded, Abstract!Accept
  <2> QED BY <2>2 DEF Abstract!RecordLogNext
<1>5. CASE Settled
  <2>1. Abstract!Settle
    BY <1>1, <1>5 DEF Settled, Abstract!Settle
  <2> QED BY <2>1 DEF Abstract!RecordLogNext
<1>6. CASE Lost
  <2>1. /\ doubt = "none" /\ doubt' = "none" /\ IsPrefix(p, q) /\ sure' = sure
    BY <1>1, <1>6 DEF Lost
  <2>2. p = SubSeq(q, 1, Len(p)) /\ Len(p) \in 0..Len(q)
    BY <1>2, <2>1, PrefixInSeq
  <2>3. Len(p) \in sure..Len(q)
    BY <1>2, <2>1, <2>2
  <2>4. Abstract!Lose(Len(p))
    BY <1>1, <2>1, <2>2, <2>3 DEF Abstract!Lose
  <2> QED BY <1>1, <2>3, <2>4 DEF Abstract!RecordLogNext
<1>7. CASE Doubted
  <2>1. /\ doubt # "none" \/ doubt' # "none"
        /\ sure <= sure'
        /\ SubSeq(history', 1, sure) = SubSeq(history, 1, sure)
    BY <1>7 DEF Doubted
  <2>2. IsPrefix(SubSeq(q, 1, sure), p)
    <3>1. SubSeq(history', 1, sure) = SubSeq(q, 1, sure)
      BY <1>2, <2>1 DEF Promised
    <3>2. /\ history' \in Seq(Nat) /\ Promised' = SubSeq(history', 1, sure') /\ sure' \in 0..Len(history')
      <4>1. history' \in Seq(1..MaxIssued) /\ sure' \in 0..Len(history') /\ MaxIssued \in Nat
        BY JournalAssumption DEF TypeOK
      <4>2. history' \in Seq(Nat)
        BY <4>1, Issued
      <4> QED BY <4>1, <4>2 DEF Promised
    <3>3. SubSeq(history', 1, sure) = SubSeq(SubSeq(history', 1, sure'), 1, sure)
      <4>1. /\ SubSeq(history', 1, sure') \in Seq(Nat) /\ Len(SubSeq(history', 1, sure')) = sure'
        BY <3>2, CutFacts
      <4>2. IsPrefix(SubSeq(history', 1, sure'), history')
        BY <3>2, PrefixOf
      <4>3. sure \in 0..Len(SubSeq(history', 1, sure'))
        <5>1. PICK k : k = Len(SubSeq(history', 1, sure'))
          OBVIOUS
        <5>2. k = sure' /\ sure <= sure' /\ sure \in Nat /\ sure' \in Nat
          BY <1>2, <2>1, <4>1, <5>1
        <5>3. sure \in 0..k
          BY <5>2
        <5> QED BY <5>1, <5>3
      <4> QED BY <3>2, <4>1, <4>2, <4>3, FrontOfGrown
    <3>4. SubSeq(q, 1, sure) = SubSeq(p, 1, sure)
      <4>1. IsPrefix(SubSeq(p, 1, sure'), p) /\ SubSeq(p, 1, sure') \in Seq(Nat)
            /\ Len(SubSeq(p, 1, sure')) = sure'
        BY <1>2, PrefixOf, CutFacts
      <4>2. sure \in 0..Len(SubSeq(p, 1, sure'))
        <5>1. PICK k : k = Len(SubSeq(p, 1, sure'))
          OBVIOUS
        <5>2. k = sure' /\ sure <= sure' /\ sure \in Nat /\ sure' \in Nat
          BY <1>2, <2>1, <4>1, <5>1
        <5>3. sure \in 0..k
          BY <5>2
        <5> QED BY <5>1, <5>3
      <4>3. SubSeq(p, 1, sure) = SubSeq(SubSeq(p, 1, sure'), 1, sure)
        BY <1>2, <4>1, <4>2, FrontOfGrown
      <4> QED BY <1>2, <3>1, <3>2, <3>3, <4>3
    <3>5. sure \in 0..Len(p)
      BY <1>2, <2>1
    <3> QED BY <1>2, <3>4, <3>5, PrefixOf
  <2>3. sure' \in sure..Len(p)
    BY <1>2, <2>1
  <2>4. Abstract!Doubt
    <3>1. /\ IsPrefix(SubSeq(Recovered(file \o log.buffer), 1, sure), Recovered(file' \o log'.buffer))
          /\ sure' \in sure..Len(Recovered(file' \o log'.buffer))
      BY <1>1, <2>2, <2>3
    <3>2. (doubt # "none") \/ (doubt # "none")'
      BY <2>1
    <3>3. (doubt # "none")' \in BOOLEAN
      OBVIOUS
    <3> QED BY <3>1, <3>2, <3>3 DEF Abstract!Doubt, Abstract!IsPrefix, IsPrefix
  <2> QED BY <2>4 DEF Abstract!RecordLogNext
<1> QED BY <1>3, <1>4, <1>5, <1>6, <1>7 DEF Moves

\* The journal implements the log that the engine relies on: entries are taken in order,
\* what was acknowledged is never lost, and of the rest only a tail goes.
THEOREM Implementation == Spec => ImplementsRecordLog
<1>1. Init => Abstract!RecordLogInit
  <2>1. SUFFICES ASSUME Init PROVE Abstract!RecordLogInit
    OBVIOUS
  <2>2. file = <<>> /\ log.buffer = <<>> /\ sure = 0 /\ doubt = "none"
    BY <2>1 DEF Init, ClosedLog
  <2>3. ReadBack
    BY <2>1, Start, WhatIsRead
  <2>4. Recovered(<<>>) = <<>>
    <3> DEFINE e == <<>>
    <3>1. e \in Seq(Piece) /\ Len(e) <= 1
      BY EmptySeq
    <3> HIDE DEF e
    <3>2. Recovered(e) = <<>>
      BY <3>1, RecoveredFacts
    <3> QED BY <3>2 DEF e
  <2>5. Recovered(file \o log.buffer) = <<>>
    BY <2>2, <2>3, <2>4 DEF ReadBack, Written
  <2> QED BY <2>2, <2>5 DEF Abstract!RecordLogInit
<1>2. Inv => TypeOK /\ ReadBack
  BY WhatIsRead DEF Inv
<1>3. Inv /\ [Next]_vars => Moves
  BY StepKeeps
<1>4. ReadBack /\ ReadBack' /\ TypeOK /\ TypeOK' /\ Moves
        => [Abstract!RecordLogNext]_(Abstract!recordLog)
  BY MovesAreSteps
<1> QED BY <1>1, <1>2, <1>3, <1>4, Invariance, PTL
           DEF Spec, ImplementsRecordLog, Abstract!RecordLogSpec
===============================================================================
