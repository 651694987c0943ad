-------------------------- MODULE EventStoreProofs --------------------------
(***************************************************************************)
(* Proofs about EventStore and MessageEventStore, for any events, types,   *)
(* readers and lengths of lists.                                           *)
(***************************************************************************)
EXTENDS MessageEventStore, SequenceTheorems, WellFoundedInduction, TLAPS

-----------------------------------------------------------------------------
(* Loops.                                                                  *)

LEMMA LeastMember ==
  ASSUME NEW S \in SUBSET Nat, S # {}
  PROVE  \E d \in S : \A c \in S : d <= c
<1> DEFINE Less == { pair \in Nat \X Nat : pair[1] < pair[2] }
<1>1. IsWellFoundedOn(Less, Nat)
  BY NatLessThanWellFounded, Zenon DEF OpToRel
<1> HIDE DEF Less
<1>2. PICK d \in S : \A c \in S : ~(<<c, d>> \in Less)
  BY <1>1, WFMin, Zenon
<1>3. ASSUME NEW c \in S PROVE d <= c
  <2>1. c \in Nat /\ d \in Nat
    OBVIOUS
  <2>2. ~ (c < d)
    BY <1>2, <2>1 DEF Less
  <2> QED
    BY <2>1, <2>2
<1> QED
  BY <1>3

(* Induction up to a number, for the members of a set.                     *)
LEMMA UpTo ==
  ASSUME NEW N \in Nat, NEW P, 0 \in P, \A n \in 1 .. N : n - 1 \in P => n \in P
  PROVE  0 .. N \subseteq P /\ N \in P
<1>1. SUFFICES ASSUME (0 .. N) \ P # {} PROVE FALSE
  <2>1. N \in 0 .. N
    OBVIOUS
  <2> QED
    BY <2>1, Zenon
<1> DEFINE D == (0 .. N) \ P
<1>2. PICK d \in D : \A c \in D : d <= c
  <2>1. D \in SUBSET Nat /\ D # {}
    BY <1>1
  <2> HIDE DEF D
  <2> QED
    BY <2>1, LeastMember
<1>3. d \in 1 .. N /\ d - 1 \in 0 .. N
  OBVIOUS
<1>4. d - 1 \in P
  BY <1>2, <1>3
<1> QED
  BY <1>3, <1>4

(* A loop has run: what it has after each turn.                            *)
Runs(f, N, base, step) ==
  /\ f[0] = base
  /\ \A n \in 1 .. N : f[n] = step[n][f[n - 1]]

(* A loop whose turns make values from values has them after every turn.   *)
LEMMA LoopRuns ==
  ASSUME NEW N \in Nat, NEW S, NEW base \in S, NEW step \in [1 .. N -> [S -> S]]
  PROVE  \E f \in [0 .. N -> S] : Runs(f, N, base, step)
<1> DEFINE P == { n \in 0 .. N : \E f \in [0 .. n -> S] : Runs(f, n, base, step) }
<1>1. 0 \in P
  <2> DEFINE f == [i \in 0 .. 0 |-> base]
  <2>1. f \in [0 .. 0 -> S] /\ Runs(f, 0, base, step)
    BY DEF Runs
  <2> QED
    BY <2>1
<1>2. ASSUME NEW n \in 1 .. N, n - 1 \in P PROVE n \in P
  <2>1. PICK f \in [0 .. n - 1 -> S] : Runs(f, n - 1, base, step)
    BY <1>2
  <2> DEFINE next == step[n][f[n - 1]]
             g == [i \in 0 .. n |-> IF i = n THEN next ELSE f[i]]
  <2>2. next \in S
    OBVIOUS
  <2>3. g \in [0 .. n -> S]
    BY <2>2
  <2>4. Runs(g, n, base, step)
    <3>1. g[0] = base
      BY <2>1 DEF Runs
    <3>2. g[n] = step[n][g[n - 1]]
      BY <2>1
    <3>3. ASSUME NEW i \in 1 .. n, i # n PROVE g[i] = step[i][g[i - 1]]
      <4>1. i \in 1 .. n - 1 /\ i - 1 \in 0 .. n - 1
        BY <3>3
      <4>2. f[i] = step[i][f[i - 1]]
        BY <2>1, <4>1 DEF Runs
      <4>3. g[i] = f[i] /\ g[i - 1] = f[i - 1]
        BY <4>1
      <4> QED
        BY <4>2, <4>3
    <3> QED
      BY <3>1, <3>2, <3>3 DEF Runs
  <2> QED
    BY <2>3, <2>4
<1> HIDE DEF P
<1>3. 0 .. N \subseteq P
  BY <1>1, <1>2, UpTo
<1> QED
  BY <1>3 DEF P

-----------------------------------------------------------------------------
(* The events of a type.                                                   *)

(* The turns of OfType.                                                    *)
Selects(f, s, t) ==
  /\ f[0] = <<>>
  /\ \A n \in 1 .. Len(s) :
       f[n] = IF TypeOf[s[n]] = t THEN Append(f[n - 1], s[n]) ELSE f[n - 1]
  /\ \A n \in 0 .. Len(s) : f[n] \in Seq(Events)

LEMMA OfTypeRuns ==
  ASSUME NEW s \in Seq(Events), NEW t
  PROVE  \E f : Selects(f, s, t) /\ OfType(s, t) = f[Len(s)]
<1> DEFINE N == Len(s)
           step == [n \in 1 .. N |-> [a \in Seq(Events) |->
                      IF TypeOf[s[n]] = t THEN Append(a, s[n]) ELSE a]]
           Turn(h, n) == IF n = 0 THEN <<>>
                         ELSE IF TypeOf[s[n]] = t THEN Append(h[n - 1], s[n])
                                                  ELSE h[n - 1]
           Is(h) == h = [n \in 0 .. N |-> Turn(h, n)]
           g == CHOOSE h : Is(h)
<1>1. N \in Nat /\ (\A n \in 1 .. N : s[n] \in Events) /\ <<>> \in Seq(Events)
  BY ElementOfSeq, LenProperties
<1>2. OfType(s, t) = g[N]
  BY DEF OfType
<1> HIDE DEF N, g
<1>3. step \in [1 .. N -> [Seq(Events) -> Seq(Events)]]
  BY <1>1
<1>4. \E f : Is(f)
  <2>1. PICK f \in [0 .. N -> Seq(Events)] : Runs(f, N, <<>>, step)
    <3> HIDE DEF step
    <3> QED
      BY <1>1, <1>3, LoopRuns
  <2>2. ASSUME NEW n \in 1 .. N PROVE f[n] = Turn(f, n)
    <3>1. n \in 1 .. N /\ f[n - 1] \in Seq(Events)
      BY <1>1
    <3>2. f[n] = step[n][f[n - 1]]
      BY <2>1, <3>1 DEF Runs
    <3> QED
      BY <3>1, <3>2, <1>1
  <2>3. ASSUME NEW n \in 0 .. N PROVE f[n] = Turn(f, n)
    <3>1. f[0] = <<>>
      BY <2>1 DEF Runs
    <3>2. CASE n = 0
      BY <3>1, <3>2
    <3>3. CASE n # 0
      <4>1. n \in 1 .. N
        BY <1>1, <3>3
      <4> HIDE DEF Turn
      <4> QED
        BY <2>2, <4>1
    <3> QED
      BY <3>2, <3>3
  <2>4. Is(f)
    BY <2>3
  <2> QED
    BY <2>4
<1>5. Is(g)
  BY <1>4 DEF g
<1>6. ASSUME NEW n \in 0 .. N PROVE g[n] = Turn(g, n)
  BY <1>5
<1>7. g[0] = <<>> /\ \A n \in 1 .. N : g[n] = Turn(g, n)
  BY <1>1, <1>6
<1>8. 0 .. N \subseteq { n \in 0 .. N : g[n] \in Seq(Events) }
  <2> DEFINE P == { n \in 0 .. N : g[n] \in Seq(Events) }
  <2>1. 0 \in P
    <3>1. g[0] \in Seq(Events)
      BY <1>7
    <3> QED
      BY <1>1, <3>1
  <2>2. ASSUME NEW n \in 1 .. N, n - 1 \in P PROVE n \in P
    <3>1. g[n - 1] \in Seq(Events) /\ s[n] \in Events /\ n \in 0 .. N
      BY <1>1, <2>2
    <3>2. g[n] = Turn(g, n)
      BY <1>7
    <3>3. Turn(g, n) \in Seq(Events)
      BY <3>1
    <3> QED
      BY <3>1, <3>2, <3>3
  <2> HIDE DEF P
  <2> QED
    BY <1>1, <2>1, <2>2, UpTo DEF P
<1>9. Selects(g, s, t)
  BY <1>7, <1>8 DEF Selects, N
<1> QED
  BY <1>2, <1>9 DEF N

LEMMA OfTypeEmpty ==
  ASSUME NEW t
  PROVE  OfType(<<>>, t) = <<>>
<1> DEFINE none == <<>>
<1>1. none \in Seq(Events) /\ Len(none) = 0
  OBVIOUS
<1> HIDE DEF none
<1>2. PICK f : Selects(f, none, t) /\ OfType(none, t) = f[Len(none)]
  BY <1>1, OfTypeRuns
<1>3. OfType(none, t) = <<>>
  BY <1>1, <1>2 DEF Selects
<1> QED
  BY <1>3 DEF none

LEMMA OfTypeSeq ==
  ASSUME NEW s \in Seq(Events), NEW t
  PROVE  OfType(s, t) \in Seq(Events)
<1>1. Len(s) \in Nat
  OBVIOUS
<1> QED
  BY <1>1, OfTypeRuns DEF Selects

LEMMA OfTypeAppend ==
  ASSUME NEW s \in Seq(Events), NEW e \in Events, NEW t
  PROVE  OfType(Append(s, e), t) =
           IF TypeOf[e] = t THEN Append(OfType(s, t), e) ELSE OfType(s, t)
<1> DEFINE N == Len(s)
           r == Append(s, e)
<1>1. /\ N \in Nat /\ r \in Seq(Events) /\ Len(r) = N + 1
      /\ r[N + 1] = e /\ \A n \in 1 .. N : r[n] = s[n]
  BY AppendProperties
<1>2. PICK f : Selects(f, s, t) /\ OfType(s, t) = f[N]
  BY OfTypeRuns
<1> HIDE DEF N, r
<1>3. PICK g : Selects(g, r, t) /\ OfType(r, t) = g[N + 1]
  BY <1>1, OfTypeRuns
<1>4. 0 .. N \subseteq { n \in 0 .. N : g[n] = f[n] }
  <2> DEFINE P == { n \in 0 .. N : g[n] = f[n] }
  <2>1. 0 \in P
    BY <1>1, <1>2, <1>3 DEF Selects
  <2>2. ASSUME NEW n \in 1 .. N, n - 1 \in P PROVE n \in P
    <3>1. n \in 1 .. N + 1 /\ g[n - 1] = f[n - 1] /\ r[n] = s[n]
      BY <1>1, <2>2
    <3>2. f[n] = IF TypeOf[s[n]] = t THEN Append(f[n - 1], s[n]) ELSE f[n - 1]
      BY <1>2 DEF Selects, N
    <3>3. g[n] = IF TypeOf[r[n]] = t THEN Append(g[n - 1], r[n]) ELSE g[n - 1]
      BY <1>1, <1>3, <3>1 DEF Selects
    <3> QED
      BY <3>1, <3>2, <3>3
  <2> HIDE DEF P
  <2> QED
    BY <1>1, <2>1, <2>2, UpTo DEF P
<1>5. g[N] = f[N]
  BY <1>1, <1>4
<1>6. g[N + 1] = IF TypeOf[e] = t THEN Append(g[N], e) ELSE g[N]
  <2>1. N + 1 \in 1 .. Len(r) /\ (N + 1) - 1 = N
    BY <1>1
  <2> QED
    BY <1>1, <1>3, <2>1 DEF Selects
<1> QED
  BY <1>2, <1>3, <1>5, <1>6 DEF r

(* The beginnings of a list, one element at a time.                        *)
LEMMA Beginnings ==
  ASSUME NEW S, NEW s \in Seq(S)
  PROVE  /\ Len(s) \in Nat
         /\ SubSeq(s, 1, 0) = <<>> /\ SubSeq(s, 1, Len(s)) = s
         /\ \A n \in 0 .. Len(s) : SubSeq(s, 1, n) \in Seq(S)
         /\ \A n \in 1 .. Len(s) :
              s[n] \in S /\ SubSeq(s, 1, n) = Append(SubSeq(s, 1, n - 1), s[n])
<1>1. Len(s) \in Nat /\ \A n \in 1 .. Len(s) : s[n] \in S
  BY ElementOfSeq
<1>2. SubSeq(s, 1, 0) = <<>> /\ SubSeq(s, 1, Len(s)) = s
  BY SubSeqEmpty, SubSeqFull
<1>3. \A n \in 0 .. Len(s) : SubSeq(s, 1, n) \in Seq(S)
  BY <1>1, SubSeqProperties
<1>4. ASSUME NEW n \in 1 .. Len(s)
      PROVE  SubSeq(s, 1, n) = Append(SubSeq(s, 1, n - 1), s[n])
  <2>1. SubSeq(s, 1, n) = SubSeq(s, 1, n - 1) \o <<s[n]>>
    <3>1. 1 \in 1 .. Len(s)
      BY <1>1
    <3> QED
      BY <3>1, SubSeqRecursiveSecond
  <2>2. SubSeq(s, 1, n - 1) \in Seq(S)
    BY <1>1, <1>3
  <2> QED
    BY <1>1, <2>1, <2>2, AppendIsConcat
<1> QED
  BY <1>1, <1>2, <1>3, <1>4

(* The same as a function, for loops.                                      *)
LEMMA PrefixesGrow ==
  ASSUME NEW S, NEW s \in Seq(S)
  PROVE  LET N == Len(s)
             to == [n \in 0 .. N |-> SubSeq(s, 1, n)]
         IN /\ N \in Nat /\ to[0] = <<>> /\ to[N] = s
            /\ \A n \in 0 .. N : to[n] \in Seq(S)
            /\ \A n \in 1 .. N : s[n] \in S /\ to[n] = Append(to[n - 1], s[n])
<1> DEFINE N == Len(s)
           to == [n \in 0 .. N |-> SubSeq(s, 1, n)]
<1>1. N \in Nat /\ to[0] = <<>> /\ to[N] = s
  BY Beginnings
<1>2. \A n \in 0 .. N : to[n] \in Seq(S)
  BY Beginnings
<1>3. \A n \in 1 .. N : to[n] = SubSeq(s, 1, n) /\ to[n - 1] = SubSeq(s, 1, n - 1)
  BY <1>1
<1>4. \A n \in 1 .. N : s[n] \in S /\ to[n] = Append(to[n - 1], s[n])
  BY <1>3, Beginnings
<1> QED
  BY <1>1, <1>2, <1>4

LEMMA OfTypeConcat ==
  ASSUME NEW s \in Seq(Events), NEW r \in Seq(Events), NEW t
  PROVE  OfType(s \o r, t) = OfType(s, t) \o OfType(r, t)
<1> DEFINE N == Len(r)
           to == [n \in 0 .. N |-> SubSeq(r, 1, n)]
           P == { n \in 0 .. N : OfType(s \o to[n], t) =
                                    OfType(s, t) \o OfType(to[n], t) }
<1>1. /\ N \in Nat /\ to[0] = <<>> /\ to[N] = r
      /\ \A n \in 0 .. N : to[n] \in Seq(Events)
      /\ \A n \in 1 .. N : r[n] \in Events /\ to[n] = Append(to[n - 1], r[n])
  BY PrefixesGrow
<1> HIDE DEF to, N
<1>2. 0 \in P
  <2>1. s \o to[0] = s
    BY <1>1, ConcatEmptySeq
  <2>2. OfType(to[0], t) = <<>>
    BY <1>1, OfTypeEmpty
  <2>3. OfType(s, t) \o OfType(to[0], t) = OfType(s, t)
    BY <2>2, OfTypeSeq, ConcatEmptySeq
  <2>4. OfType(s \o to[0], t) = OfType(s, t) \o OfType(to[0], t)
    BY <2>1, <2>3
  <2>5. 0 \in 0 .. N
    BY <1>1
  <2> QED
    BY <2>4, <2>5, Zenon
<1>3. ASSUME NEW n \in 1 .. N, n - 1 \in P PROVE n \in P
  <2> DEFINE a == to[n - 1]
             e == r[n]
  <2>1. a \in Seq(Events) /\ e \in Events /\ to[n] = Append(a, e)
    <3>1. n - 1 \in 0 .. N
      BY <1>1
    <3> QED
      BY <1>1, <3>1
  <2>2. OfType(s \o a, t) = OfType(s, t) \o OfType(a, t)
    BY <1>3
  <2> HIDE DEF a, e
  <2>3. s \o a \in Seq(Events) /\ s \o Append(a, e) = Append(s \o a, e)
    BY <2>1
  <2>4. OfType(s, t) \in Seq(Events) /\ OfType(a, t) \in Seq(Events)
    BY <2>1, OfTypeSeq
  <2>5. OfType(s, t) \o Append(OfType(a, t), e) =
          Append(OfType(s, t) \o OfType(a, t), e)
    BY <2>1, <2>4
  <2>6. OfType(Append(a, e), t) =
          IF TypeOf[e] = t THEN Append(OfType(a, t), e) ELSE OfType(a, t)
    BY <2>1, OfTypeAppend
  <2>7. OfType(Append(s \o a, e), t) =
          IF TypeOf[e] = t THEN Append(OfType(s \o a, t), e) ELSE OfType(s \o a, t)
    BY <2>1, <2>3, OfTypeAppend
  <2>8. OfType(s \o to[n], t) = OfType(s, t) \o OfType(to[n], t)
    BY <2>1, <2>2, <2>3, <2>5, <2>6, <2>7
  <2> QED
    BY <1>1, <2>8
<1>4. N \in P
  <2> HIDE DEF P
  <2> QED
    BY <1>1, <1>2, <1>3, UpTo
<1>5. OfType(s \o to[N], t) = OfType(s, t) \o OfType(to[N], t)
  BY <1>4, Zenon
<1> QED
  BY <1>1, <1>5

LEMMA OfTypeOne ==
  ASSUME NEW e \in Events, NEW t
  PROVE  /\ <<e>> \in Seq(Events)
         /\ OfType(<<e>>, t) = IF TypeOf[e] = t THEN <<e>> ELSE <<>>
<1> DEFINE none == <<>>
<1>1. none \in Seq(Events) /\ <<e>> = Append(none, e)
  OBVIOUS
<1>2. OfType(none, t) = <<>>
  BY OfTypeEmpty
<1> HIDE DEF none
<1>3. OfType(Append(none, e), t) =
        IF TypeOf[e] = t THEN Append(OfType(none, t), e) ELSE OfType(none, t)
  BY <1>1, OfTypeAppend
<1>4. Append(none, e) \in Seq(Events)
  BY <1>1
<1>5. Append(OfType(none, t), e) = <<e>>
  BY <1>2
<1> QED
  BY <1>1, <1>2, <1>3, <1>4, <1>5, Zenon

(* Remove takes one element out.                                           *)
Splits(s, e, a, b) ==
  /\ e \in Events /\ a \in Seq(Events) /\ b \in Seq(Events)
  /\ s = (a \o <<e>>) \o b
  /\ RemoveFirst(s, e) = a \o b

LEMMA RemoveFirstSplits ==
  ASSUME NEW s \in Seq(Events), NEW e, Contains(s, e)
  PROVE  \E a, b : Splits(s, e, a, b)
<1> DEFINE I == { i \in 1 .. Len(s) : s[i] = e }
           k == Min(I)
           a == SubSeq(s, 1, k - 1)
           b == SubSeq(s, k + 1, Len(s))
<1>1. Len(s) \in Nat /\ I \subseteq Nat /\ I # {}
  BY DEF Contains
<1>3. \E d \in I : \A c \in I : d <= c
  <2> HIDE DEF I
  <2> QED
    BY <1>1, LeastMember
<1>4. k \in I
  <2> HIDE DEF I
  <2> QED
    BY <1>3 DEF Min
<1>5. RemoveFirst(s, e) = a \o b
  BY <1>1 DEF RemoveFirst, RemoveAt, SelectInSeq, Contains
<1> HIDE DEF k
<1>6. k \in 1 .. Len(s) /\ s[k] = e /\ e \in Events
  BY <1>4, ElementOfSeq
<1>7. SubSeq(s, 1, k) = a \o <<e>> /\ a \in Seq(Events) /\ b \in Seq(Events)
  <2>1. a \in Seq(Events) /\ SubSeq(s, 1, k) = Append(a, e)
    BY <1>1, <1>6, Beginnings
  <2>2. b \in Seq(Events)
    BY <1>1, <1>6, SubSeqProperties
  <2> QED
    BY <1>6, <2>1, <2>2, AppendIsConcat
<1>8. SubSeq(s, 1, k) \o b = s
  <2>1. SubSeq(s, 1, k) \o b = SubSeq(s, 1, Len(s))
    BY <1>1, <1>6, ConcatAdjacentSubSeq
  <2> QED
    BY <2>1, SubSeqFull
<1>9. Splits(s, e, a, b)
  BY <1>5, <1>6, <1>7, <1>8 DEF Splits
<1> QED
  BY <1>9

LEMMA OfTypeRemoved ==
  ASSUME NEW s \in Seq(Events), NEW e, Contains(s, e), NEW t
  PROVE  /\ e \in Events
         /\ RemoveFirst(s, e) \in Seq(Events)
         /\ TypeOf[e] # t => OfType(RemoveFirst(s, e), t) = OfType(s, t)
         /\ TypeOf[e] = t =>
              Len(OfType(RemoveFirst(s, e), t)) = Len(OfType(s, t)) - 1
<1>1. PICK a, b : Splits(s, e, a, b)
  BY RemoveFirstSplits
<1> DEFINE one == <<e>>
           ae == a \o one
           A == OfType(a, t)
           B == OfType(b, t)
           E == OfType(one, t)
<1>2. /\ e \in Events /\ a \in Seq(Events) /\ b \in Seq(Events)
      /\ s = ae \o b /\ RemoveFirst(s, e) = a \o b
  BY <1>1 DEF Splits
<1>3. one \in Seq(Events) /\ E = IF TypeOf[e] = t THEN <<e>> ELSE <<>>
  BY <1>2, OfTypeOne
<1> HIDE DEF one
<1>4. ae \in Seq(Events) /\ OfType(ae, t) = A \o E
  <2>1. ae \in Seq(Events)
    BY <1>2, <1>3
  <2>2. a \in Seq(Events) /\ one \in Seq(Events)
    BY <1>2, <1>3
  <2>3. OfType(a \o one, t) = OfType(a, t) \o OfType(one, t)
    BY <2>2, OfTypeConcat
  <2> QED
    BY <2>1, <2>3
<1> HIDE DEF ae
<1>5. OfType(s, t) = (A \o E) \o B
  <2>1. OfType(ae \o b, t) = OfType(ae, t) \o B
    BY <1>2, <1>4, OfTypeConcat
  <2> QED
    BY <1>2, <1>4, <2>1, Zenon
<1>6. RemoveFirst(s, e) \in Seq(Events) /\ OfType(RemoveFirst(s, e), t) = A \o B
  BY <1>2, OfTypeConcat
<1>7. A \in Seq(Events) /\ B \in Seq(Events)
  BY <1>2, OfTypeSeq
<1> HIDE DEF A, B, E
<1>8. CASE TypeOf[e] # t
  <2>1. A \o E = A
    BY <1>3, <1>7, <1>8, ConcatEmptySeq
  <2> QED
    BY <1>2, <1>5, <1>6, <1>8, <2>1, Zenon
<1>9. CASE TypeOf[e] = t
  <2>1. /\ Len((A \o E) \o B) = Len(A) + 1 + Len(B)
        /\ Len(A \o B) = Len(A) + Len(B)
        /\ Len(A) \in Nat /\ Len(B) \in Nat
    BY <1>2, <1>3, <1>7, <1>9
  <2>2. /\ Len(OfType(s, t)) = Len(A) + 1 + Len(B)
        /\ Len(OfType(RemoveFirst(s, e), t)) = Len(A) + Len(B)
    BY <1>5, <1>6, <2>1, Zenon
  <2>3. Len(OfType(RemoveFirst(s, e), t)) = Len(OfType(s, t)) - 1
    BY <2>1, <2>2
  <2> QED
    BY <1>2, <1>6, <1>9, <2>3, Zenon
<1> QED
  BY <1>8, <1>9

-----------------------------------------------------------------------------
(* Counts.                                                                 *)

CountsOf == [Counted -> Int]

LEMMA ChangedCountOne ==
  ASSUME NEW c \in CountsOf, NEW e, NEW delta \in Int
  PROVE  /\ ChangedCount(c, e, delta) \in CountsOf
         /\ \A t \in Counted : ChangedCount(c, e, delta)[t] =
               IF TypeOf[e] = t THEN c[t] + delta ELSE c[t]
BY DEF ChangedCount, CountsOf

(* The turns of AddRange.                                                  *)
Counts(f, c, s) ==
  /\ f[0] = c
  /\ \A n \in 1 .. Len(s) : f[n] = ChangedCount(f[n - 1], s[n], 1)

LEMMA AddRangeRuns ==
  ASSUME NEW s \in Seq(Events), NEW c \in CountsOf
  PROVE  \E f : Counts(f, c, s) /\ AddRange(c, s) = f[Len(s)]
<1> DEFINE N == Len(s)
           step == [n \in 1 .. N |-> [a \in CountsOf |-> ChangedCount(a, s[n], 1)]]
           Turn(h, n) == IF n = 0 THEN c ELSE ChangedCount(h[n - 1], s[n], 1)
           Is(h) == h = [n \in 0 .. N |-> Turn(h, n)]
           g == CHOOSE h : Is(h)
<1>1. N \in Nat
  OBVIOUS
<1>2. AddRange(c, s) = g[N]
  BY DEF AddRange
<1> HIDE DEF N, g
<1>3. step \in [1 .. N -> [CountsOf -> CountsOf]]
  BY ChangedCountOne
<1>4. \E f : Is(f)
  <2>1. PICK f \in [0 .. N -> CountsOf] : Runs(f, N, c, step)
    <3> HIDE DEF step
    <3> QED
      BY <1>1, <1>3, LoopRuns
  <2>2. ASSUME NEW n \in 1 .. N PROVE f[n] = Turn(f, n)
    <3>1. n # 0 /\ f[n - 1] \in CountsOf
      BY <1>1
    <3>2. f[n] = step[n][f[n - 1]]
      BY <2>1 DEF Runs
    <3> QED
      BY <3>1, <3>2
  <2>3. ASSUME NEW n \in 0 .. N PROVE f[n] = Turn(f, n)
    <3>1. CASE n = 0
      BY <2>1, <3>1 DEF Runs
    <3>2. CASE n # 0
      <4>1. n \in 1 .. N
        BY <1>1, <3>2
      <4> HIDE DEF Turn
      <4> QED
        BY <2>2, <4>1
    <3> QED
      BY <3>1, <3>2
  <2>4. Is(f)
    BY <2>3
  <2> QED
    BY <2>4
<1>5. Is(g)
  BY <1>4 DEF g
<1>6. ASSUME NEW n \in 0 .. N PROVE g[n] = Turn(g, n)
  BY <1>5
<1>7. Counts(g, c, s)
  BY <1>1, <1>6 DEF Counts, N
<1> QED
  BY <1>2, <1>7 DEF N

LEMMA AddRangeCounts ==
  ASSUME NEW s \in Seq(Events), NEW c \in CountsOf
  PROVE  /\ AddRange(c, s) \in CountsOf
         /\ \A t \in Counted : AddRange(c, s)[t] = c[t] + Len(OfType(s, t))
<1> DEFINE N == Len(s)
           to == [n \in 0 .. N |-> SubSeq(s, 1, n)]
<1>1. PICK f : Counts(f, c, s) /\ AddRange(c, s) = f[N]
  BY AddRangeRuns
<1>2. /\ N \in Nat /\ to[0] = <<>> /\ to[N] = s
      /\ \A n \in 0 .. N : to[n] \in Seq(Events)
      /\ \A n \in 1 .. N : s[n] \in Events /\ to[n] = Append(to[n - 1], s[n])
  BY PrefixesGrow
<1> DEFINE Good(n) == /\ f[n] \in CountsOf
                      /\ \A t \in Counted : f[n][t] = c[t] + Len(OfType(to[n], t))
           P == { n \in 0 .. N : Good(n) }
<1>3. f[0] = c /\ \A n \in 1 .. N : f[n] = ChangedCount(f[n - 1], s[n], 1)
  BY <1>1 DEF Counts
<1> HIDE DEF N, to
<1>4. 0 \in P
  <2>1. ASSUME NEW t \in Counted PROVE f[0][t] = c[t] + Len(OfType(to[0], t))
    <3>1. OfType(to[0], t) = <<>>
      BY <1>2, OfTypeEmpty
    <3>2. c[t] \in Int
      BY DEF CountsOf
    <3> QED
      BY <1>3, <3>1, <3>2
  <2>2. Good(0)
    BY <1>3, <2>1
  <2>3. 0 \in 0 .. N
    BY <1>2
  <2> HIDE DEF Good
  <2> QED
    BY <2>2, <2>3
<1>5. ASSUME NEW n \in 1 .. N, n - 1 \in P PROVE n \in P
  <2> DEFINE a == to[n - 1]
             e == s[n]
  <2>1. n \in 0 .. N /\ n - 1 \in 0 .. N
    BY <1>2
  <2>2. a \in Seq(Events) /\ e \in Events /\ to[n] = Append(a, e)
    BY <1>2, <2>1
  <2>3. f[n - 1] \in CountsOf /\ f[n] = ChangedCount(f[n - 1], e, 1)
    BY <1>3, <1>5
  <2>4. f[n] \in CountsOf
    BY <2>3, ChangedCountOne
  <2>5. ASSUME NEW t \in Counted PROVE f[n][t] = c[t] + Len(OfType(to[n], t))
    <3>1. f[n - 1][t] = c[t] + Len(OfType(a, t)) /\ f[n - 1][t] \in Int
      BY <1>5, <2>3 DEF CountsOf
    <3>2. f[n][t] = IF TypeOf[e] = t THEN f[n - 1][t] + 1 ELSE f[n - 1][t]
      BY <2>3, ChangedCountOne
    <3> HIDE DEF a, e
    <3>3. OfType(to[n], t) =
            IF TypeOf[e] = t THEN Append(OfType(a, t), e) ELSE OfType(a, t)
      BY <2>2, OfTypeAppend
    <3>4. OfType(a, t) \in Seq(Events)
      BY <2>2, OfTypeSeq
    <3>5. Len(Append(OfType(a, t), e)) = Len(OfType(a, t)) + 1
      BY <2>2, <3>4
    <3>6. Len(OfType(a, t)) \in Nat /\ c[t] \in Int
      BY <3>4 DEF CountsOf
    <3>7. CASE TypeOf[e] = t
      <4>1. Len(OfType(to[n], t)) = Len(OfType(a, t)) + 1
        BY <3>3, <3>5, <3>7, Zenon
      <4> QED
        BY <3>1, <3>2, <3>6, <3>7, <4>1
    <3>8. CASE TypeOf[e] # t
      BY <3>1, <3>2, <3>3, <3>8
    <3> QED
      BY <3>7, <3>8
  <2>6. Good(n)
    BY <2>4, <2>5
  <2> HIDE DEF Good
  <2> QED
    BY <2>1, <2>6
<1>6. N \in P
  <2> HIDE DEF P
  <2> QED
    BY <1>2, <1>4, <1>5, UpTo
<1>7. Good(N)
  <2> HIDE DEF Good
  <2> QED
    BY <1>6
<1> QED
  BY <1>1, <1>2, <1>7

-----------------------------------------------------------------------------
(* Clear of a type.                                                        *)

Moves(N) == [list : [1 .. N -> Events], to : Nat]

(* One turn of the loop of Compact.                                        *)
Moved(a, n, t) ==
  IF TypeOf[a.list[n]] # t
    THEN [list |-> [a.list EXCEPT ![a.to + 1] = a.list[n]], to |-> a.to + 1]
    ELSE a

LEMMA MovedType ==
  ASSUME NEW N \in Nat, NEW n \in 1 .. N, NEW a \in Moves(N), NEW t
  PROVE  Moved(a, n, t) \in Moves(N)
<1> DEFINE new == [a.list EXCEPT ![a.to + 1] = a.list[n]]
<1>1. a.list \in [1 .. N -> Events] /\ a.to \in Nat /\ a.list[n] \in Events
  BY DEF Moves
<1>2. new \in [1 .. N -> Events] /\ a.to + 1 \in Nat
  <2> DEFINE list == a.list
             k == a.to + 1
             e == a.list[n]
  <2>1. list \in [1 .. N -> Events] /\ e \in Events
    BY <1>1
  <2> HIDE DEF list, k, e
  <2>2. [list EXCEPT ![k] = e] \in [1 .. N -> Events]
    BY <2>1
  <2> QED
    BY <1>1, <2>2 DEF list, k, e
<1> HIDE DEF new
<1>3. [list |-> new, to |-> a.to + 1] \in Moves(N)
  BY <1>2 DEF Moves
<1> QED
  BY <1>3 DEF Moved, new

(* An element put behind what was kept.                                    *)
LEMMA KeepOne ==
  ASSUME NEW N \in Nat, NEW list \in [1 .. N -> Events], NEW k \in 0 .. N - 1,
         NEW e \in Events
  PROVE  /\ SubSeq(list, 1, k) \in Seq(Events)
         /\ SubSeq([list EXCEPT ![k + 1] = e], 1, k + 1) =
              Append(SubSeq(list, 1, k), e)
<1> DEFINE new == [list EXCEPT ![k + 1] = e]
<1>1. /\ k + 1 \in 1 .. N /\ new[k + 1] = e /\ new \in [1 .. N -> Events]
      /\ \A i \in 1 .. k : new[i] = list[i]
  OBVIOUS
<1>2. new \in Seq(Events) /\ list \in Seq(Events) /\ Len(new) = N /\ Len(list) = N
  BY <1>1
<1> HIDE DEF new
<1>3. SubSeq(new, 1, k + 1) = Append(SubSeq(new, 1, k), new[k + 1])
  <2>1. (k + 1) - 1 = k
    OBVIOUS
  <2> QED
    BY <1>1, <1>2, <2>1, Beginnings
<1>4. SubSeq(list, 1, k) \in Seq(Events) /\ SubSeq(new, 1, k) \in Seq(Events)
  BY <1>2, Beginnings
<1>5. SubSeq(new, 1, k) = SubSeq(list, 1, k)
  BY <1>1, <1>2, <1>4
<1> QED
  BY <1>1, <1>3, <1>4, <1>5 DEF new

(* The turns of Compact.                                                   *)
Compacts(f, s, t) ==
  /\ f[0] = [list |-> s, to |-> 0]
  /\ \A n \in 1 .. Len(s) : f[n] = Moved(f[n - 1], n, t)

LEMMA CompactRuns ==
  ASSUME NEW s \in Seq(Events), NEW t
  PROVE  \E f : /\ Compacts(f, s, t)
                /\ Compact(s, t) = SubSeq(f[Len(s)].list, 1, f[Len(s)].to)
<1> DEFINE N == Len(s)
           step == [n \in 1 .. N |-> [a \in Moves(N) |-> Moved(a, n, t)]]
           start == [list |-> s, to |-> 0]
           Turn(h, n) == IF n = 0 THEN start ELSE Moved(h[n - 1], n, t)
           Is(h) == h = [n \in 0 .. N |-> Turn(h, n)]
           g == CHOOSE h : Is(h)
<1>1. N \in Nat /\ start \in Moves(N)
  BY DEF Moves
<1>2. Compact(s, t) = SubSeq(g[N].list, 1, g[N].to)
  BY DEF Compact, Moved
<1> HIDE DEF N, g, start
<1>3. step \in [1 .. N -> [Moves(N) -> Moves(N)]]
  BY <1>1, MovedType
<1>4. \E f : Is(f)
  <2>1. PICK f \in [0 .. N -> Moves(N)] : Runs(f, N, start, step)
    <3> HIDE DEF step
    <3> QED
      BY <1>1, <1>3, LoopRuns
  <2>2. ASSUME NEW n \in 1 .. N PROVE f[n] = Turn(f, n)
    <3>1. n # 0 /\ f[n - 1] \in Moves(N)
      BY <1>1
    <3>2. f[n] = step[n][f[n - 1]]
      BY <2>1 DEF Runs
    <3> QED
      BY <3>1, <3>2
  <2>3. ASSUME NEW n \in 0 .. N PROVE f[n] = Turn(f, n)
    <3>1. CASE n = 0
      BY <2>1, <3>1 DEF Runs
    <3>2. CASE n # 0
      <4>1. n \in 1 .. N
        BY <1>1, <3>2
      <4> HIDE DEF Turn
      <4> QED
        BY <2>2, <4>1
    <3> QED
      BY <3>1, <3>2
  <2>4. Is(f)
    BY <2>3
  <2> QED
    BY <2>4
<1>5. Is(g)
  BY <1>4 DEF g
<1>6. ASSUME NEW n \in 0 .. N PROVE g[n] = Turn(g, n)
  BY <1>5
<1>7. Compacts(g, s, t)
  BY <1>1, <1>6 DEF Compacts, N, start
<1> QED
  BY <1>2, <1>7 DEF N

(* What stays of the part that was looked at is at the beginning of the    *)
(* list, and the part ahead is as it was.                                  *)
LEMMA CompactKeepsOthers ==
  ASSUME NEW s \in Seq(Events), NEW t
  PROVE  /\ Compact(s, t) \in Seq(Events)
         /\ Len(Compact(s, t)) <= Len(s)
         /\ \A u : OfType(Compact(s, t), u) = IF u = t THEN <<>> ELSE OfType(s, u)
<1> DEFINE N == Len(s)
           to == [n \in 0 .. N |-> SubSeq(s, 1, n)]
<1>1. PICK f : /\ Compacts(f, s, t)
               /\ Compact(s, t) = SubSeq(f[N].list, 1, f[N].to)
  BY CompactRuns
<1>2. /\ N \in Nat /\ to[0] = <<>> /\ to[N] = s
      /\ \A n \in 0 .. N : to[n] \in Seq(Events)
      /\ \A n \in 1 .. N : s[n] \in Events /\ to[n] = Append(to[n - 1], s[n])
  BY PrefixesGrow
<1> DEFINE Kept(n) == SubSeq(f[n].list, 1, f[n].to)
           Good(n) == /\ f[n] \in Moves(N) /\ f[n].to <= n
                      /\ \A j \in n + 1 .. N : f[n].list[j] = s[j]
                      /\ \A u : OfType(Kept(n), u) =
                                  IF u = t THEN <<>> ELSE OfType(to[n], u)
           P == { n \in 0 .. N : Good(n) }
<1>3. /\ f[0] = [list |-> s, to |-> 0]
      /\ \A n \in 1 .. N : f[n] = Moved(f[n - 1], n, t)
      /\ s \in [1 .. N -> Events]
  BY <1>1 DEF Compacts
<1> HIDE DEF N, to
<1>4. 0 \in P
  <2>1. f[0] \in Moves(N) /\ f[0].to = 0 /\ f[0].list = s
    BY <1>3 DEF Moves
  <2>2. Kept(0) = <<>>
    BY <2>1, SubSeqEmpty
  <2>3. \A u : OfType(Kept(0), u) = <<>> /\ OfType(to[0], u) = <<>>
    BY <1>2, <2>2, OfTypeEmpty
  <2> HIDE DEF Kept
  <2>4. Good(0)
    BY <2>1, <2>3
  <2>5. 0 \in 0 .. N
    BY <1>2
  <2> HIDE DEF Good
  <2> QED
    BY <2>4, <2>5
<1>5. ASSUME NEW n \in 1 .. N, n - 1 \in P PROVE n \in P
  <2> DEFINE a == f[n - 1]
             b == f[n]
             e == s[n]
  <2>1. n \in 0 .. N /\ n - 1 \in 0 .. N /\ n \in Nat /\ n \in (n - 1) + 1 .. N
    BY <1>2
  <2>2. Good(n - 1)
    <3> HIDE DEF Good
    <3> QED
      BY <1>5
  <2>3. /\ a.list \in [1 .. N -> Events] /\ a.to \in Nat /\ a.to <= n - 1
        /\ a.list[n] = e /\ e \in Events /\ b = Moved(a, n, t) /\ b \in Moves(N)
    <3> HIDE DEF Kept
    <3>1. a \in Moves(N) /\ a.to <= n - 1 /\ a.list[n] = e
      BY <2>1, <2>2
    <3>2. b = Moved(a, n, t) /\ e \in Events
      BY <1>2, <1>3
    <3>3. b \in Moves(N)
      <4> HIDE DEF a, b
      <4> QED
        BY <1>2, <3>1, <3>2, MovedType
    <3>4. a.list \in [1 .. N -> Events] /\ a.to \in Nat
      BY <3>1 DEF Moves
    <3> QED
      BY <3>1, <3>2, <3>3, <3>4
  <2>4. to[n - 1] \in Seq(Events) /\ to[n] = Append(to[n - 1], e)
    BY <1>2, <2>1
  <2>5. \A u : OfType(to[n], u) = IF TypeOf[e] = u THEN Append(OfType(to[n - 1], u), e)
                                                   ELSE OfType(to[n - 1], u)
    <3> HIDE DEF e
    <3>1. ASSUME NEW u
          PROVE  OfType(Append(to[n - 1], e), u) =
                   IF TypeOf[e] = u THEN Append(OfType(to[n - 1], u), e)
                                    ELSE OfType(to[n - 1], u)
      <4>1. to[n - 1] \in Seq(Events) /\ e \in Events
        BY <2>3, <2>4
      <4> QED
        BY <4>1, OfTypeAppend
    <3> QED
      BY <2>4, <3>1, Zenon
  <2>6. b.to <= n /\ \A j \in n + 1 .. N : b.list[j] = s[j]
    <3>1. ASSUME NEW j \in n + 1 .. N PROVE a.list[j] = s[j] /\ j # a.to + 1
      BY <2>1, <2>2, <2>3
    <3> QED
      BY <2>1, <2>3, <3>1 DEF Moved
  <2>7. ASSUME NEW u
        PROVE  OfType(Kept(n), u) = IF u = t THEN <<>> ELSE OfType(to[n], u)
    <3>1. OfType(Kept(n - 1), u) = IF u = t THEN <<>> ELSE OfType(to[n - 1], u)
      BY <2>2
    <3>2. CASE TypeOf[e] = t
      <4>1. Kept(n) = Kept(n - 1)
        BY <2>3, <3>2 DEF Moved
      <4> HIDE DEF Kept, e
      <4> QED
        BY <2>5, <3>1, <3>2, <4>1
    <3>3. CASE TypeOf[e] # t
      <4>1. /\ b.list = [a.list EXCEPT ![a.to + 1] = e] /\ b.to = a.to + 1
            /\ a.to \in 0 .. N - 1
        <5>1. a.to \in 0 .. N - 1
          BY <1>2, <2>3
        <5>2. b.list = [a.list EXCEPT ![a.to + 1] = e] /\ b.to = a.to + 1
          <6> HIDE DEF a, b, e
          <6> QED
            BY <2>3, <3>3 DEF Moved
        <5> QED
          BY <5>1, <5>2
      <4>2. Kept(n - 1) \in Seq(Events) /\ Kept(n) = Append(Kept(n - 1), e)
        <5>1. /\ SubSeq(a.list, 1, a.to) \in Seq(Events)
              /\ SubSeq([a.list EXCEPT ![a.to + 1] = e], 1, a.to + 1) =
                   Append(SubSeq(a.list, 1, a.to), e)
          <6> DEFINE list == a.list
                     k == a.to
          <6>1. list \in [1 .. N -> Events] /\ k \in 0 .. N - 1 /\ e \in Events
            BY <2>3, <4>1
          <6> HIDE DEF list, k, e
          <6>2. /\ SubSeq(list, 1, k) \in Seq(Events)
                /\ SubSeq([list EXCEPT ![k + 1] = e], 1, k + 1) =
                     Append(SubSeq(list, 1, k), e)
            BY <1>2, <6>1, KeepOne
          <6> QED
            BY <6>2 DEF list, k
        <5> QED
          BY <4>1, <5>1
      <4> HIDE DEF Kept, e
      <4>3. OfType(Kept(n), u) = IF TypeOf[e] = u THEN Append(OfType(Kept(n - 1), u), e)
                                                  ELSE OfType(Kept(n - 1), u)
        <5>1. e \in Events
          BY <2>3
        <5>2. OfType(Append(Kept(n - 1), e), u) =
                IF TypeOf[e] = u THEN Append(OfType(Kept(n - 1), u), e)
                                 ELSE OfType(Kept(n - 1), u)
          BY <4>2, <5>1, OfTypeAppend
        <5> QED
          BY <4>2, <5>2, Zenon
      <4> QED
        BY <2>5, <3>1, <3>3, <4>3
    <3> QED
      BY <3>2, <3>3
  <2>8. Good(n)
    <3> HIDE DEF Kept
    <3> QED
      BY <2>3, <2>6, <2>7
  <2> HIDE DEF Good
  <2> QED
    BY <2>1, <2>8
<1>6. N \in P
  <2> HIDE DEF P
  <2> QED
    BY <1>2, <1>4, <1>5, UpTo
<1>7. Good(N)
  <2> HIDE DEF Good
  <2> QED
    BY <1>6
<1>8. Kept(N) \in Seq(Events) /\ Len(Kept(N)) <= N
  <2> DEFINE list == f[N].list
             k == f[N].to
  <2>1. list \in [1 .. N -> Events] /\ k \in Nat /\ k <= N
    <3> HIDE DEF Kept
    <3> QED
      BY <1>7 DEF Moves
  <2>2. N \in Nat
    BY <1>2
  <2> HIDE DEF list, k, N
  <2>3. list \in Seq(Events) /\ Len(list) = N
    BY <2>1, <2>2
  <2>4. SubSeq(list, 1, k) \in Seq(Events) /\ Len(SubSeq(list, 1, k)) <= N
    BY <2>1, <2>2, <2>3
  <2> QED
    BY <2>4 DEF list, k
<1> HIDE DEF Kept
<1>9. \A u : OfType(Kept(N), u) = IF u = t THEN <<>> ELSE OfType(s, u)
  BY <1>2, <1>7
<1>10. Compact(s, t) = Kept(N)
  BY <1>1 DEF Kept
<1> QED
  BY <1>8, <1>9, <1>10 DEF N

-----------------------------------------------------------------------------
(* CopyTo.                                                                 *)

Kinds == {"copied", "InvalidCastException", "IndexOutOfRangeException"}

Slots(length) == [0 .. length - 1 -> Events \cup {Nothing}]

Copies(length) == [kind : Kinds, to : Int, array : Slots(length)]

Blank(length) == [i \in 0 .. length - 1 |-> Nothing]

(* One turn of the loop of CopyTo.                                         *)
Copied(a, e, t, length) ==
  IF a.kind # "copied" \/ TypeOf[e] # t THEN a
  ELSE IF e \in Impostors THEN [a EXCEPT !.kind = "InvalidCastException"]
  ELSE IF a.to >= length THEN [a EXCEPT !.kind = "IndexOutOfRangeException"]
  ELSE [kind |-> "copied", to |-> a.to + 1, array |-> [a.array EXCEPT ![a.to] = e]]

LEMMA CopiedType ==
  ASSUME NEW length \in Int, NEW a \in Copies(length), NEW e \in Events, NEW t
  PROVE  Copied(a, e, t, length) \in Copies(length)
<1> DEFINE array == a.array
           k == a.to
           new == [array EXCEPT ![k] = e]
<1>1. array \in Slots(length) /\ k \in Int
  BY DEF Copies
<1> HIDE DEF array, k
<1>2. new \in Slots(length)
  BY <1>1 DEF Slots
<1> HIDE DEF new
<1>3. [kind |-> "copied", to |-> k + 1, array |-> new] \in Copies(length)
  BY <1>1, <1>2 DEF Copies, Kinds
<1>4. /\ [a EXCEPT !.kind = "InvalidCastException"] \in Copies(length)
      /\ [a EXCEPT !.kind = "IndexOutOfRangeException"] \in Copies(length)
  BY DEF Copies, Kinds
<1> QED
  BY <1>3, <1>4 DEF Copied, new, array, k

(* The turns of Written.                                                   *)
Writes(f, t, length, index) ==
  /\ f[0] = [kind |-> "copied", to |-> index, array |-> Blank(length)]
  /\ \A n \in 1 .. Len(items) : f[n] = Copied(f[n - 1], items[n], t, length)
  /\ \A n \in 0 .. Len(items) : f[n] \in Copies(length)

LEMMA WrittenRuns ==
  ASSUME items \in Seq(Events), NEW t, NEW length \in Nat, NEW index \in Nat
  PROVE  \E f : /\ Writes(f, t, length, index)
                /\ Written(t, length, index) = f[Len(items)]
<1> DEFINE N == Len(items)
           S == Copies(length)
           step == [n \in 1 .. N |-> [a \in S |-> Copied(a, items[n], t, length)]]
           start == [kind |-> "copied", to |-> index, array |-> Blank(length)]
           Turn(h, n) == IF n = 0 THEN start ELSE Copied(h[n - 1], items[n], t, length)
           Is(h) == h = [n \in 0 .. N |-> Turn(h, n)]
           g == CHOOSE h : Is(h)
<1>1. N \in Nat /\ start \in S /\ \A n \in 1 .. N : items[n] \in Events
  BY ElementOfSeq DEF Copies, Kinds, Slots, Blank
<1>2. Written(t, length, index) = g[N]
  BY DEF Written, Copied, Blank
<1> HIDE DEF N, g, start
<1>3. step \in [1 .. N -> [S -> S]]
  <2> HIDE DEF S
  <2>1. ASSUME NEW n \in 1 .. N, NEW a \in S PROVE Copied(a, items[n], t, length) \in S
    BY <1>1, CopiedType DEF S
  <2> QED
    BY <2>1
<1> HIDE DEF S
<1>4. \E f \in [0 .. N -> S] : Is(f)
  <2>1. PICK f \in [0 .. N -> S] : Runs(f, N, start, step)
    <3> HIDE DEF step
    <3> QED
      BY <1>1, <1>3, LoopRuns
  <2>2. ASSUME NEW n \in 1 .. N PROVE f[n] = Turn(f, n)
    <3>1. n # 0 /\ f[n - 1] \in S
      BY <1>1
    <3>2. f[n] = step[n][f[n - 1]]
      BY <2>1 DEF Runs
    <3> QED
      BY <3>1, <3>2
  <2>3. ASSUME NEW n \in 0 .. N PROVE f[n] = Turn(f, n)
    <3>1. CASE n = 0
      BY <2>1, <3>1 DEF Runs
    <3>2. CASE n # 0
      <4>1. n \in 1 .. N
        BY <1>1, <3>2
      <4> HIDE DEF Turn
      <4> QED
        BY <2>2, <4>1
    <3> QED
      BY <3>1, <3>2
  <2>4. Is(f)
    BY <2>3
  <2> QED
    BY <2>4
<1>5. Is(g)
  BY <1>4 DEF g
<1>6. ASSUME NEW n \in 0 .. N PROVE g[n] = Turn(g, n)
  BY <1>5
<1>7. g[0] = start /\ \A n \in 1 .. N : g[n] = Copied(g[n - 1], items[n], t, length)
  BY <1>1, <1>6
<1>8. 0 .. N \subseteq { n \in 0 .. N : g[n] \in S }
  <2> DEFINE P == { n \in 0 .. N : g[n] \in S }
  <2>1. 0 \in P
    BY <1>1, <1>7
  <2>2. ASSUME NEW n \in 1 .. N, n - 1 \in P PROVE n \in P
    <3>1. g[n - 1] \in S /\ items[n] \in Events /\ n \in 0 .. N
      BY <1>1, <2>2
    <3>2. g[n] \in S
      BY <1>7, <3>1, CopiedType DEF S
    <3> QED
      BY <3>1, <3>2
  <2> HIDE DEF P
  <2> QED
    BY <1>1, <2>1, <2>2, UpTo DEF P
<1>9. Writes(g, t, length, index)
  BY <1>7, <1>8 DEF Writes, N, start, S
<1> QED
  BY <1>2, <1>9 DEF N

(* No beginning of a list has more of a type than the list.                *)
LEMMA OfTypeGrows ==
  ASSUME NEW s \in Seq(Events), NEW n \in 0 .. Len(s), NEW t
  PROVE  Len(OfType(SubSeq(s, 1, n), t)) <= Len(OfType(s, t))
<1> DEFINE a == SubSeq(s, 1, n)
           b == SubSeq(s, n + 1, Len(s))
<1>1. a \in Seq(Events) /\ b \in Seq(Events)
  BY SubSeqProperties
<1>2. s = a \o b
  <2>1. 1 \in 1 .. Len(s) + 1 /\ n \in 1 - 1 .. Len(s) /\ Len(s) \in n .. Len(s)
    OBVIOUS
  <2>2. a \o b = SubSeq(s, 1, Len(s))
    BY <2>1, ConcatAdjacentSubSeq
  <2> QED
    BY <2>2, SubSeqFull
<1> HIDE DEF a, b
<1>3. OfType(a \o b, t) = OfType(a, t) \o OfType(b, t)
  BY <1>1, OfTypeConcat
<1>4. OfType(a, t) \in Seq(Events) /\ OfType(b, t) \in Seq(Events)
  BY <1>1, OfTypeSeq
<1>5. Len(OfType(a, t) \o OfType(b, t)) = Len(OfType(a, t)) + Len(OfType(b, t))
  BY <1>4
<1>6. Len(OfType(s, t)) = Len(OfType(a, t)) + Len(OfType(b, t))
  BY <1>2, <1>3, <1>5, Zenon
<1> QED
  BY <1>4, <1>6 DEF a

(* What an array has in the place of element j of a view.                  *)
Slot(view, j) == IF j \in 1 .. Len(view) THEN view[j] ELSE Nothing

(* The loop has copied a view so far, or it has met an impostor.           *)
CopyOf(a, view, length, index) ==
  /\ a.kind # "IndexOutOfRangeException"
  /\ a.kind = "copied" =>
       /\ a.to = index + Len(view)
       /\ \A i \in 0 .. length - 1 : a.array[i] = Slot(view, i - index + 1)

LEMMA CopiedOne ==
  ASSUME NEW length \in Nat, NEW index \in Nat, NEW a \in Copies(length),
         NEW e \in Events, NEW t, NEW view \in Seq(Events),
         CopyOf(a, view, length, index),
         TypeOf[e] = t => index + Len(view) < length
  PROVE  CopyOf(Copied(a, e, t, length),
                IF TypeOf[e] = t THEN Append(view, e) ELSE view, length, index)
<1> DEFINE b == Copied(a, e, t, length)
<1>1. CASE TypeOf[e] # t
  <2>1. b = a
    BY <1>1 DEF Copied
  <2> QED
    BY <1>1, <2>1, Zenon
<1>2. CASE TypeOf[e] = t
  <2>1. CASE a.kind # "copied"
    <3>1. b = a
      BY <2>1 DEF Copied
    <3> QED
      BY <1>2, <2>1, <3>1 DEF CopyOf
  <2>2. CASE a.kind = "copied" /\ e \in Impostors
    <3>1. b.kind = "InvalidCastException"
      BY <1>2, <2>2 DEF Copied, Copies
    <3> QED
      BY <1>2, <3>1 DEF CopyOf
  <2>3. CASE a.kind = "copied" /\ e \notin Impostors
    <3> DEFINE array == a.array
               k == a.to
               v == Append(view, e)
    <3>1. /\ k = index + Len(view) /\ k \in 0 .. length - 1
          /\ \A i \in 0 .. length - 1 : array[i] = Slot(view, i - index + 1)
      BY <1>2, <2>3 DEF CopyOf
    <3>2. array \in Slots(length)
      BY DEF Copies
    <3>3. b = [kind |-> "copied", to |-> k + 1, array |-> [array EXCEPT ![k] = e]]
      BY <1>2, <2>3, <3>1 DEF Copied
    <3> HIDE DEF array, k
    <3>4. /\ v \in Seq(Events) /\ Len(v) = Len(view) + 1 /\ Len(view) \in Nat
          /\ \A j \in 1 .. Len(view) : v[j] = view[j]
          /\ v[Len(view) + 1] = e
      BY AppendProperties
    <3> HIDE DEF v
    <3>5. ASSUME NEW i \in 0 .. length - 1
          PROVE  [array EXCEPT ![k] = e][i] = Slot(v, i - index + 1)
      <4>1. CASE i = k
        <5>1. i - index + 1 = Len(view) + 1
          BY <3>1, <3>4, <4>1
        <5>2. Slot(v, i - index + 1) = e
          BY <3>4, <5>1 DEF Slot
        <5> QED
          BY <3>2, <4>1, <5>2 DEF Slots
      <4>2. CASE i # k
        <5> DEFINE j == i - index + 1
        <5>1. j \in Int /\ j # Len(view) + 1
          BY <3>1, <3>4, <4>2
        <5>2. [array EXCEPT ![k] = e][i] = Slot(view, j)
          BY <3>1, <3>2, <4>2 DEF Slots
        <5> HIDE DEF j
        <5>3. Slot(view, j) = Slot(v, j)
          BY <3>4, <5>1 DEF Slot
        <5> QED
          BY <5>2, <5>3 DEF j
      <4> QED
        BY <4>1, <4>2
    <3>6. b.kind = "copied" /\ b.to = index + Len(v)
      BY <3>1, <3>3, <3>4
    <3>7. \A i \in 0 .. length - 1 : b.array[i] = Slot(v, i - index + 1)
      BY <3>3, <3>5
    <3> HIDE DEF b
    <3>8. CopyOf(b, v, length, index)
      BY <3>6, <3>7 DEF CopyOf
    <3> QED
      BY <1>2, <3>8, Zenon DEF b, v
  <2> QED
    BY <2>1, <2>2, <2>3
<1> QED
  BY <1>1, <1>2

(* Where there is room for all of the view, all of it is copied.           *)
LEMMA WrittenCopies ==
  ASSUME items \in Seq(Events), NEW t, NEW length \in Nat, NEW index \in Nat,
         length - index >= Len(OfType(items, t))
  PROVE  /\ CopyOf(Written(t, length, index), OfType(items, t), length, index)
         /\ Written(t, length, index) \in Copies(length)
<1> DEFINE N == Len(items)
           to == [n \in 0 .. N |-> SubSeq(items, 1, n)]
<1>1. PICK f : /\ Writes(f, t, length, index)
               /\ Written(t, length, index) = f[N]
  BY WrittenRuns
<1>2. /\ N \in Nat /\ to[0] = <<>> /\ to[N] = items
      /\ \A n \in 0 .. N : to[n] \in Seq(Events)
      /\ \A n \in 1 .. N : items[n] \in Events /\ to[n] = Append(to[n - 1], items[n])
  BY PrefixesGrow
<1>3. /\ f[0] = [kind |-> "copied", to |-> index, array |-> Blank(length)]
      /\ \A n \in 1 .. N : f[n] = Copied(f[n - 1], items[n], t, length)
      /\ \A n \in 0 .. N : f[n] \in Copies(length)
  BY <1>1 DEF Writes
<1>4. \A n \in 0 .. N : Len(OfType(to[n], t)) <= Len(OfType(items, t))
  BY OfTypeGrows
<1> DEFINE Good(n) == CopyOf(f[n], OfType(to[n], t), length, index)
           P == { n \in 0 .. N : Good(n) }
<1> HIDE DEF N, to
<1>5. 0 \in P
  <2>1. OfType(to[0], t) = <<>>
    BY <1>2, OfTypeEmpty
  <2>2. \A j : Slot(<<>>, j) = Nothing
    BY DEF Slot
  <2>3. CopyOf(f[0], <<>>, length, index)
    BY <1>3, <2>2 DEF CopyOf, Blank
  <2>4. 0 \in 0 .. N
    BY <1>2
  <2> QED
    BY <2>1, <2>3, <2>4, Zenon
<1>6. ASSUME NEW n \in 1 .. N, n - 1 \in P PROVE n \in P
  <2> DEFINE e == items[n]
             view == OfType(to[n - 1], t)
             next == OfType(to[n], t)
  <2>1. n \in 0 .. N /\ n - 1 \in 0 .. N
    BY <1>2
  <2>2. e \in Events /\ to[n - 1] \in Seq(Events) /\ to[n] = Append(to[n - 1], e)
    BY <1>2, <2>1
  <2>3. CopyOf(f[n - 1], view, length, index)
    BY <1>6, Zenon
  <2> HIDE DEF e
  <2>4. next = IF TypeOf[e] = t THEN Append(view, e) ELSE view
    <3>1. OfType(Append(to[n - 1], e), t) =
            IF TypeOf[e] = t THEN Append(OfType(to[n - 1], t), e)
                             ELSE OfType(to[n - 1], t)
      BY <2>2, OfTypeAppend
    <3> QED
      BY <2>2, <3>1, Zenon
  <2>5. view \in Seq(Events)
    BY <2>2, OfTypeSeq
  <2>6. Len(next) <= length - index
    <3>1. to[n] \in Seq(Events)
      BY <1>2, <2>1
    <3>2. next \in Seq(Events) /\ OfType(items, t) \in Seq(Events)
      BY <3>1, OfTypeSeq
    <3>3. Len(next) <= Len(OfType(items, t))
      BY <1>4, <2>1
    <3>4. Len(next) \in Nat /\ Len(OfType(items, t)) \in Nat
      BY <3>2
    <3> HIDE DEF next
    <3> QED
      BY <3>3, <3>4
  <2> HIDE DEF view, next
  <2>7. TypeOf[e] = t => index + Len(view) < length
    <3>1. CASE TypeOf[e] = t
      <4>1. Len(next) = Len(view) + 1 /\ Len(view) \in Nat
        BY <2>2, <2>4, <2>5, <3>1
      <4> QED
        BY <2>6, <4>1
    <3> QED
      BY <3>1
  <2>8. f[n - 1] \in Copies(length) /\ f[n] = Copied(f[n - 1], e, t, length)
    BY <1>3, <2>1 DEF e
  <2>9. CopyOf(Copied(f[n - 1], e, t, length), next, length, index)
    <3>1. CopyOf(Copied(f[n - 1], e, t, length),
                 IF TypeOf[e] = t THEN Append(view, e) ELSE view, length, index)
      BY <2>2, <2>3, <2>5, <2>7, <2>8, CopiedOne
    <3> QED
      BY <2>4, <3>1, Zenon
  <2> QED
    BY <2>1, <2>8, <2>9, Zenon DEF next
<1>7. N \in P
  <2> HIDE DEF P
  <2> QED
    BY <1>2, <1>5, <1>6, UpTo
<1>8. Good(N) /\ N \in 0 .. N
  BY <1>7, Zenon
<1> QED
  BY <1>1, <1>2, <1>3, <1>8, Zenon

-----------------------------------------------------------------------------
(* The inductive invariant.                                                *)

TypeOK ==
  /\ items \in Seq(Events)
  /\ counts \in CountsOf
  /\ phase \in [Readers -> {"none", "created", "reading"}]
  /\ over \in [Readers -> Counted \cup {Everything}]
  /\ at \in [Readers -> Nat]
  /\ seen \in [Readers -> Seq(Events)]
  /\ stale \in [Readers -> BOOLEAN]

(* What a reader has yielded is the beginning of what it enumerates,       *)
(* unless the list was changed since; one that has not begun to read need  *)
(* not know.                                                               *)
ReaderCurrent(r) ==
  /\ phase[r] # "reading" => at[r] = 0 /\ seen[r] = <<>>
  /\ ~stale[r] => /\ at[r] <= Len(items)
                  /\ seen[r] = View(SubSeq(items, 1, at[r]), over[r])

ReadersCurrent == \A r \in Readers : ReaderCurrent(r)

StoreInv ==
  /\ TypeOK /\ CountsMatch /\ ReadersCurrent
  /\ EnumerationComplete /\ CopyToFits

(* Nobody sees a store that is being built.                                *)
NotSeenYet == ~built => last = NoResult /\ \A r \in Readers : phase[r] = "none"

MessageInv == StoreInv /\ built \in BOOLEAN /\ NotSeenYet

LEMMA ViewEmpty ==
  ASSUME NEW what
  PROVE  View(<<>>, what) = <<>>
BY OfTypeEmpty DEF View

LEMMA ViewSeq ==
  ASSUME NEW s \in Seq(Events), NEW what
  PROVE  View(s, what) \in Seq(Events)
BY OfTypeSeq DEF View

(* A call without a result.                                                *)
LEMMA NoResultFits ==
  ASSUME last' = NoResult
  PROVE  EnumerationComplete' /\ CopyToFits'
BY DEF NoResult, EnumerationComplete, CopyToFits

(* Elements of other types do not count.                                   *)
LEMMA OfTypeSkips ==
  ASSUME NEW s \in Seq(Events), NEW m \in 0 .. Len(s), NEW k \in m .. Len(s), NEW t,
         \A j \in m + 1 .. k : TypeOf[s[j]] # t
  PROVE  OfType(SubSeq(s, 1, k), t) = OfType(SubSeq(s, 1, m), t)
<1> DEFINE to == [n \in 0 .. Len(s) |-> SubSeq(s, 1, n)]
           P == { n \in 0 .. k : n >= m => OfType(to[n], t) = OfType(to[m], t) }
<1>1. /\ Len(s) \in Nat
      /\ \A n \in 0 .. Len(s) : to[n] \in Seq(Events)
      /\ \A n \in 1 .. Len(s) : s[n] \in Events /\ to[n] = Append(to[n - 1], s[n])
  BY PrefixesGrow
<1>2. to[k] = SubSeq(s, 1, k) /\ to[m] = SubSeq(s, 1, m) /\ k \in Nat /\ k >= m
  BY <1>1
<1> HIDE DEF to
<1>3. 0 \in P
  <2>1. 0 \in 0 .. k /\ (0 >= m => m = 0)
    BY <1>1
  <2> QED
    BY <2>1
<1>4. ASSUME NEW n \in 1 .. k, n - 1 \in P PROVE n \in P
  <2>1. CASE n >= m + 1
    <3>1. /\ n \in 1 .. Len(s) /\ n - 1 \in 0 .. Len(s) /\ n \in m + 1 .. k
          /\ n - 1 >= m /\ n \in 0 .. k
      BY <1>1, <2>1
    <3>2. OfType(to[n - 1], t) = OfType(to[m], t)
      BY <1>4, <3>1
    <3>3. to[n - 1] \in Seq(Events) /\ s[n] \in Events /\ TypeOf[s[n]] # t
      BY <1>1, <3>1
    <3>4. OfType(Append(to[n - 1], s[n]), t) = OfType(to[n - 1], t)
      BY <3>3, OfTypeAppend
    <3>5. to[n] = Append(to[n - 1], s[n])
      BY <1>1, <3>1
    <3>6. OfType(to[n], t) = OfType(to[m], t)
      BY <3>2, <3>4, <3>5, Zenon
    <3> QED
      BY <3>1, <3>6
  <2>2. CASE ~ (n >= m + 1)
    <3>1. n \in 0 .. k /\ (n >= m => n = m)
      BY <1>1, <2>2
    <3> QED
      BY <3>1
  <2> QED
    BY <2>1, <2>2
<1> HIDE DEF P
<1>5. k \in P
  BY <1>2, <1>3, <1>4, UpTo
<1>6. OfType(to[k], t) = OfType(to[m], t)
  BY <1>2, <1>5 DEF P
<1> QED
  BY <1>2, <1>6

(* Where an enumerator stops next.                                         *)
LEMMA AheadIsNext ==
  ASSUME TypeOK, NEW r \in Readers, at[r] <= Len(items)
  PROVE  /\ Ahead(r) \in at[r] + 1 .. Len(items) + 1
         /\ Ahead(r) <= Len(items) => Wanted(r, items[Ahead(r)])
         /\ \A j \in at[r] + 1 .. Ahead(r) - 1 : ~ Wanted(r, items[j])
<1> DEFINE found == { i \in at[r] + 1 .. Len(items) : Wanted(r, items[i]) }
<1>1. at[r] \in Nat /\ Len(items) \in Nat
  BY DEF TypeOK
<1>2. CASE found = {}
  <2>1. Ahead(r) = Len(items) + 1
    BY <1>2 DEF Ahead
  <2>2. \A j \in at[r] + 1 .. Len(items) : ~ Wanted(r, items[j])
    BY <1>2
  <2> QED
    BY <1>1, <2>1, <2>2
<1>3. CASE found # {}
  <2> DEFINE k == CHOOSE i \in found : \A j \in found : i <= j
  <2>1. found \in SUBSET Nat
    BY <1>1
  <2>2. k \in found /\ \A j \in found : k <= j
    <3> HIDE DEF found
    <3>1. \E i \in found : \A j \in found : i <= j
      BY <1>3, <2>1, LeastMember
    <3> QED
      BY <3>1
  <2>3. Ahead(r) = k
    BY <1>3 DEF Ahead
  <2> HIDE DEF k
  <2>4. k \in at[r] + 1 .. Len(items) /\ Wanted(r, items[k])
    BY <2>2
  <2>5. ASSUME NEW j \in at[r] + 1 .. k - 1 PROVE ~ Wanted(r, items[j])
    <3>1. j \in at[r] + 1 .. Len(items) /\ ~ (k <= j)
      BY <1>1, <2>4
    <3> QED
      BY <2>2, <3>1
  <2> QED
    BY <1>1, <2>3, <2>4, <2>5
<1> QED
  BY <1>2, <1>3

(* The view up to there has one element more.                              *)
LEMMA ViewAdvances ==
  ASSUME TypeOK, NEW r \in Readers, at[r] <= Len(items), Ahead(r) <= Len(items)
  PROVE  /\ items[Ahead(r)] \in Events
         /\ View(SubSeq(items, 1, Ahead(r)), over[r]) =
              Append(View(SubSeq(items, 1, at[r]), over[r]), items[Ahead(r)])
<1> DEFINE k == Ahead(r)
           m == at[r]
           e == items[k]
           a == SubSeq(items, 1, k - 1)
           b == SubSeq(items, 1, m)
<1>1. /\ items \in Seq(Events) /\ m \in Nat /\ Len(items) \in Nat
      /\ k \in m + 1 .. Len(items) /\ Wanted(r, e)
      /\ \A j \in m + 1 .. k - 1 : ~ Wanted(r, items[j])
  BY AheadIsNext DEF TypeOK
<1> HIDE DEF k, m
<1>2. e \in Events /\ SubSeq(items, 1, k) = Append(a, e) /\ a \in Seq(Events)
  BY <1>1, Beginnings
<1>3. CASE over[r] = Everything
  <2>1. k - 1 = m
    <3>1. \A j \in m + 1 .. k - 1 : FALSE
      BY <1>1, <1>3 DEF Wanted
    <3> QED
      BY <1>1, <3>1
  <2> QED
    BY <1>2, <1>3, <2>1 DEF View, k, m
<1>4. CASE over[r] # Everything
  <2> DEFINE t == over[r]
  <2>1. TypeOf[e] = t /\ \A j \in m + 1 .. k - 1 : TypeOf[items[j]] # t
    BY <1>1, <1>4 DEF Wanted
  <2>2. OfType(a, t) = OfType(b, t)
    <3>1. m \in 0 .. Len(items) /\ k - 1 \in m .. Len(items)
      BY <1>1
    <3> QED
      BY <1>1, <2>1, <3>1, OfTypeSkips
  <2> HIDE DEF e, a
  <2>3. OfType(Append(a, e), t) = Append(OfType(a, t), e)
    BY <1>2, <2>1, OfTypeAppend
  <2>4. OfType(SubSeq(items, 1, k), t) = Append(OfType(b, t), e)
    BY <1>2, <2>2, <2>3, Zenon
  <2> QED
    BY <1>2, <1>4, <2>4, Zenon DEF View, k, m, e
<1> QED
  BY <1>3, <1>4

(* At the end nothing is left out.                                         *)
LEMMA ViewEnds ==
  ASSUME TypeOK, NEW r \in Readers, at[r] <= Len(items), Ahead(r) > Len(items)
  PROVE  View(items, over[r]) = View(SubSeq(items, 1, at[r]), over[r])
<1> DEFINE N == Len(items)
           m == at[r]
<1>1. /\ items \in Seq(Events) /\ m \in 0 .. N /\ N \in Nat
      /\ SubSeq(items, 1, N) = items
  BY SubSeqFull DEF TypeOK
<1>2. \A j \in m + 1 .. N : ~ Wanted(r, items[j])
  <2>1. Ahead(r) = N + 1
    BY <1>1, AheadIsNext
  <2>2. (N + 1) - 1 = N
    BY <1>1
  <2> QED
    BY <2>1, <2>2, AheadIsNext
<1> HIDE DEF N, m
<1>3. CASE over[r] = Everything
  <2>1. N = m
    <3>1. \A j \in m + 1 .. N : FALSE
      BY <1>2, <1>3 DEF Wanted
    <3> QED
      BY <1>1, <3>1
  <2> QED
    BY <1>1, <1>3, <2>1 DEF View, m
<1>4. CASE over[r] # Everything
  <2>1. \A j \in m + 1 .. N : TypeOf[items[j]] # over[r]
    BY <1>2, <1>4 DEF Wanted
  <2>2. N \in m .. Len(items) /\ m \in 0 .. Len(items)
    BY <1>1 DEF N
  <2>3. OfType(SubSeq(items, 1, N), over[r]) = OfType(SubSeq(items, 1, m), over[r])
    BY <1>1, <2>1, <2>2, OfTypeSkips
  <2> QED
    BY <1>1, <1>4, <2>3, Zenon DEF View, m
<1> QED
  BY <1>3, <1>4

-----------------------------------------------------------------------------
(* The steps of the store.                                                 *)

(* A change of the list leaves no reader that has begun with it current.   *)
LEMMA ChangeKeeps ==
  ASSUME StoreInv, NEW new \in Seq(Events), Change(new), counts' \in CountsOf,
         \A t \in Counted : counts'[t] = Len(OfType(new, t))
  PROVE  StoreInv'
<1>1. TypeOK'
  BY DEF StoreInv, TypeOK, Change
<1>2. CountsMatch'
  BY DEF CountsMatch, Change
<1>3. ASSUME NEW r \in Readers PROVE ReaderCurrent(r)'
  <2>1. /\ items' = new /\ phase'[r] = phase[r] /\ at'[r] = at[r]
        /\ seen'[r] = seen[r] /\ over'[r] = over[r]
        /\ ~ stale'[r] => phase[r] # "reading"
    BY DEF Change, StoreInv, TypeOK
  <2>2. phase[r] # "reading" => at[r] = 0 /\ seen[r] = <<>>
    BY DEF StoreInv, ReadersCurrent, ReaderCurrent
  <2>3. Len(new) \in Nat /\ View(SubSeq(new, 1, 0), over[r]) = <<>>
    <3>1. SubSeq(new, 1, 0) = <<>> /\ Len(new) \in Nat
      BY SubSeqEmpty
    <3>2. View(<<>>, over[r]) = <<>>
      BY ViewEmpty
    <3> QED
      BY <3>1, <3>2, Zenon
  <2>4. ~ stale'[r] => /\ at'[r] <= Len(items')
                       /\ seen'[r] = View(SubSeq(items', 1, at'[r]), over'[r])
    BY <2>1, <2>2, <2>3
  <2>5. phase'[r] # "reading" => at'[r] = 0 /\ seen'[r] = <<>>
    BY <2>1, <2>2
  <2> QED
    BY <2>4, <2>5 DEF ReaderCurrent, View
<1>4. EnumerationComplete' /\ CopyToFits'
  BY NoResultFits DEF Change
<1> QED
  BY <1>1, <1>2, <1>3, <1>4 DEF StoreInv, ReadersCurrent

(* Nothing that concerns a reader has changed.                             *)
LEMMA SameReader ==
  ASSUME NEW r \in Readers, ReaderCurrent(r), items' = items,
         phase'[r] = phase[r], over'[r] = over[r], at'[r] = at[r],
         seen'[r] = seen[r], stale'[r] = stale[r]
  PROVE  ReaderCurrent(r)'
BY Zenon DEF ReaderCurrent

(* A reader that has yielded nothing is current.                           *)
LEMMA StartsCurrent ==
  ASSUME NEW r \in Readers, TypeOK', at'[r] = 0, seen'[r] = <<>>
  PROVE  ReaderCurrent(r)'
<1>1. Len(items') \in Nat /\ SubSeq(items', 1, 0) = <<>>
  BY SubSeqEmpty DEF TypeOK
<1>2. View(<<>>, over'[r]) = <<>>
  BY ViewEmpty
<1>3. at'[r] <= Len(items')
  BY <1>1
<1>4. seen'[r] = View(SubSeq(items', 1, at'[r]), over'[r])
  BY <1>1, <1>2, Zenon
<1> QED
  BY <1>3, <1>4, Zenon DEF ReaderCurrent

LEMMA SameReaders ==
  ASSUME ReadersCurrent, UNCHANGED <<items, readers>>
  PROVE  ReadersCurrent'
<1>1. ASSUME NEW r \in Readers PROVE ReaderCurrent(r)'
  <2>1. /\ items' = items /\ ReaderCurrent(r)
        /\ phase'[r] = phase[r] /\ over'[r] = over[r] /\ at'[r] = at[r]
        /\ seen'[r] = seen[r] /\ stale'[r] = stale[r]
    BY DEF ReadersCurrent, readers
  <2> QED
    BY <2>1, SameReader
<1> QED
  BY <1>1 DEF ReadersCurrent

LEMMA AddKeeps ==
  ASSUME StoreInv, NEW e \in Events, Add(e)
  PROVE  StoreInv'
<1> DEFINE new == Append(items, e)
<1>1. items \in Seq(Events) /\ counts \in CountsOf /\ new \in Seq(Events)
  BY DEF StoreInv, TypeOK
<1>2. Change(new) /\ counts' = ChangedCount(counts, e, 1)
  BY DEF Add, ChangeCount
<1>3. counts' \in CountsOf
  BY <1>1, <1>2, ChangedCountOne
<1>4. ASSUME NEW t \in Counted PROVE counts'[t] = Len(OfType(new, t))
  <2>1. counts'[t] = IF TypeOf[e] = t THEN counts[t] + 1 ELSE counts[t]
    BY <1>1, <1>2, ChangedCountOne
  <2>2. counts[t] = Len(OfType(items, t)) /\ OfType(items, t) \in Seq(Events)
    BY <1>1, OfTypeSeq DEF StoreInv, CountsMatch
  <2>3. OfType(new, t) =
          IF TypeOf[e] = t THEN Append(OfType(items, t), e) ELSE OfType(items, t)
    BY <1>1, OfTypeAppend
  <2>4. Len(Append(OfType(items, t), e)) = Len(OfType(items, t)) + 1
    BY <2>2
  <2> HIDE DEF new
  <2>5. CASE TypeOf[e] = t
    <3>1. Len(OfType(new, t)) = Len(OfType(items, t)) + 1
      BY <2>3, <2>4, <2>5, Zenon
    <3> QED
      BY <2>1, <2>2, <2>5, <3>1
  <2>6. CASE TypeOf[e] # t
    BY <2>1, <2>2, <2>3, <2>6
  <2> QED
    BY <2>5, <2>6
<1> HIDE DEF new
<1> QED
  BY <1>1, <1>2, <1>3, <1>4, ChangeKeeps

LEMMA RemoveItemKeeps ==
  ASSUME StoreInv, NEW e \in Events, RemoveItem(e)
  PROVE  StoreInv'
<1> DEFINE new == RemoveFirst(items, e)
<1>1. /\ items \in Seq(Events) /\ counts \in CountsOf /\ Contains(items, e)
      /\ new \in Seq(Events)
  <2>1. items \in Seq(Events) /\ counts \in CountsOf /\ Contains(items, e)
    BY DEF StoreInv, TypeOK, RemoveItem
  <2> QED
    BY <2>1, OfTypeRemoved
<1>2. Change(new) /\ counts' = ChangedCount(counts, e, -1)
  BY DEF RemoveItem, ChangeCount
<1>3. counts' \in CountsOf
  BY <1>1, <1>2, ChangedCountOne
<1>4. ASSUME NEW t \in Counted PROVE counts'[t] = Len(OfType(new, t))
  <2>1. counts'[t] = IF TypeOf[e] = t THEN counts[t] + (-1) ELSE counts[t]
    BY <1>1, <1>2, ChangedCountOne
  <2>2. counts[t] = Len(OfType(items, t)) /\ OfType(items, t) \in Seq(Events)
    BY <1>1, OfTypeSeq DEF StoreInv, CountsMatch
  <2>3. /\ TypeOf[e] # t => OfType(new, t) = OfType(items, t)
        /\ TypeOf[e] = t => Len(OfType(new, t)) = Len(OfType(items, t)) - 1
    BY <1>1, OfTypeRemoved
  <2> HIDE DEF new
  <2> QED
    BY <2>1, <2>2, <2>3
<1> HIDE DEF new
<1> QED
  BY <1>1, <1>2, <1>3, <1>4, ChangeKeeps

LEMMA ClearAllKeeps ==
  ASSUME StoreInv, ClearAll
  PROVE  StoreInv'
<1> DEFINE none == <<>>
<1>1. none \in Seq(Events) /\ Change(none) /\ counts' = NoCounts
  BY DEF ClearAll
<1>2. NoCounts \in CountsOf /\ \A t \in Counted : NoCounts[t] = 0
  BY DEF NoCounts, CountsOf
<1>3. \A t \in Counted : OfType(none, t) = <<>> /\ Len(<<>>) = 0
  BY OfTypeEmpty
<1>4. \A t \in Counted : counts'[t] = Len(OfType(none, t))
  BY <1>1, <1>2, <1>3
<1> HIDE DEF none
<1> QED
  BY <1>1, <1>2, <1>4, ChangeKeeps

(* Clear of a type takes its events out, and its count goes with them.     *)
LEMMA CompactCounts ==
  ASSUME StoreInv, NEW t \in Counted
  PROVE  LET c == [counts EXCEPT ![t] = 0]
         IN /\ c \in CountsOf
            /\ \A u \in Counted : c[u] = Len(OfType(Compact(items, t), u))
<1> DEFINE c == [counts EXCEPT ![t] = 0]
<1>1. items \in Seq(Events) /\ counts \in CountsOf
  BY DEF StoreInv, TypeOK
<1>2. c \in CountsOf
  BY <1>1 DEF CountsOf
<1>3. ASSUME NEW u \in Counted PROVE c[u] = Len(OfType(Compact(items, t), u))
  <2>1. OfType(Compact(items, t), u) = IF u = t THEN <<>> ELSE OfType(items, u)
    BY <1>1, CompactKeepsOthers
  <2>2. counts[u] = Len(OfType(items, u)) /\ Len(<<>>) = 0
    BY DEF StoreInv, CountsMatch
  <2>3. c[u] = IF u = t THEN 0 ELSE counts[u]
    BY <1>1 DEF CountsOf
  <2> QED
    BY <2>1, <2>2, <2>3
<1> QED
  BY <1>2, <1>3

LEMMA ClearViewKeeps ==
  ASSUME StoreInv, NEW t \in Counted, ClearView(t)
  PROVE  StoreInv'
<1> DEFINE c == [counts EXCEPT ![t] = 0]
           new == Compact(items, t)
<1>1. /\ items \in Seq(Events) /\ counts' = c /\ new \in Seq(Events)
      /\ c \in CountsOf /\ \A u \in Counted : c[u] = Len(OfType(new, u))
  BY CompactCounts, CompactKeepsOthers DEF StoreInv, TypeOK, ClearView
<1>2. CASE items # <<>>
  <2>1. Change(new)
    BY <1>2 DEF ClearView
  <2> HIDE DEF new, c
  <2> QED
    BY <1>1, <2>1, ChangeKeeps
<1>3. CASE items = <<>>
  <2>1. UNCHANGED <<items, readers>> /\ last' = NoResult
    BY <1>3 DEF ClearView
  <2>2. \A u \in Counted : OfType(new, u) = OfType(items, u)
    <3>1. OfType(new, t) = <<>> /\ OfType(items, t) = <<>>
      BY <1>1, <1>3, CompactKeepsOthers, OfTypeEmpty
    <3> QED
      BY <1>1, <3>1, CompactKeepsOthers
  <2>3. TypeOK'
    BY <1>1, <2>1 DEF StoreInv, TypeOK, readers
  <2>4. CountsMatch'
    <3>1. \A u \in Counted : counts'[u] = Len(OfType(items, u))
      BY <1>1, <2>2, Zenon
    <3> QED
      BY <2>1, <3>1, Zenon DEF CountsMatch
  <2>5. ReadersCurrent'
    BY <2>1, SameReaders DEF StoreInv
  <2>6. EnumerationComplete' /\ CopyToFits'
    BY <2>1, NoResultFits
  <2> QED
    BY <2>3, <2>4, <2>5, <2>6 DEF StoreInv
<1> QED
  BY <1>2, <1>3

-----------------------------------------------------------------------------
(* The steps of the readers.                                               *)

(* A step of one reader: the others are where they were.                   *)
LEMMA ReaderSteps ==
  ASSUME StoreInv, NEW r \in Readers, UNCHANGED <<items, counts>>, TypeOK',
         ReaderCurrent(r)',
         \A q \in Readers \ {r} :
           /\ phase'[q] = phase[q] /\ over'[q] = over[q] /\ at'[q] = at[q]
           /\ seen'[q] = seen[q] /\ stale'[q] = stale[q],
         EnumerationComplete', CopyToFits'
  PROVE  StoreInv'
<1>1. CountsMatch'
  <2>1. items' = items /\ counts' = counts /\ CountsMatch
    BY DEF StoreInv
  <2> QED
    BY <2>1, Zenon DEF CountsMatch
<1>2. ReadersCurrent'
  <2>1. ASSUME NEW q \in Readers, q # r PROVE ReaderCurrent(q)'
    <3>1. q \in Readers \ {r} /\ ReaderCurrent(q) /\ items' = items
      BY <2>1 DEF StoreInv, ReadersCurrent
    <3> QED
      BY <3>1, SameReader
  <2> QED
    BY <2>1 DEF ReadersCurrent
<1> QED
  BY <1>1, <1>2 DEF StoreInv

LEMMA GetEnumeratorKeeps ==
  ASSUME StoreInv, NEW r \in Readers, NEW what \in Counted \cup {Everything},
         GetEnumerator(r, what)
  PROVE  StoreInv'
<1>1. TypeOK'
  BY DEF StoreInv, TypeOK, GetEnumerator
<1>2. /\ UNCHANGED <<items, counts>> /\ last' = NoResult
      /\ at'[r] = 0 /\ seen'[r] = <<>> /\ over'[r] = what
      /\ \A q \in Readers \ {r} :
           /\ phase'[q] = phase[q] /\ over'[q] = over[q] /\ at'[q] = at[q]
           /\ seen'[q] = seen[q] /\ stale'[q] = stale[q]
  BY DEF StoreInv, TypeOK, GetEnumerator
<1>3. ReaderCurrent(r)'
  BY <1>1, <1>2, StartsCurrent
<1>4. EnumerationComplete' /\ CopyToFits'
  BY <1>2, NoResultFits
<1> QED
  BY <1>1, <1>2, <1>3, <1>4, ReaderSteps

(* An enumeration that ends, as its last result says.                      *)
LEMMA CloseKeeps ==
  ASSUME StoreInv, NEW r \in Readers, NEW result, Close(r, result),
         EnumerationComplete', CopyToFits'
  PROVE  StoreInv'
<1>1. TypeOK'
  BY DEF StoreInv, TypeOK, Close
<1>2. /\ UNCHANGED <<items, counts>>
      /\ at'[r] = 0 /\ seen'[r] = <<>>
      /\ \A q \in Readers \ {r} :
           /\ phase'[q] = phase[q] /\ over'[q] = over[q] /\ at'[q] = at[q]
           /\ seen'[q] = seen[q] /\ stale'[q] = stale[q]
  BY DEF StoreInv, TypeOK, Close
<1>3. ReaderCurrent(r)'
  BY <1>1, <1>2, StartsCurrent
<1> QED
  BY <1>1, <1>2, <1>3, ReaderSteps

LEMMA MoveNextKeeps ==
  ASSUME StoreInv, NEW r \in Readers, MoveNext(r)
  PROVE  StoreInv'
<1> DEFINE k == Ahead(r)
           e == items[k]
<1>1. /\ TypeOK /\ ~ stale[r] /\ k <= Len(items) /\ at[r] <= Len(items)
      /\ seen[r] = View(SubSeq(items, 1, at[r]), over[r])
  BY DEF StoreInv, ReadersCurrent, ReaderCurrent, MoveNext
<1>2. /\ k \in at[r] + 1 .. Len(items) /\ e \in Events /\ k \in Nat
      /\ View(SubSeq(items, 1, k), over[r]) =
           Append(View(SubSeq(items, 1, at[r]), over[r]), e)
  <2>1. Ahead(r) \in at[r] + 1 .. Len(items) + 1
    BY <1>1, AheadIsNext
  <2>2. /\ items[Ahead(r)] \in Events
        /\ View(SubSeq(items, 1, Ahead(r)), over[r]) =
             Append(View(SubSeq(items, 1, at[r]), over[r]), items[Ahead(r)])
    BY <1>1, ViewAdvances
  <2>3. at[r] \in Nat /\ Len(items) \in Nat
    BY <1>1 DEF TypeOK
  <2> HIDE DEF k
  <2>4. k \in at[r] + 1 .. Len(items) /\ k \in Nat
    BY <1>1, <2>1, <2>3 DEF k
  <2> QED
    BY <2>2, <2>4 DEF k
<1>3. /\ phase' = [phase EXCEPT ![r] = "reading"]
      /\ at' = [at EXCEPT ![r] = k]
      /\ seen' = [seen EXCEPT ![r] = Append(@, e)]
      /\ last' = NoResult
      /\ UNCHANGED <<items, counts, over, stale>>
  BY DEF MoveNext
<1> HIDE DEF k, e
<1>4. /\ phase'[r] = "reading" /\ at'[r] = k /\ seen'[r] = Append(seen[r], e)
      /\ \A q \in Readers \ {r} :
           /\ phase'[q] = phase[q] /\ over'[q] = over[q] /\ at'[q] = at[q]
           /\ seen'[q] = seen[q] /\ stale'[q] = stale[q]
  BY <1>1, <1>3 DEF TypeOK
<1>5. TypeOK'
  <2>1. seen' \in [Readers -> Seq(Events)]
    BY <1>1, <1>2, <1>3 DEF TypeOK
  <2>2. at' \in [Readers -> Nat]
    BY <1>1, <1>2, <1>3 DEF TypeOK
  <2>3. phase' \in [Readers -> {"none", "created", "reading"}]
    BY <1>1, <1>3 DEF TypeOK
  <2> QED
    BY <1>1, <1>3, <2>1, <2>2, <2>3 DEF TypeOK
<1>6. ReaderCurrent(r)'
  <2>1. seen'[r] = View(SubSeq(items', 1, at'[r]), over'[r])
    BY <1>1, <1>2, <1>3, <1>4, Zenon
  <2>2. at'[r] <= Len(items')
    <3>1. k <= Len(items)
      BY <1>1 DEF k
    <3> QED
      BY <1>3, <1>4, <3>1
  <2> QED
    BY <1>4, <2>1, <2>2, Zenon DEF ReaderCurrent
<1>7. EnumerationComplete' /\ CopyToFits'
  BY <1>3, NoResultFits
<1> QED
  BY <1>3, <1>4, <1>5, <1>6, <1>7, ReaderSteps

LEMMA MoveNextEndsKeeps ==
  ASSUME StoreInv, NEW r \in Readers, MoveNextEnds(r)
  PROVE  StoreInv'
<1>1. /\ TypeOK /\ Ahead(r) > Len(items) /\ at[r] <= Len(items)
      /\ seen[r] = View(SubSeq(items, 1, at[r]), over[r])
      /\ Close(r, Enumerated(r))
  BY DEF StoreInv, ReadersCurrent, ReaderCurrent, MoveNextEnds
<1>2. View(items, over[r]) = seen[r]
  BY <1>1, ViewEnds
<1>3. /\ last' = [kind |-> "enumerated", over |-> over[r], seen |-> seen[r]]
      /\ items' = items
  BY <1>1 DEF Close, Enumerated
<1>4. last'.kind = "enumerated" /\ last'.over = over[r] /\ last'.seen = seen[r]
  BY <1>3
<1>5. EnumerationComplete'
  BY <1>2, <1>3, <1>4, Zenon DEF EnumerationComplete
<1>6. CopyToFits'
  BY <1>4 DEF CopyToFits
<1> QED
  BY <1>1, <1>5, <1>6, CloseKeeps

LEMMA MoveNextThrowsKeeps ==
  ASSUME StoreInv, NEW r \in Readers, MoveNextThrows(r) \/ Break(r)
  PROVE  StoreInv'
<1>1. Close(r, NoResult) /\ last' = NoResult
  BY DEF MoveNextThrows, Break, Close
<1> QED
  BY <1>1, NoResultFits, CloseKeeps

(* CopyTo writes all of the view where it says so, and has the room.       *)
LEMMA CopyToKeeps ==
  ASSUME StoreInv, NEW t \in Counted, NEW length \in Nat, NEW index \in Nat,
         CopyTo(t, length, index)
  PROVE  StoreInv'
<1> DEFINE view == OfType(items, t)
           written == Written(t, length, index)
<1>1. UNCHANGED <<items, counts, readers>> /\ items \in Seq(Events)
  BY DEF CopyTo, StoreInv, TypeOK
<1>2. TypeOK'
  BY <1>1 DEF StoreInv, TypeOK, readers
<1>3. CountsMatch'
  <2>1. items' = items /\ counts' = counts /\ CountsMatch
    BY <1>1 DEF StoreInv
  <2> QED
    BY <2>1, Zenon DEF CountsMatch
<1>4. ReadersCurrent'
  BY <1>1, SameReaders DEF StoreInv
<1>5. CASE ~ Fits(t, length, index)
  <2>1. last' = [kind |-> "ArgumentException"]
    BY <1>5 DEF CopyTo
  <2>2. EnumerationComplete' /\ CopyToFits'
    BY <2>1 DEF EnumerationComplete, CopyToFits
  <2> QED
    BY <1>2, <1>3, <1>4, <2>2 DEF StoreInv
<1>6. CASE Fits(t, length, index)
  <2>1. last' = [kind |-> written.kind, type |-> t, from |-> index,
                 array |-> written.array]
    BY <1>6 DEF CopyTo
  <2>2. length - index >= Len(view)
    <3>1. counts[t] = Len(view) /\ length - index >= counts[t]
      BY <1>6 DEF Fits, CountOf, StoreInv, CountsMatch
    <3> HIDE DEF view
    <3> QED
      BY <3>1
  <2>3. CopyOf(written, view, length, index) /\ written \in Copies(length)
    BY <1>1, <2>2, WrittenCopies
  <2>4. view \in Seq(Events)
    BY <1>1, OfTypeSeq
  <2> HIDE DEF view, written
  <2>5. /\ last'.kind = written.kind /\ last'.type = t /\ last'.from = index
        /\ last'.array = written.array
    BY <2>1
  <2>6. written.kind \in Kinds /\ written.kind # "IndexOutOfRangeException"
    BY <2>3 DEF CopyOf, Copies
  <2>7. EnumerationComplete'
    BY <2>5, <2>6 DEF EnumerationComplete, Kinds
  <2>8. ASSUME written.kind = "copied", NEW i \in DOMAIN written.array
        PROVE  written.array[i] = IF i - index + 1 \in DOMAIN view
                                    THEN view[i - index + 1] ELSE Nothing
    <3>1. i \in 0 .. length - 1
      BY <2>3, <2>8 DEF Copies, Slots
    <3>2. written.array[i] = Slot(view, i - index + 1)
      BY <2>3, <2>8, <3>1 DEF CopyOf
    <3>3. DOMAIN view = 1 .. Len(view)
      BY <2>4
    <3> QED
      BY <3>2, <3>3, Zenon DEF Slot
  <2>9. items' = items
    BY <1>1
  <2>10. CopyToFits'
    BY <2>5, <2>6, <2>8, <2>9, Zenon DEF CopyToFits, view
  <2> QED
    BY <1>2, <1>3, <1>4, <2>7, <2>10 DEF StoreInv
<1> QED
  BY <1>5, <1>6

LEMMA StoreNextKeeps ==
  ASSUME StoreInv, StoreNext
  PROVE  StoreInv'
<1>1. CASE Write
  <2>1. \/ \E e \in Events : Add(e) \/ RemoveItem(e)
        \/ ClearAll
        \/ \E t \in Counted : ClearView(t)
    BY <1>1, Zenon DEF Write
  <2> QED
    BY <2>1, AddKeeps, RemoveItemKeeps, ClearAllKeeps, ClearViewKeeps, Zenon
<1>2. CASE Read
  <2>1. PICK r \in Readers :
          \/ \E what \in Counted \cup {Everything} : GetEnumerator(r, what)
          \/ MoveNext(r) \/ MoveNextEnds(r) \/ MoveNextThrows(r) \/ Break(r)
    BY <1>2, Zenon DEF Read
  <2> QED
    BY <2>1, GetEnumeratorKeeps, MoveNextKeeps, MoveNextEndsKeeps,
       MoveNextThrowsKeeps, Zenon
<1>3. CASE Copy
  <2>1. PICK t \in Counted, length \in 0 .. MaxArray :
          \E index \in 0 .. length + 1 : CopyTo(t, length, index)
    BY <1>3, Zenon DEF Copy
  <2>2. PICK index \in 0 .. length + 1 : CopyTo(t, length, index)
    BY <2>1
  <2>3. length \in Nat /\ index \in Nat
    BY ConstantsAssumption
  <2> QED
    BY <2>2, <2>3, CopyToKeeps
<1> QED
  BY <1>1, <1>2, <1>3 DEF StoreNext

(* Nothing has changed.                                                    *)
LEMMA StoreStutters ==
  ASSUME StoreInv, UNCHANGED vars
  PROVE  StoreInv'
<1>1. /\ items' = items /\ counts' = counts /\ last' = last
      /\ UNCHANGED <<items, readers>>
  BY DEF vars
<1>2. TypeOK'
  BY <1>1 DEF StoreInv, TypeOK, readers
<1>3. CountsMatch' /\ EnumerationComplete' /\ CopyToFits'
  BY <1>1, Zenon DEF StoreInv, CountsMatch, EnumerationComplete, CopyToFits
<1>4. ReadersCurrent'
  BY <1>1, SameReaders DEF StoreInv
<1> QED
  BY <1>2, <1>3, <1>4 DEF StoreInv

LEMMA BoundedIsSeq ==
  ASSUME NEW S, NEW T \in SUBSET S, NEW n, NEW s \in BoundedSeq(T, n)
  PROVE  s \in Seq(S)
BY DEF BoundedSeq, SeqOf

-----------------------------------------------------------------------------
(* The constructors, and the store that is being built.                    *)

LEMMA StoreInitHolds ==
  ASSUME StoreInit
  PROVE  StoreInv
<1>1. items \in Seq(Events)
  BY BoundedIsSeq DEF StoreInit
<1>2. NoCounts \in CountsOf /\ \A t \in Counted : NoCounts[t] = 0
  BY DEF NoCounts, CountsOf
<1>3. /\ AddRange(NoCounts, items) \in CountsOf
      /\ \A t \in Counted : AddRange(NoCounts, items)[t] = 0 + Len(OfType(items, t))
  BY <1>1, <1>2, AddRangeCounts
<1>4. \A t \in Counted : OfType(items, t) \in Seq(Events)
  BY <1>1, OfTypeSeq
<1>5. counts = AddRange(NoCounts, items)
  BY DEF StoreInit
<1>6. CountsMatch
  <2>1. ASSUME NEW t \in Counted PROVE counts[t] = Len(OfType(items, t))
    <3>1. counts[t] = 0 + Len(OfType(items, t)) /\ OfType(items, t) \in Seq(Events)
      BY <1>3, <1>4, <1>5, Zenon
    <3> QED
      BY <3>1
  <2> QED
    BY <2>1 DEF CountsMatch
<1>7. TypeOK
  BY <1>1, <1>3, <1>5 DEF TypeOK, StoreInit
<1>8. ASSUME NEW r \in Readers PROVE ReaderCurrent(r)
  <2>1. at[r] = 0 /\ seen[r] = <<>> /\ Len(items) \in Nat /\ SubSeq(items, 1, 0) = <<>>
    BY <1>1, SubSeqEmpty DEF StoreInit
  <2>2. View(<<>>, over[r]) = <<>>
    BY ViewEmpty
  <2>3. at[r] <= Len(items)
    BY <2>1
  <2> QED
    BY <2>1, <2>2, <2>3, Zenon DEF ReaderCurrent
<1>9. EnumerationComplete /\ CopyToFits
  BY DEF StoreInit, NoResult, EnumerationComplete, CopyToFits
<1> QED
  BY <1>6, <1>7, <1>8, <1>9 DEF StoreInv, ReadersCurrent

(* The accessor counts what it puts in place of the events it takes out.   *)
LEMMA ReplaceKeeps ==
  ASSUME StoreInv, NEW t \in Counted, NEW new \in Seq(Events), Replace(t, new),
         UNCHANGED <<readers, last>>, last = NoResult,
         \A r \in Readers : phase[r] # "reading"
  PROVE  StoreInv'
<1> DEFINE c == [counts EXCEPT ![t] = 0]
           kept == Compact(items, t)
<1>1. items \in Seq(Events) /\ kept \in Seq(Events)
  BY CompactKeepsOthers DEF StoreInv, TypeOK
<1>2. c \in CountsOf /\ \A u \in Counted : c[u] = Len(OfType(kept, u))
  BY CompactCounts
<1>3. items' = kept \o new /\ counts' = AddRange(c, new)
  BY DEF Replace
<1> HIDE DEF c, kept
<1>4. /\ counts' \in CountsOf
      /\ \A u \in Counted : counts'[u] = c[u] + Len(OfType(new, u))
  BY <1>2, <1>3, AddRangeCounts, Zenon
<1>5. ASSUME NEW u \in Counted PROVE counts'[u] = Len(OfType(items', u))
  <2>1. OfType(kept \o new, u) = OfType(kept, u) \o OfType(new, u)
    BY <1>1, OfTypeConcat
  <2>2. OfType(kept, u) \in Seq(Events) /\ OfType(new, u) \in Seq(Events)
    BY <1>1, OfTypeSeq
  <2>3. Len(OfType(kept, u) \o OfType(new, u)) =
          Len(OfType(kept, u)) + Len(OfType(new, u))
    BY <2>2, LenProperties
  <2> QED
    BY <1>2, <1>3, <1>4, <2>1, <2>3, Zenon
<1>6. TypeOK'
  <2>1. items' \in Seq(Events)
    BY <1>1, <1>3
  <2> QED
    BY <1>4, <2>1 DEF StoreInv, TypeOK, readers
<1>7. CountsMatch'
  BY <1>5 DEF CountsMatch
<1>8. ASSUME NEW r \in Readers PROVE ReaderCurrent(r)'
  <2>1. at[r] = 0 /\ seen[r] = <<>>
    BY DEF StoreInv, ReadersCurrent, ReaderCurrent
  <2>2. at'[r] = 0 /\ seen'[r] = <<>>
    BY <2>1 DEF readers
  <2> QED
    BY <1>6, <2>2, StartsCurrent
<1>9. EnumerationComplete' /\ CopyToFits'
  BY NoResultFits
<1> QED
  BY <1>6, <1>7, <1>8, <1>9 DEF StoreInv, ReadersCurrent

LEMMA MessageInitHolds ==
  ASSUME MessageInit
  PROVE  MessageInv
<1>1. StoreInv /\ built = FALSE
  BY StoreInitHolds DEF MessageInit
<1>2. NotSeenYet
  BY DEF MessageInit, StoreInit, NotSeenYet
<1> QED
  BY <1>1, <1>2 DEF MessageInv

LEMMA MessageNextKeeps ==
  ASSUME MessageInv, [MessageNext]_messageVars
  PROVE  MessageInv'
<1>1. CASE InitView
  <2>1. /\ ~ built /\ UNCHANGED <<readers, last, built>> /\ StoreInv
        /\ last = NoResult /\ \A r \in Readers : phase[r] = "none"
    BY <1>1 DEF InitView, MessageInv, NotSeenYet
  <2>2. PICK t \in Counted :
          \E new \in BoundedSeq({ e \in Events \ Impostors : TypeOf[e] = t },
                                MaxItems - Len(Compact(items, t))) : Replace(t, new)
    BY <1>1 DEF InitView
  <2>3. PICK new \in Seq(Events) : Replace(t, new)
    <3>1. { e \in Events \ Impostors : TypeOf[e] = t } \in SUBSET Events
      OBVIOUS
    <3> QED
      BY <2>2, <3>1, BoundedIsSeq
  <2>4. StoreInv'
    <3>1. \A r \in Readers : phase[r] # "reading"
      BY <2>1
    <3>2. UNCHANGED <<readers, last>>
      BY <2>1
    <3> QED
      BY <2>1, <2>3, <3>1, <3>2, ReplaceKeeps
  <2>5. NotSeenYet'
    BY <2>1 DEF NotSeenYet, readers
  <2> QED
    BY <2>1, <2>4, <2>5 DEF MessageInv
<1>2. CASE Built
  <2>1. StoreInv /\ UNCHANGED vars /\ built' = TRUE
    BY <1>2 DEF Built, MessageInv
  <2>2. StoreInv'
    BY <2>1, StoreStutters
  <2> QED
    BY <2>1, <2>2 DEF MessageInv, NotSeenYet
<1>3. CASE built /\ StoreNext /\ UNCHANGED built
  <2>1. StoreInv'
    BY <1>3, StoreNextKeeps DEF MessageInv
  <2> QED
    BY <1>3, <2>1 DEF MessageInv, NotSeenYet
<1>4. CASE UNCHANGED messageVars
  <2>1. StoreInv /\ UNCHANGED vars /\ built' = built
    BY <1>4 DEF messageVars, MessageInv
  <2>2. StoreInv'
    BY <2>1, StoreStutters
  <2>3. NotSeenYet'
    BY <2>1 DEF MessageInv, NotSeenYet, vars, readers
  <2> QED
    BY <2>1, <2>2, <2>3 DEF MessageInv
<1> QED
  BY <1>1, <1>2, <1>3, <1>4 DEF MessageNext

-----------------------------------------------------------------------------
(* What the stores promise.                                                *)

(* The inductive invariant, of the store of tracker events.                *)
THEOREM StoreInvariant == Spec => []StoreInv
<1>1. StoreInit => StoreInv
  BY StoreInitHolds
<1>2. StoreInv /\ [StoreNext]_vars => StoreInv'
  BY StoreNextKeeps, StoreStutters
<1> QED
  BY <1>1, <1>2, PTL DEF Spec

(* And of the store of messages, accessors of its initializer included.    *)
THEOREM MessageInvariant == MessageSpec => []MessageInv
<1>1. MessageInit => MessageInv
  BY MessageInitHolds
<1>2. MessageInv /\ [MessageNext]_messageVars => MessageInv'
  BY MessageNextKeeps
<1> QED
  BY <1>1, <1>2, PTL DEF MessageSpec

(* Count of a view is the length of the collection it stands for, in every *)
(* state, whatever Add, Remove, Clear, AddRange and Replace did before.    *)
THEOREM MessageCountsMatch == MessageSpec => []CountsMatch
<1>1. MessageInv => CountsMatch
  BY DEF MessageInv, StoreInv
<1> QED
  BY <1>1, MessageInvariant, PTL

(* An enumeration that ends normally has yielded the collection as it is   *)
(* when it ends: a change under way cannot go unnoticed.                   *)
THEOREM MessageEnumerationComplete == MessageSpec => []EnumerationComplete
<1>1. MessageInv => EnumerationComplete
  BY DEF MessageInv, StoreInv
<1> QED
  BY <1>1, MessageInvariant, PTL

(* CopyTo of a view writes all of it or refuses: the count it asks is the  *)
(* number of events its loop will write.                                   *)
THEOREM MessageCopyToFits == MessageSpec => []CopyToFits
<1>1. MessageInv => CopyToFits
  BY DEF MessageInv, StoreInv
<1> QED
  BY <1>1, MessageInvariant, PTL

-----------------------------------------------------------------------------
(* What a call may do.                                                     *)

LEMMA OfTypeNone ==
  ASSUME NEW s \in Seq(Events), NEW t, \A j \in 1 .. Len(s) : TypeOf[s[j]] # t
  PROVE  OfType(s, t) = <<>>
<1> DEFINE k == Len(s)
           m == 0
<1>1. /\ m \in 0 .. Len(s) /\ k \in m .. Len(s) /\ m + 1 = 1
      /\ SubSeq(s, 1, k) = s /\ SubSeq(s, 1, m) = <<>>
  BY SubSeqFull, SubSeqEmpty
<1> HIDE DEF k, m
<1>2. \A j \in m + 1 .. k : TypeOf[s[j]] # t
  BY <1>1 DEF k
<1>3. OfType(SubSeq(s, 1, k), t) = OfType(SubSeq(s, 1, m), t)
  BY <1>1, <1>2, OfTypeSkips
<1> QED
  BY <1>1, <1>3, OfTypeEmpty, Zenon

Untouched ==
  \/ items' = <<>>
  \/ \E t \in Types : \A u \in Types \ {t} : OfType(items', u) = OfType(items, u)

LEMMA SameUntouched ==
  ASSUME items' = items
  PROVE  Untouched
<1>1. \A u \in Types \ {Unknown} : OfType(items', u) = OfType(items, u)
  BY Zenon
<1>2. Unknown \in Types
  BY DEF Types
<1> QED
  BY <1>1, <1>2, Zenon DEF Untouched

LEMMA StoreNextUntouched ==
  ASSUME StoreInv, StoreNext
  PROVE  Untouched
<1>1. items \in Seq(Events) /\ \A e \in Events : TypeOf[e] \in Types
  BY ConstantsAssumption DEF StoreInv, TypeOK
<1>2. CASE \E e \in Events : Add(e)
  <2>1. PICK e \in Events : items' = Append(items, e)
    BY <1>2 DEF Add, Change
  <2>2. ASSUME NEW u \in Types \ {TypeOf[e]}
        PROVE  OfType(items', u) = OfType(items, u)
    <3>1. OfType(Append(items, e), u) = OfType(items, u)
      BY <1>1, OfTypeAppend
    <3> QED
      BY <2>1, <3>1, Zenon
  <2> QED
    BY <1>1, <2>2, Zenon DEF Untouched
<1>3. CASE \E e \in Events : RemoveItem(e)
  <2>1. PICK e \in Events : Contains(items, e) /\ items' = RemoveFirst(items, e)
    BY <1>3, Zenon DEF RemoveItem, Change
  <2>2. ASSUME NEW u \in Types \ {TypeOf[e]}
        PROVE  OfType(items', u) = OfType(items, u)
    <3>1. TypeOf[e] # u
      OBVIOUS
    <3>2. OfType(RemoveFirst(items, e), u) = OfType(items, u)
      BY <1>1, <2>1, <3>1, OfTypeRemoved, Zenon
    <3> QED
      BY <2>1, <3>2, Zenon
  <2> QED
    BY <1>1, <2>2, Zenon DEF Untouched
<1>4. CASE ClearAll
  BY <1>4 DEF ClearAll, Change, Untouched
<1>5. CASE \E t \in Counted : ClearView(t)
  <2>1. PICK t \in Counted : items' = items \/ items' = Compact(items, t)
    BY <1>5, Zenon DEF ClearView, Change
  <2>2. CASE items' = Compact(items, t)
    <3>1. ASSUME NEW u \in Types \ {t} PROVE OfType(items', u) = OfType(items, u)
      <4>1. OfType(Compact(items, t), u) = OfType(items, u)
        BY <1>1, CompactKeepsOthers
      <4> QED
        BY <2>2, <4>1, Zenon
    <3> QED
      BY <3>1, Zenon DEF Untouched, Types
  <2> QED
    BY <2>1, <2>2, SameUntouched
<1>6. CASE Read \/ Copy
  <2>1. items' = items
    BY <1>6, Zenon DEF Read, Copy, GetEnumerator, MoveNext, MoveNextEnds,
       MoveNextThrows, Break, Close, CopyTo
  <2> QED
    BY <2>1, SameUntouched
<1> QED
  BY <1>2, <1>3, <1>4, <1>5, <1>6, Zenon DEF StoreNext, Write

LEMMA InitViewUntouched ==
  ASSUME StoreInv, InitView
  PROVE  Untouched
<1>1. PICK t \in Counted :
        \E new \in BoundedSeq({ e \in Events \ Impostors : TypeOf[e] = t },
                              MaxItems - Len(Compact(items, t))) : Replace(t, new)
  BY DEF InitView
<1> DEFINE E == { e \in Events \ Impostors : TypeOf[e] = t }
<1>2. PICK new \in Seq(E) : Replace(t, new)
  <2> HIDE DEF E
  <2>1. E \in SUBSET E
    OBVIOUS
  <2> QED
    BY <1>1, <2>1, BoundedIsSeq DEF E
<1> DEFINE kept == Compact(items, t)
<1>3. /\ items \in Seq(Events) /\ items' = kept \o new
      /\ kept \in Seq(Events) /\ new \in Seq(Events)
      /\ \A j \in 1 .. Len(new) : TypeOf[new[j]] = t
  <2>1. items \in Seq(Events) /\ items' = kept \o new
    BY <1>2 DEF StoreInv, TypeOK, Replace
  <2>2. new \in Seq(Events)
    BY <1>2
  <2>3. \A j \in 1 .. Len(new) : new[j] \in E
    BY <1>2
  <2> QED
    BY <2>1, <2>2, <2>3, CompactKeepsOthers
<1>4. ASSUME NEW u \in Types \ {t} PROVE OfType(items', u) = OfType(items, u)
  <2>1. OfType(kept, u) = OfType(items, u) /\ OfType(items, u) \in Seq(Events)
    BY <1>3, CompactKeepsOthers, OfTypeSeq
  <2>2. OfType(new, u) = <<>>
    <3>1. \A j \in 1 .. Len(new) : TypeOf[new[j]] # u
      BY <1>3
    <3> QED
      BY <1>3, <3>1, OfTypeNone
  <2> HIDE DEF kept
  <2>3. OfType(kept \o new, u) = OfType(kept, u) \o OfType(new, u)
    BY <1>3, OfTypeConcat
  <2>4. OfType(items, u) \o <<>> = OfType(items, u)
    BY <2>1, ConcatEmptySeq
  <2> QED
    BY <1>3, <2>1, <2>2, <2>3, <2>4, Zenon
<1> QED
  BY <1>4, Zenon DEF Untouched, Types

(* A call changes the events of one type at most, save Clear of the store. *)
THEOREM MessageOthersUntouched == MessageSpec => OthersUntouched
<1>1. ASSUME MessageInv, [MessageNext]_messageVars PROVE [Untouched]_vars
  <2>1. StoreInv
    BY <1>1 DEF MessageInv
  <2>2. CASE InitView
    BY <2>1, <2>2, InitViewUntouched
  <2>3. CASE built /\ StoreNext /\ UNCHANGED built
    BY <2>1, <2>3, StoreNextUntouched
  <2>4. CASE UNCHANGED vars
    BY <2>4
  <2> QED
    BY <1>1, <2>2, <2>3, <2>4 DEF MessageNext, Built, messageVars
<1> QED
  BY <1>1, MessageInvariant, PTL DEF MessageSpec, OthersUntouched, Untouched

Yields ==
  \A r \in Readers : Len(seen'[r]) > Len(seen[r]) =>
    seen'[r] = View(SubSeq(items, 1, at'[r]), over[r])

LEMMA MoveNextYields ==
  ASSUME StoreInv, StoreInv', NEW r \in Readers, MoveNext(r)
  PROVE  seen'[r] = View(SubSeq(items, 1, at'[r]), over[r])
<1>1. /\ items' = items /\ over' = over /\ stale' = stale /\ ~ stale[r]
  BY DEF MoveNext
<1>2. ~ stale'[r] => seen'[r] = View(SubSeq(items', 1, at'[r]), over'[r])
  <2>1. ReaderCurrent(r)'
    BY DEF StoreInv, ReadersCurrent
  <2> QED
    BY <2>1, Zenon DEF ReaderCurrent
<1> QED
  BY <1>1, <1>2, Zenon

LEMMA StoreNextYields ==
  ASSUME StoreInv, StoreInv', StoreNext
  PROVE  Yields
<1>1. seen \in [Readers -> Seq(Events)] /\ seen' \in [Readers -> Seq(Events)]
  BY DEF StoreInv, TypeOK
<1>2. ASSUME seen' = seen PROVE Yields
  <2>1. ASSUME NEW r \in Readers PROVE ~ (Len(seen'[r]) > Len(seen[r]))
    <3>1. Len(seen[r]) \in Nat /\ seen'[r] = seen[r]
      BY <1>1, <1>2
    <3> QED
      BY <3>1
  <2> QED
    BY <2>1, Zenon DEF Yields
<1>3. ASSUME NEW r \in Readers, \A q \in Readers \ {r} : seen'[q] = seen[q],
             Len(seen'[r]) > Len(seen[r]) =>
               seen'[r] = View(SubSeq(items, 1, at'[r]), over[r])
      PROVE  Yields
  <2>1. ASSUME NEW q \in Readers, q # r PROVE ~ (Len(seen'[q]) > Len(seen[q]))
    <3>1. Len(seen[q]) \in Nat /\ seen'[q] = seen[q]
      BY <1>1, <1>3, <2>1
    <3> QED
      BY <3>1
  <2> QED
    BY <1>3, <2>1, Zenon DEF Yields
<1>4. CASE Write \/ Copy
  <2>1. seen' = seen
    BY <1>4, Zenon DEF Write, Copy, Add, RemoveItem, ClearAll, ClearView, Change,
       CopyTo, readers
  <2> QED
    BY <1>2, <2>1
<1>5. CASE Read
  <2>1. PICK r \in Readers :
          \/ \E what \in Counted \cup {Everything} : GetEnumerator(r, what)
          \/ MoveNext(r) \/ MoveNextEnds(r) \/ MoveNextThrows(r) \/ Break(r)
    BY <1>5, Zenon DEF Read
  <2>2. CASE MoveNext(r)
    <3>1. \A q \in Readers \ {r} : seen'[q] = seen[q]
      BY <1>1, <2>2 DEF MoveNext
    <3>2. seen'[r] = View(SubSeq(items, 1, at'[r]), over[r])
      BY <2>2, MoveNextYields
    <3> QED
      BY <1>3, <3>1, <3>2, Zenon
  <2>3. CASE ~ MoveNext(r)
    <3>1. seen' = [seen EXCEPT ![r] = <<>>]
      BY <2>1, <2>3, Zenon DEF GetEnumerator, MoveNextEnds, MoveNextThrows, Break, Close
    <3>2. seen'[r] = <<>> /\ \A q \in Readers \ {r} : seen'[q] = seen[q]
      BY <1>1, <3>1
    <3>3. ~ (Len(seen'[r]) > Len(seen[r]))
      BY <1>1, <3>2
    <3> QED
      BY <1>3, <3>2, <3>3, Zenon
  <2> QED
    BY <2>2, <2>3
<1> QED
  BY <1>4, <1>5 DEF StoreNext

(* What MoveNext yields continues what has been yielded to a beginning of  *)
(* the collection as it is at that time.                                   *)
THEOREM MessageYieldsCurrent == MessageSpec => YieldsCurrent
<1>1. ASSUME MessageInv, MessageInv', [MessageNext]_messageVars PROVE [Yields]_vars
  <2>1. StoreInv /\ StoreInv'
    BY <1>1 DEF MessageInv
  <2>2. CASE InitView
    <3>1. \A r \in Readers : ~ (Len(seen'[r]) > Len(seen[r]))
      <4>1. ASSUME NEW r \in Readers PROVE ~ (Len(seen'[r]) > Len(seen[r]))
        <5>1. Len(seen[r]) \in Nat /\ seen'[r] = seen[r]
          BY <2>1, <2>2 DEF StoreInv, TypeOK, InitView, readers
        <5> QED
          BY <5>1
      <4> QED
        BY <4>1
    <3> QED
      BY <3>1, Zenon DEF Yields
  <2>3. CASE built /\ StoreNext /\ UNCHANGED built
    BY <2>1, <2>3, StoreNextYields
  <2>4. CASE UNCHANGED vars
    BY <2>4
  <2> QED
    BY <1>1, <2>2, <2>3, <2>4 DEF MessageNext, Built, messageVars
<1> QED
  BY <1>1, MessageInvariant, PTL DEF MessageSpec, YieldsCurrent, Yields

=============================================================================
