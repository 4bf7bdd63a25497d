------------------------------ MODULE CmdProofs ------------------------------
(***************************************************************************)
(* Proofs about Cmd: that the child is started with what the builder calls *)
(* say, that its end is reported as what it was, and that captured output  *)
(* is complete, for every number of builder calls, every environment and   *)
(* script, and every pipe size.                                            *)
(***************************************************************************)
EXTENDS Cmd, FiniteSetTheorems, FunctionTheorems, SequenceTheorems, WellFoundedInduction, TLAPS

Texts == Keys \cup Values
Pairs == Keys \X Values

-----------------------------------------------------------------------------
(* The flat list. *)

LEMMA EvenHalf ==
  ASSUME NEW n \in Nat, n % 2 = 0
  PROVE  n \div 2 \in Nat /\ n = 2 * (n \div 2)
OBVIOUS

LEMMA TwiceHalf ==
  ASSUME NEW n \in Nat
  PROVE  /\ (2 * n) % 2 = 0 /\ (2 * n) \div 2 = n
         /\ n # 0 => /\ (2 * n - 1) % 2 = 1
                     /\ ((2 * n - 1) + 1) \div 2 = n
OBVIOUS

(* What a flat list holds at the two places of a pair. *)
LEMMA FlatPair ==
  ASSUME NEW pairs \in Seq(Pairs)
  PROVE  /\ Flat(pairs) \in Seq(Texts)
         /\ Len(Flat(pairs)) = 2 * Len(pairs)
         /\ \A i \in 1..Len(pairs) : /\ Flat(pairs)[2 * i - 1] = pairs[i][1]
                                     /\ Flat(pairs)[2 * i] = pairs[i][2]
<1> DEFINE L == Len(pairs)
<1>1. L \in Nat /\ \A i \in 1..L : pairs[i] \in Pairs
  OBVIOUS
<1>2. ASSUME NEW n \in 1..(2 * L)
      PROVE  /\ n % 2 = 1 => (n + 1) \div 2 \in 1..L
             /\ n % 2 # 1 => n \div 2 \in 1..L
  BY <1>1
<1>3. \A n \in 1..(2 * L) : Flat(pairs)[n] \in Texts
  BY <1>1, <1>2 DEF Flat, Texts, Pairs
<1>4. Flat(pairs) \in [1..(2 * L) -> Texts]
  BY <1>3 DEF Flat
<1>5. Flat(pairs) \in Seq(Texts) /\ Len(Flat(pairs)) = 2 * L
  BY <1>4, <1>1
<1>6. ASSUME NEW i \in 1..L
      PROVE  Flat(pairs)[2 * i - 1] = pairs[i][1] /\ Flat(pairs)[2 * i] = pairs[i][2]
  <2>1. 2 * i - 1 \in 1..(2 * L) /\ 2 * i \in 1..(2 * L) /\ i \in Nat /\ i # 0
    BY <1>1
  <2>2. (2 * i - 1) % 2 = 1 /\ ((2 * i - 1) + 1) \div 2 = i /\ (2 * i) % 2 # 1 /\ (2 * i) \div 2 = i
    BY <2>1, TwiceHalf
  <2> QED BY <2>1, <2>2 DEF Flat
<1> QED BY <1>5, <1>6

LEMMA FlatOne ==
  ASSUME NEW k \in Keys, NEW v \in Values
  PROVE  Flat(<<<<k, v>>>>) = <<k, v>>
<1> DEFINE p == <<<<k, v>>>>
<1>1. p \in Seq(Pairs) /\ Len(p) = 1 /\ p[1] = <<k, v>>
  BY DEF Pairs
<1> HIDE DEF p
<1>2. Flat(p) \in Seq(Texts) /\ Len(Flat(p)) = 2 * 1
  BY <1>1, FlatPair
<1>3. Flat(p)[2 * 1 - 1] = k /\ Flat(p)[2 * 1] = v
  BY <1>1, FlatPair
<1>4. <<k, v>> \in Seq(Texts) /\ Len(<<k, v>>) = 2 /\ <<k, v>>[1] = k /\ <<k, v>>[2] = v
  BY DEF Texts
<1>5. \A i \in 1..2 : Flat(p)[i] = <<k, v>>[i]
  BY <1>3, <1>4
<1>6. Flat(p) = <<k, v>>
  BY <1>2, <1>4, <1>5, SeqEqual
<1> QED BY <1>6 DEF p

LEMMA ChunksSeq ==
  ASSUME NEW flat \in Seq(Texts), Len(flat) % 2 = 0
  PROVE  /\ Chunks(flat) \in Seq(Texts \X Texts)
         /\ Len(flat) = 2 * Len(Chunks(flat))
         /\ \A i \in 1..Len(Chunks(flat)) : Chunks(flat)[i] = <<flat[2 * i - 1], flat[2 * i]>>
<1> DEFINE h == Len(flat) \div 2
<1>1. h \in Nat /\ Len(flat) = 2 * h
  BY EvenHalf
<1>2. \A i \in 1..h : 2 * i - 1 \in 1..Len(flat) /\ 2 * i \in 1..Len(flat)
  BY <1>1
<1>3. \A i \in 1..h : Chunks(flat)[i] = <<flat[2 * i - 1], flat[2 * i]>>
  BY DEF Chunks
<1>4. Chunks(flat) \in [1..h -> Texts \X Texts]
  BY <1>2 DEF Chunks
<1>5. Chunks(flat) \in Seq(Texts \X Texts) /\ Len(Chunks(flat)) = h
  BY <1>1, <1>4
<1> QED BY <1>1, <1>3, <1>5

LEMMA ChunksNothing ==
  ASSUME NEW flat, flat = <<>>
  PROVE  Chunks(flat) = <<>>
<1>1. flat \in Seq(Texts) /\ Len(flat) = 0 /\ 0 % 2 = 0
  OBVIOUS
<1>2. /\ Chunks(flat) \in Seq(Texts \X Texts) /\ Len(flat) = 2 * Len(Chunks(flat))
  BY <1>1, ChunksSeq
<1>3. Len(Chunks(flat)) \in Nat
  BY <1>2
<1>4. Len(Chunks(flat)) = 0
  BY <1>1, <1>2, <1>3
<1> QED BY <1>2, <1>4, EmptySeq

(* Where the elements of two sequences are in their concatenation. *)
LEMMA AppendPlaces ==
  ASSUME NEW S, NEW s \in Seq(S), NEW t \in Seq(S), NEW c, c = Len(s), NEW l, l = Len(t)
  PROVE  /\ s \o t \in Seq(S) /\ Len(s \o t) = c + l
         /\ \A i \in 1..c : (s \o t)[i] = s[i]
         /\ \A m \in 1..l : (s \o t)[c + m] = t[m]
<1>1. c \in Nat /\ l \in Nat
  OBVIOUS
<1>2. /\ s \o t \in Seq(S) /\ Len(s \o t) = c + l
      /\ \A i \in 1..(c + l) : (s \o t)[i] = IF i <= c THEN s[i] ELSE t[i - c]
  BY ConcatProperties
<1>3. \A i \in 1..c : i \in 1..(c + l) /\ i <= c
  BY <1>1
<1>4. ASSUME NEW m \in 1..l
      PROVE  c + m \in 1..(c + l) /\ ~ (c + m <= c) /\ (c + m) - c = m
  BY <1>1
<1>5. ASSUME NEW m \in 1..l
      PROVE  (s \o t)[c + m] = t[m]
  <2>1. (s \o t)[c + m] = t[(c + m) - c]
    BY <1>2, <1>4
  <2> QED BY <2>1, <1>4
<1> QED BY <1>2, <1>3, <1>5

(* Pairs appended flat are the pairs appended. *)
LEMMA ChunksAppend ==
  ASSUME NEW flat \in Seq(Texts), Len(flat) % 2 = 0, NEW pairs \in Seq(Pairs)
  PROVE  /\ flat \o Flat(pairs) \in Seq(Texts)
         /\ Len(flat \o Flat(pairs)) % 2 = 0
         /\ Chunks(flat \o Flat(pairs)) = Chunks(flat) \o pairs
<1> DEFINE all == flat \o Flat(pairs)
           h == Len(Chunks(flat))
           L == Len(pairs)
<1>1. h \in Nat /\ L \in Nat /\ Len(flat) = 2 * h
  BY ChunksSeq
<1>2. all \in Seq(Texts) /\ Len(all) = 2 * (h + L)
  <2>1. Flat(pairs) \in Seq(Texts) /\ Len(Flat(pairs)) = 2 * L
    BY FlatPair
  <2>2. all \in Seq(Texts) /\ Len(all) = Len(flat) + Len(Flat(pairs))
    BY <2>1, ConcatProperties
  <2> HIDE DEF all, h, L
  <2> QED BY <2>1, <2>2, <1>1
<1>3. Len(all) % 2 = 0
  BY <1>1, <1>2, TwiceHalf
<1>4. Len(Chunks(all)) = h + L
  <2> HIDE DEF all, h, L
  <2>1. Len(all) = 2 * Len(Chunks(all)) /\ Len(Chunks(all)) \in Nat
    BY <1>2, <1>3, ChunksSeq
  <2> QED BY <2>1, <1>1, <1>2
<1>5. pairs \in Seq(Texts \X Texts)
  BY DEF Pairs, Texts
<1>6. ASSUME NEW i \in 1..(h + L)
      PROVE  Chunks(all)[i] = (Chunks(flat) \o pairs)[i]
  <2>1. Chunks(all)[i] = <<all[2 * i - 1], all[2 * i]>>
    BY <1>2, <1>3, <1>4, ChunksSeq
  <2>2. CASE i <= h
    <3>1. i \in 1..h /\ 2 * i - 1 \in 1..(2 * h) /\ 2 * i \in 1..(2 * h)
      BY <2>2, <1>1
    <3>2. all[2 * i - 1] = flat[2 * i - 1] /\ all[2 * i] = flat[2 * i]
      BY <3>1, <1>1, FlatPair
    <3>3. Chunks(flat)[i] = <<flat[2 * i - 1], flat[2 * i]>>
      BY <3>1, ChunksSeq
    <3>4. (Chunks(flat) \o pairs)[i] = Chunks(flat)[i]
      BY <3>1, <1>1, <1>5, ChunksSeq
    <3> QED BY <2>1, <3>2, <3>3, <3>4
  <2>3. CASE i > h
    <3> DEFINE j == i - h
    <3>1. j \in 1..L /\ i = h + j /\ j \in Nat
      BY <2>3, <1>1
    <3>2. 2 * i - 1 = Len(flat) + (2 * j - 1) /\ 2 * i = Len(flat) + 2 * j
          /\ 2 * j - 1 \in 1..(2 * L) /\ 2 * j \in 1..(2 * L)
      BY <3>1, <1>1
    <3>3. Flat(pairs) \in Seq(Texts) /\ Len(Flat(pairs)) = 2 * L
          /\ Flat(pairs)[2 * j - 1] = pairs[j][1] /\ Flat(pairs)[2 * j] = pairs[j][2]
      BY <3>1, FlatPair
    <3>4. all[2 * i - 1] = Flat(pairs)[2 * j - 1] /\ all[2 * i] = Flat(pairs)[2 * j]
      <4>1. \A m \in 1..(2 * L) : all[Len(flat) + m] = Flat(pairs)[m]
        <5>1. \A n \in 1..(Len(flat) + Len(Flat(pairs))) :
                all[n] = IF n <= Len(flat) THEN flat[n] ELSE Flat(pairs)[n - Len(flat)]
          BY <3>3, ConcatProperties
        <5> HIDE DEF all, h, L, j
        <5>2. ASSUME NEW m \in 1..(2 * L)
              PROVE  all[Len(flat) + m] = Flat(pairs)[m]
          <6> DEFINE n == Len(flat) + m
          <6>1. n \in 1..(Len(flat) + Len(Flat(pairs))) /\ ~ (n <= Len(flat)) /\ n - Len(flat) = m
            BY <3>3, <1>1
          <6> HIDE DEF n
          <6>2. all[n] = Flat(pairs)[m]
            BY <5>1, <6>1
          <6> QED BY <6>2 DEF n
        <5> QED BY <5>2
      <4> QED BY <4>1, <3>2
    <3>5. pairs[j] = <<pairs[j][1], pairs[j][2]>>
      BY <3>1 DEF Pairs
    <3>6. (Chunks(flat) \o pairs)[i] = pairs[j]
      BY <3>1, <1>1, <1>5, ChunksSeq
    <3> QED BY <2>1, <3>3, <3>4, <3>5, <3>6
  <2> QED BY <2>2, <2>3, <1>1
<1>7. Chunks(all) \in Seq(Texts \X Texts)
  BY <1>2, <1>3, ChunksSeq
<1>8. Chunks(flat) \o pairs \in Seq(Texts \X Texts) /\ Len(Chunks(flat) \o pairs) = h + L
  BY <1>1, <1>5, ChunksSeq
<1> HIDE DEF all
<1>9. Chunks(all) = Chunks(flat) \o pairs
  BY <1>1, <1>4, <1>6, <1>7, <1>8, SeqEqual
<1> QED BY <1>2, <1>3, <1>9 DEF all
-----------------------------------------------------------------------------
(* The last pair for a key. *)

(* A nonempty set of numbers up to some bound has a greatest one. *)
LEMMA GreatestElement ==
  ASSUME NEW n \in Nat, NEW S \in SUBSET (1..n), S # {}
  PROVE  \E p \in S : \A q \in S : q <= p
<1> DEFINE T == {t \in Nat : n - t \in S}
<1>1. PICK s \in S : TRUE
  OBVIOUS
<1>2. n - s \in T
  OBVIOUS
<1>3. IsWellFoundedOn(OpToRel(<, Nat), Nat)
  BY NatLessThanWellFounded
<1>4. PICK t \in T : \A u \in T : ~ (<<u, t>> \in OpToRel(<, Nat))
  BY <1>2, <1>3, WFMin
<1>5. \A u \in T : ~ (u < t)
  BY <1>4 DEF OpToRel
<1>6. n - t \in S /\ \A q \in S : q <= n - t
  BY <1>5
<1> QED BY <1>6

LEMMA LastExists ==
  ASSUME NEW pairs \in Seq(Pairs), NEW k, Named(pairs, k)
  PROVE  \E i \in 1..Len(pairs) : LastFor(pairs, k, i)
<1> DEFINE S == {i \in 1..Len(pairs) : pairs[i][1] = k}
<1>1. Len(pairs) \in Nat /\ S \in SUBSET (1..Len(pairs)) /\ S # {}
  BY DEF Named
<1>2. PICK i \in S : \A j \in S : j <= i
  BY <1>1, GreatestElement
<1>3. \A j \in (i + 1)..Len(pairs) : j \in 1..Len(pairs) /\ j \notin S
  BY <1>1, <1>2
<1> QED BY <1>2, <1>3 DEF LastFor

(* There is one, so it is the one LastGiven chooses. *)
LEMMA LastIsGiven ==
  ASSUME NEW pairs, Len(pairs) \in Nat, NEW k, NEW i \in 1..Len(pairs), LastFor(pairs, k, i)
  PROVE  Named(pairs, k) /\ LastGiven(pairs, k) = pairs[i][2]
<1>1. ASSUME NEW j \in 1..Len(pairs), LastFor(pairs, k, j)
      PROVE  j = i
  <2>1. ~ (i < j) /\ ~ (j < i)
    BY <1>1 DEF LastFor
  <2> QED BY <2>1
<1>2. (CHOOSE j \in 1..Len(pairs) : LastFor(pairs, k, j)) = i
  BY <1>1
<1> QED BY <1>2 DEF LastGiven, Named, LastFor

-----------------------------------------------------------------------------
(* Places in the history. *)

(* The places of one call are as many as what it gives. *)
LEMMA RowSize ==
  ASSUME NEW N, NEW m \in Nat
  PROVE  IsFiniteSet({N} \X (1..m)) /\ Cardinality({N} \X (1..m)) = m
<1> DEFINE R == {N} \X (1..m)
           f == [i \in 1..m |-> <<N, i>>]
<1>1. IsFiniteSet(1..m) /\ Cardinality(1..m) = m
  BY FS_Interval
<1>2. f \in Bijection(1..m, R)
  <2>1. f \in [1..m -> R]
    OBVIOUS
  <2>2. \A a, b \in 1..m : f[a] = f[b] => a = b
    OBVIOUS
  <2>3. \A t \in R : \E s \in 1..m : f[s] = t
    OBVIOUS
  <2> QED BY <2>1, <2>2, <2>3, Fun_IsBij
<1>3. ExistsBijection(1..m, R)
  BY <1>2 DEF ExistsBijection
<1> QED BY <1>1, <1>3, FS_Bijection

(* All these places are in calls before the N-th. *)
Earlier(S, N) == \A q \in S : q[1] \in Nat /\ q[1] < N

(* Adding the row of a call adds what it gives ... *)
LEMMA RowAdded ==
  ASSUME NEW S, IsFiniteSet(S), NEW N \in Nat, Earlier(S, N), NEW m \in Nat,
         NEW all, all = S \cup ({N} \X (1..m))
  PROVE  IsFiniteSet(all) /\ Cardinality(all) = Cardinality(S) + m
<1> DEFINE R == {N} \X (1..m)
<1>1. IsFiniteSet(R) /\ Cardinality(R) = m
  BY RowSize
<1>2. S \cap R = {} /\ all = S \cup R
  BY DEF Earlier
<1>3. Cardinality(S) \in Nat /\ Cardinality({}) = 0
  BY FS_CardinalityType, FS_EmptySet
<1> HIDE DEF R
<1>4. /\ IsFiniteSet(S \cup R)
      /\ Cardinality(S \cup R) = Cardinality(S) + Cardinality(R) - Cardinality(S \cap R)
  BY <1>1, FS_Union
<1>5. Cardinality(S) + m - 0 = Cardinality(S) + m
  BY <1>3
<1> QED BY <1>1, <1>2, <1>3, <1>4, <1>5

(* ... leaves the rank of the earlier places ... *)
LEMMA OldRank ==
  ASSUME NEW S, NEW N \in Nat, Earlier(S, N), NEW L \in Nat,
         NEW all, all = S \cup ({N} \X (1..L)), NEW p \in S
  PROVE  UpTo(all, p) = UpTo(S, p)
BY DEF NotAfter, UpTo, Earlier

(* ... and ranks its own behind them. *)
LEMMA NewRank ==
  ASSUME NEW S, IsFiniteSet(S), NEW N \in Nat, Earlier(S, N), NEW L \in Nat,
         NEW all, all = S \cup ({N} \X (1..L)), NEW m \in 1..L
  PROVE  Cardinality(UpTo(all, <<N, m>>)) = Cardinality(S) + m
<1> DEFINE Row(n) == {N} \X (1..n)
<1>1. ASSUME NEW q \in Row(L)
      PROVE  NotAfter(q, <<N, m>>) <=> q \in Row(m)
  BY DEF NotAfter
<1>2. \A q \in S : NotAfter(q, <<N, m>>)
  BY DEF NotAfter, Earlier
<1>3. Row(m) \subseteq Row(L) /\ all = S \cup Row(L) /\ m \in Nat
  OBVIOUS
<1>4. UpTo(all, <<N, m>>) = S \cup Row(m)
  <2> HIDE DEF Row
  <2> QED BY <1>1, <1>2, <1>3 DEF UpTo
<1>5. \A u : u = S \cup ({N} \X (1..m)) => Cardinality(u) = Cardinality(S) + m
  BY <1>3, RowAdded
<1> QED BY <1>4, <1>5

-----------------------------------------------------------------------------
(* The history. *)

LEMMA CallGives ==
  ASSUME NEW call \in Calls
  PROVE  ArgsOf(call) \in Seq(Args) /\ PairsOf(call) \in Seq(Pairs)
<1>1. CASE call \in [op : {"arg"}, a : Args]
  BY <1>1 DEF ArgsOf, PairsOf
<1>2. CASE call \in [op : {"args"}, as : Seq(Args)]
  BY <1>2 DEF ArgsOf, PairsOf
<1>3. CASE call \in [op : {"env"}, kv : Keys \X Values]
  BY <1>3 DEF ArgsOf, PairsOf, Pairs
<1>4. CASE call \in [op : {"envs"}, kvs : EnvLists]
  BY <1>4, CmdAssumption DEF ArgsOf, PairsOf, Pairs
<1>5. CASE call \in [op : {"clear_envs"}]
  BY <1>5 DEF ArgsOf, PairsOf
<1> QED BY <1>1, <1>2, <1>3, <1>4, <1>5 DEF Calls

(* A place is the number of a call and a number within it. *)
LEMMA PlacesAreNumbers ==
  ASSUME built \in Seq(Calls)
  PROVE  /\ \A p \in ArgPlaces : p[1] \in Nat /\ p[2] \in Nat
         /\ \A p \in PairPlaces : p[1] \in Nat /\ p[2] \in Nat
<1>1. Len(built) \in Nat
  OBVIOUS
<1> QED BY <1>1 DEF ArgPlaces, PairPlaces

(* A call added leaves the places of the earlier ones as they were. *)
LEMMA HistoryGrows ==
  ASSUME built \in Seq(Calls), NEW call \in Calls, built' = Append(built, call),
         NEW N, N = Len(built) + 1
  PROVE  /\ N \in Nat /\ built' \in Seq(Calls)
         /\ ArgPlaces' = ArgPlaces \cup ({N} \X (1..Len(ArgsOf(call))))
         /\ \A p \in ArgPlaces : p[1] \in Nat /\ p[1] < N /\ ArgAt(p)' = ArgAt(p)
         /\ \A m : ArgAt(<<N, m>>)' = ArgsOf(call)[m]
         /\ PairPlaces' = PairPlaces \cup ({N} \X (1..Len(PairsOf(call))))
         /\ \A p \in PairPlaces : p[1] \in Nat /\ p[1] < N /\ PairAt(p)' = PairAt(p)
         /\ \A m : PairAt(<<N, m>>)' = PairsOf(call)[m]
         /\ Cleared' <=> Cleared \/ call.op = "clear_envs"
<1> DEFINE ArgRow(b, n) == {n} \X (1..Len(ArgsOf(b[n])))
           PairRow(b, n) == {n} \X (1..Len(PairsOf(b[n])))
<1>1. /\ Len(built) \in Nat /\ N \in Nat /\ built' \in Seq(Calls) /\ Len(built') = N
      /\ built'[N] = call /\ \A n \in 1..Len(built) : built'[n] = built[n]
  OBVIOUS
<1>2. 1..N = (1..Len(built)) \cup {N} /\ N \notin 1..Len(built)
  BY <1>1
<1>3. /\ ArgPlaces = UNION {ArgRow(built, n) : n \in 1..Len(built)}
      /\ ArgPlaces' = UNION {ArgRow(built', n) : n \in 1..N}
      /\ PairPlaces = UNION {PairRow(built, n) : n \in 1..Len(built)}
      /\ PairPlaces' = UNION {PairRow(built', n) : n \in 1..N}
  BY <1>1 DEF ArgPlaces, PairPlaces
<1>4. /\ \A n \in 1..Len(built) : ArgRow(built', n) = ArgRow(built, n)
      /\ \A n \in 1..Len(built) : PairRow(built', n) = PairRow(built, n)
      /\ ArgRow(built', N) = {N} \X (1..Len(ArgsOf(call)))
      /\ PairRow(built', N) = {N} \X (1..Len(PairsOf(call)))
  BY <1>1
<1>5. /\ \A n : \A p \in ArgRow(built, n) : p[1] = n
      /\ \A n : \A p \in PairRow(built, n) : p[1] = n
  OBVIOUS
<1> HIDE DEF ArgRow, PairRow
<1>6. ArgPlaces' = ArgPlaces \cup ({N} \X (1..Len(ArgsOf(call))))
  BY <1>2, <1>3, <1>4
<1>7. PairPlaces' = PairPlaces \cup ({N} \X (1..Len(PairsOf(call))))
  BY <1>2, <1>3, <1>4
<1>8. /\ \A p \in ArgPlaces : p[1] \in 1..Len(built)
      /\ \A p \in PairPlaces : p[1] \in 1..Len(built)
  BY <1>3, <1>5
<1>9. ASSUME NEW p \in ArgPlaces
      PROVE  p[1] \in Nat /\ p[1] < N /\ ArgAt(p)' = ArgAt(p)
  BY <1>1, <1>8 DEF ArgAt
<1>10. ASSUME NEW p \in PairPlaces
       PROVE  p[1] \in Nat /\ p[1] < N /\ PairAt(p)' = PairAt(p)
  BY <1>1, <1>8 DEF PairAt
<1>11. \A m : ArgAt(<<N, m>>)' = ArgsOf(call)[m] /\ PairAt(<<N, m>>)' = PairsOf(call)[m]
  BY <1>1 DEF ArgAt, PairAt
<1>12. Cleared' <=> Cleared \/ call.op = "clear_envs"
  BY <1>1, <1>2 DEF Cleared
<1> QED BY <1>1, <1>6, <1>7, <1>9, <1>10, <1>11, <1>12

-----------------------------------------------------------------------------
(* The invariant. *)

(* The record holds the arguments of the calls, in their order ... *)
ArgsFit ==
  /\ IsFiniteSet(ArgPlaces) /\ Len(cmd.args) = Cardinality(ArgPlaces)
  /\ \A p \in ArgPlaces :
       cmd.args[Cardinality(UpTo(ArgPlaces, p))] = ArgAt(p)

(* ... and for each name the pair given last as its last pair. *)
LatestPair(k, p, i) ==
  /\ LastFor(Chunks(cmd.envs), k, i) /\ Chunks(cmd.envs)[i] = PairAt(p)
  /\ \A q \in Given(k) : NotAfter(q, p)
EnvsFit ==
  /\ Chunks(cmd.envs) \in Seq(Pairs)
  /\ \A k \in Keys :
       /\ Named(Chunks(cmd.envs), k) <=> Given(k) # {}
       /\ Given(k) # {} =>
            \E p \in Given(k) : \E i \in 1..Len(Chunks(cmd.envs)) : LatestPair(k, p, i)

ClearFits == cmd.clear_envs = Cleared

(* Nothing has started while the command is built. *)
Unstarted ==
  phase = "build" =>
    /\ child.end = "unborn" /\ mode = "none" /\ ret = [tag |-> "none"]
    /\ open = {} /\ child.wrote = <<>> /\ child.script = <<>>
    /\ \A s \in Streams : pipe[s] = <<>> /\ read[s] = <<>>

(* A child got what the record said. *)
ChildFits ==
  child.end # "unborn" => child.args = cmd.args /\ child.env = ToStdEnv(cmd)

(* Read and still in the pipe is what was printed; a stream is closed only
   when both have ended.                                                     *)
PipesFit ==
  /\ pipe \in [Streams -> Seq(Nat)] /\ read \in [Streams -> Seq(Nat)]
  /\ child.wrote \in Seq(Streams) /\ child.script \in Seq(Streams)
  /\ child.end \in {"unborn", "running", "exited", "killed"}
  /\ phase = "spawned" => child.end # "unborn" /\ mode \in {"status", "output"} /\ ret.tag = "none"
  /\ mode = "output" => \A s \in Streams : InOrder(read[s] \o pipe[s], Printed(s))
  /\ mode = "output" /\ child.end # "unborn" =>
       \A s \in Streams \ open : pipe[s] = <<>> /\ child.end # "running"

ChildRecord(a, e, s, w, n, c) ==
  [args |-> a, env |-> e, script |-> s, wrote |-> w, end |-> n, code |-> c]
ChildIsRecord ==
  child = ChildRecord(child.args, child.env, child.script, child.wrote, child.end, child.code)

(* What was returned is what the child came to. *)
OutcomeFits ==
  phase = "done" =>
    IF child.end = "unborn" THEN ret.tag = "CmdErr" /\ ret.kind # "Signalled"
    ELSE /\ child.end # "running" /\ open = {} /\ mode \in {"status", "output"}
         /\ ret = IF mode = "output" THEN OutputResult ELSE ExecResult

Records == [args : Seq(Args), clear_envs : BOOLEAN, envs : Seq(Texts)]

CmdInv ==
  /\ TypeOK /\ cmd \in Records
  /\ ArgsFit /\ EnvsFit /\ ClearFits /\ Unstarted /\ ChildFits /\ ChildIsRecord /\ PipesFit
  /\ OutcomeFits
-----------------------------------------------------------------------------
(* Building. *)

(* The arguments of a call go behind those there are. *)
LEMMA ArgsKept ==
  ASSUME CmdInv, NEW call \in Calls, built' = Append(built, call),
         cmd'.args = cmd.args \o ArgsOf(call)
  PROVE  ArgsFit'
<1> DEFINE A == ArgsOf(call)
           L == Len(A)
           C == Cardinality(ArgPlaces)
           Rank(p) == Cardinality(UpTo(ArgPlaces, p))
<1>1. PICK N : N = Len(built) + 1
  OBVIOUS
<1>2. built \in Seq(Calls) /\ IsFiniteSet(ArgPlaces) /\ cmd.args \in Seq(Args) /\ Len(cmd.args) = C
  BY DEF CmdInv, TypeOK, ArgsFit
<1>3. /\ N \in Nat /\ ArgPlaces' = ArgPlaces \cup ({N} \X (1..L))
      /\ \A p \in ArgPlaces : p[1] \in Nat /\ p[1] < N /\ ArgAt(p)' = ArgAt(p)
      /\ \A m : ArgAt(<<N, m>>)' = A[m]
  BY <1>1, <1>2, HistoryGrows
<1>4. A \in Seq(Args) /\ L \in Nat
  BY CallGives
<1>5. C \in Nat
  BY <1>2, FS_CardinalityType
<1>6. /\ IsFiniteSet(ArgPlaces') /\ Cardinality(ArgPlaces') = C + L
      /\ \A p \in ArgPlaces : UpTo(ArgPlaces', p) = UpTo(ArgPlaces, p)
      /\ \A m \in 1..L : Cardinality(UpTo(ArgPlaces', <<N, m>>)) = C + m
  <2> DEFINE all == ArgPlaces'
  <2>1. all = ArgPlaces \cup ({N} \X (1..L))
    BY <1>3
  <2> HIDE DEF all, L
  <2>0. /\ IsFiniteSet(ArgPlaces) /\ N \in Nat /\ L \in Nat
        /\ Earlier(ArgPlaces, N)
    BY <1>2, <1>3, <1>4 DEF Earlier
  <2>2. IsFiniteSet(all) /\ Cardinality(all) = C + L
    BY <2>0, <2>1, RowAdded
  <2>3. \A p \in ArgPlaces : UpTo(all, p) = UpTo(ArgPlaces, p)
    BY <2>0, <2>1, OldRank
  <2>4. \A m \in 1..L : Cardinality(UpTo(all, <<N, m>>)) = C + m
    BY <2>0, <2>1, NewRank
  <2> QED BY <2>2, <2>3, <2>4 DEF all
<1>7. /\ Len(cmd'.args) = C + L
      /\ \A i \in 1..C : cmd'.args[i] = cmd.args[i]
      /\ \A m \in 1..L : cmd'.args[C + m] = A[m]
  <2> HIDE DEF A, C
  <2>1. cmd'.args = cmd.args \o A
    BY DEF A
  <2>2. C = Len(cmd.args) /\ L = Len(A)
    BY <1>2
  <2> HIDE DEF L
  <2>3. /\ Len(cmd.args \o A) = C + L
        /\ \A i \in 1..C : (cmd.args \o A)[i] = cmd.args[i]
        /\ \A m \in 1..L : (cmd.args \o A)[C + m] = A[m]
    BY <2>2, <1>2, <1>4, AppendPlaces
  <2> QED BY <2>1, <2>3
<1>8. ASSUME NEW p \in ArgPlaces
      PROVE  Rank(p) \in 1..C
  <2> DEFINE S == UpTo(ArgPlaces, p)
  <2>1. p \in S
    <3>1. p[1] \in Nat /\ p[2] \in Nat
      BY <1>2, <1>8, PlacesAreNumbers
    <3> QED BY <3>1, <1>8 DEF NotAfter, UpTo
  <2>2. IsFiniteSet(S) /\ Cardinality(S) <= C
    BY <1>2, FS_Subset DEF UpTo
  <2>3. Cardinality(S) \in Nat /\ Cardinality(S) # 0
    BY <2>1, <2>2, FS_CardinalityType, FS_EmptySet
  <2> QED BY <2>2, <2>3, <1>5
<1>9. ASSUME NEW p \in ArgPlaces'
      PROVE  cmd'.args[Cardinality(UpTo(ArgPlaces', p))] = ArgAt(p)'
  <2>1. CASE p \in ArgPlaces
    <3>1. cmd'.args[Rank(p)] = cmd.args[Rank(p)]
      BY <2>1, <1>7, <1>8
    <3>2. cmd.args[Rank(p)] = ArgAt(p)
      BY <2>1 DEF CmdInv, ArgsFit
    <3> QED BY <2>1, <3>1, <3>2, <1>3, <1>6
  <2>2. CASE p \notin ArgPlaces
    <3>1. PICK m \in 1..L : p = <<N, m>>
      BY <2>2, <1>3, <1>9
    <3>2. Cardinality(UpTo(ArgPlaces', p)) = C + m
      BY <3>1, <1>6
    <3>3. ArgAt(p)' = A[m]
      BY <3>1, <1>3
    <3> QED BY <3>2, <3>3, <1>7
  <2> QED BY <2>1, <2>2
<1> QED BY <1>6, <1>7, <1>9 DEF ArgsFit
(* What names and values two lists of pairs give together. *)
LEMMA NamedAppend ==
  ASSUME NEW S, NEW s \in Seq(S), NEW t \in Seq(S), NEW k
  PROVE  Named(s \o t, k) <=> Named(s, k) \/ Named(t, k)
<1> DEFINE c == Len(s)
           l == Len(t)
           st == s \o t
<1>1. c \in Nat /\ l \in Nat /\ c = Len(s) /\ l = Len(t)
  OBVIOUS
<1>2. /\ Len(st) = c + l
      /\ \A i \in 1..c : st[i] = s[i]
      /\ \A m \in 1..l : st[c + m] = t[m]
  <2> HIDE DEF c, l
  <2> QED BY <1>1, AppendPlaces
<1> HIDE DEF c, l, st
<1>3. ASSUME NEW i \in 1..(c + l), st[i][1] = k
      PROVE  Named(s, k) \/ Named(t, k)
  <2>1. CASE i <= c
    BY <2>1, <1>1, <1>2, <1>3 DEF Named
  <2>2. CASE ~ (i <= c)
    <3>1. i - c \in 1..l /\ c + (i - c) = i
      BY <2>2, <1>1
    <3>2. st[i] = t[i - c]
      BY <3>1, <1>2
    <3> QED BY <3>1, <3>2, <1>1, <1>3 DEF Named
  <2> QED BY <2>1, <2>2
<1>4. ASSUME NEW i \in 1..c
      PROVE  i \in 1..(c + l) /\ st[i] = s[i]
  BY <1>1, <1>2
<1>5. ASSUME NEW m \in 1..l
      PROVE  c + m \in 1..(c + l) /\ st[c + m] = t[m]
  BY <1>1, <1>2
<1>6. Named(s, k) \/ Named(t, k) => Named(st, k)
  BY <1>1, <1>2, <1>4, <1>5 DEF Named
<1>7. Named(st, k) => Named(s, k) \/ Named(t, k)
  BY <1>2, <1>3 DEF Named
<1> QED BY <1>6, <1>7 DEF st

(* A name in the second list has its last pair there ... *)
LEMMA LastInSecond ==
  ASSUME NEW S, NEW s \in Seq(S), NEW t \in Seq(S), NEW k,
         NEW m \in 1..Len(t), LastFor(t, k, m)
  PROVE  /\ Len(s) + m \in 1..Len(s \o t) /\ (s \o t)[Len(s) + m] = t[m]
         /\ LastFor(s \o t, k, Len(s) + m)
<1> DEFINE c == Len(s)
           l == Len(t)
           st == s \o t
<1>1. c \in Nat /\ l \in Nat /\ c = Len(s) /\ l = Len(t) /\ m \in 1..l
  OBVIOUS
<1>2. Len(st) = c + l /\ \A n \in 1..l : st[c + n] = t[n]
  <2> HIDE DEF c, l
  <2> QED BY <1>1, AppendPlaces
<1> HIDE DEF c, l, st
<1>3. c + m \in 1..Len(st) /\ st[c + m] = t[m]
  <2>1. c + m \in 1..(c + l)
    BY <1>1
  <2> QED BY <2>1, <1>1, <1>2
<1>4. ASSUME NEW j \in (c + m + 1)..Len(st)
      PROVE  st[j][1] # k
  <2>1. j - c \in (m + 1)..l /\ j - c \in 1..l /\ c + (j - c) = j
    BY <1>1, <1>2
  <2>2. st[j] = t[j - c]
    BY <2>1, <1>2
  <2>3. t[j - c][1] # k
    BY <2>1, <1>1 DEF LastFor
  <2> QED BY <2>2, <2>3
<1>5. LastFor(st, k, c + m)
  BY <1>1, <1>3, <1>4 DEF LastFor
<1> QED BY <1>3, <1>5 DEF c, st

(* ... and one that is not keeps the one in the first. *)
LEMMA LastInFirst ==
  ASSUME NEW S, NEW s \in Seq(S), NEW t \in Seq(S), NEW k, ~ Named(t, k),
         NEW i \in 1..Len(s), LastFor(s, k, i)
  PROVE  i \in 1..Len(s \o t) /\ (s \o t)[i] = s[i] /\ LastFor(s \o t, k, i)
<1> DEFINE c == Len(s)
           l == Len(t)
           st == s \o t
<1>1. c \in Nat /\ l \in Nat /\ c = Len(s) /\ l = Len(t) /\ i \in 1..c
  OBVIOUS
<1>2. /\ Len(st) = c + l
      /\ \A n \in 1..c : st[n] = s[n]
      /\ \A n \in 1..l : st[c + n] = t[n]
  <2> HIDE DEF c, l
  <2> QED BY <1>1, AppendPlaces
<1> HIDE DEF c, l, st
<1>3. i \in 1..Len(st) /\ st[i] = s[i]
  BY <1>1, <1>2
<1>4. ASSUME NEW j \in (i + 1)..Len(st)
      PROVE  st[j][1] # k
  <2>1. CASE j <= c
    <3>1. j \in (i + 1)..c /\ j \in 1..c
      BY <2>1, <1>1, <1>2
    <3>2. st[j] = s[j] /\ s[j][1] # k
      BY <3>1, <1>1, <1>2 DEF LastFor
    <3> QED BY <3>2
  <2>2. CASE ~ (j <= c)
    <3>1. j - c \in 1..l /\ c + (j - c) = j
      BY <2>2, <1>1, <1>2
    <3>2. st[j] = t[j - c]
      BY <3>1, <1>2
    <3>3. t[j - c][1] # k
      BY <3>1, <1>1 DEF Named
    <3> QED BY <3>2, <3>3
  <2> QED BY <2>1, <2>2
<1>5. LastFor(st, k, i)
  BY <1>1, <1>3, <1>4 DEF LastFor
<1> QED BY <1>3, <1>5 DEF st

(* The pairs of a call go behind those there are, so the latest for a name
   stays the last of its pairs.                                              *)
LEMMA EnvsKept ==
  ASSUME CmdInv, NEW call \in Calls, built' = Append(built, call),
         cmd'.envs = cmd.envs \o Flat(PairsOf(call))
  PROVE  EnvsFit'
<1> DEFINE Q == PairsOf(call)
           P == Chunks(cmd.envs)
           L == Len(Q)
           PQ == P \o Q
           T == Texts \X Texts
<1>1. PICK N : N = Len(built) + 1
  OBVIOUS
<1>2. /\ built \in Seq(Calls) /\ cmd.envs \in Seq(Texts) /\ Len(cmd.envs) % 2 = 0
      /\ Q \in Seq(Pairs)
  BY CallGives DEF CmdInv, TypeOK, Texts
<1>3. Chunks(cmd'.envs) = PQ /\ P \in Seq(T)
  BY <1>2, ChunksAppend, ChunksSeq
<1>4. Q \in Seq(T) /\ L \in Nat /\ L = Len(Q)
  BY <1>2 DEF Pairs, Texts
<1>5. /\ N \in Nat /\ PairPlaces' = PairPlaces \cup ({N} \X (1..L))
      /\ \A p \in PairPlaces : p[1] \in Nat /\ p[1] < N /\ PairAt(p)' = PairAt(p)
      /\ \A m : PairAt(<<N, m>>)' = Q[m]
  BY <1>1, <1>2, HistoryGrows
<1>6. PQ \in Seq(Pairs)
  <2>1. P \in Seq(Pairs)
    BY DEF CmdInv, EnvsFit
  <2> HIDE DEF P, Q
  <2> QED BY <2>1, <1>2, ConcatProperties
<1> HIDE DEF Q, P, L, PQ, T
<1> SUFFICES ASSUME NEW k \in Keys
             PROVE  /\ Named(PQ, k) <=> Given(k)' # {}
                    /\ Given(k)' # {} =>
                         \E p \in Given(k)' : \E i \in 1..Len(PQ) :
                           /\ LastFor(PQ, k, i) /\ PQ[i] = PairAt(p)'
                           /\ \A q \in Given(k)' : NotAfter(q, p)
  BY <1>3, <1>6 DEF EnvsFit, LatestPair
<1>7. /\ \A p \in Given(k) : p \in Given(k)'
      /\ \A m \in 1..L : Q[m][1] = k => <<N, m>> \in Given(k)'
      /\ \A p \in Given(k)' : p \in Given(k) \/ \E m \in 1..L : p = <<N, m>> /\ Q[m][1] = k
  BY <1>5 DEF Given
<1>8. /\ Named(P, k) <=> Given(k) # {}
      /\ Given(k) # {} => \E p \in Given(k) : \E i \in 1..Len(P) : LatestPair(k, p, i)
  BY DEF CmdInv, EnvsFit, P
<1>9. Named(PQ, k) <=> Given(k)' # {}
  <2>1. Named(PQ, k) <=> Named(P, k) \/ Named(Q, k)
    BY <1>3, <1>4, NamedAppend DEF PQ
  <2>2. Named(Q, k) <=> \E m \in 1..L : Q[m][1] = k
    BY <1>4 DEF Named
  <2> QED BY <2>1, <2>2, <1>7, <1>8
<1>10. CASE Named(Q, k)
  <2>1. PICK m \in 1..Len(Q) : LastFor(Q, k, m)
    BY <1>2, <1>10, LastExists
  <2> DEFINE i == Len(P) + m
  <2>2. i \in 1..Len(PQ) /\ PQ[i] = Q[m] /\ LastFor(PQ, k, i)
    BY <2>1, <1>3, <1>4, LastInSecond DEF PQ
  <2>3. m \in 1..L /\ Q[m][1] = k /\ \A j \in 1..L : Q[j][1] = k => j <= m
    BY <2>1, <1>4 DEF LastFor
  <2>4. <<N, m>> \in Given(k)'
    BY <2>3, <1>7
  <2>5. \A q \in Given(k)' : NotAfter(q, <<N, m>>)
    <3>1. \A q \in Given(k) : NotAfter(q, <<N, m>>)
      BY <1>5 DEF NotAfter, Given
    <3>2. \A j \in 1..L : Q[j][1] = k => NotAfter(<<N, j>>, <<N, m>>)
      BY <2>3 DEF NotAfter
    <3> QED BY <3>1, <3>2, <1>7
  <2>6. PQ[i] = PairAt(<<N, m>>)'
    BY <2>2, <1>5
  <2> HIDE DEF i
  <2> QED BY <2>2, <2>4, <2>5, <2>6, <1>9
<1>11. CASE ~ Named(Q, k)
  <2>1. Given(k)' = Given(k)
    BY <1>4, <1>7, <1>11 DEF Named
  <2>2. ASSUME NEW p \in Given(k), NEW i \in 1..Len(P), LatestPair(k, p, i)
        PROVE  /\ i \in 1..Len(PQ) /\ LastFor(PQ, k, i) /\ PQ[i] = PairAt(p)'
               /\ \A q \in Given(k)' : NotAfter(q, p)
    <3>1. LastFor(P, k, i) /\ P[i] = PairAt(p) /\ \A q \in Given(k) : NotAfter(q, p)
      BY <2>2 DEF LatestPair, P
    <3>2. i \in 1..Len(PQ) /\ PQ[i] = P[i] /\ LastFor(PQ, k, i)
      BY <3>1, <1>3, <1>4, <1>11, LastInFirst DEF PQ
    <3>3. PairAt(p)' = PairAt(p)
      BY <1>5 DEF Given
    <3> QED BY <3>1, <3>2, <3>3, <2>1
  <2> QED BY <2>1, <2>2, <1>8, <1>9
<1> QED BY <1>10, <1>11
LEMMA FlatNothing == Flat(<<>>) = <<>>
<1>1. <<>> \in Seq(Pairs) /\ Len(<<>>) = 0
  OBVIOUS
<1>2. Flat(<<>>) \in Seq(Texts) /\ Len(Flat(<<>>)) = 2 * 0
  BY <1>1, FlatPair
<1> QED BY <1>2, EmptySeq

(* A builder call whose record says what the call says. *)
LEMMA BuildKeeps ==
  ASSUME CmdInv, NEW call \in Calls, NEW record \in Records, Build(call, record),
         record.args = cmd.args \o ArgsOf(call),
         record.envs = cmd.envs \o Flat(PairsOf(call)),
         record.clear_envs <=> cmd.clear_envs \/ call.op = "clear_envs"
  PROVE  CmdInv'
<1>1. /\ phase = "build" /\ built' = Append(built, call) /\ cmd' = record
      /\ UNCHANGED <<phase, mode, child, pipe, read, open, ret>>
  BY DEF Build
<1>2. /\ built \in Seq(Calls) /\ cmd.envs \in Seq(Texts) /\ Len(cmd.envs) % 2 = 0
      /\ PairsOf(call) \in Seq(Pairs) /\ child.end = "unborn"
  BY <1>1, CallGives DEF CmdInv, TypeOK, Texts, Unstarted
<1>3. ArgsFit'
  BY <1>1, ArgsKept
<1>4. EnvsFit'
  BY <1>1, EnvsKept
<1>5. ClearFits'
  <2>1. Cleared' <=> Cleared \/ call.op = "clear_envs"
    BY <1>1, <1>2, HistoryGrows
  <2>2. record.clear_envs \in BOOLEAN /\ Cleared \in BOOLEAN /\ Cleared' \in BOOLEAN
    BY DEF Records, Cleared
  <2>3. cmd.clear_envs = Cleared
    BY DEF CmdInv, ClearFits
  <2> QED BY <1>1, <2>1, <2>2, <2>3 DEF ClearFits
<1>6. TypeOK' /\ cmd' \in Records
  <2>1. Len(record.envs) % 2 = 0
    <3>1. Len(cmd.envs \o Flat(PairsOf(call))) % 2 = 0
      BY <1>2, ChunksAppend
    <3> QED BY <3>1
  <2>2. built' \in Seq(Calls)
    BY <1>1, <1>2
  <2> QED BY <1>1, <2>1, <2>2 DEF CmdInv, TypeOK, Records, Texts
<1>7. Unstarted'
  BY <1>1 DEF CmdInv, Unstarted
<1>8. ChildFits' /\ ChildIsRecord'
  BY <1>1, <1>2 DEF CmdInv, ChildFits, ChildIsRecord
<1>9. PipesFit'
  BY <1>1 DEF CmdInv, PipesFit, Printed
<1>10. OutcomeFits'
  BY <1>1 DEF OutcomeFits
<1> QED BY <1>3, <1>4, <1>5, <1>6, <1>7, <1>8, <1>9, <1>10 DEF CmdInv, Records

LEMMA RecordParts ==
  ASSUME CmdInv
  PROVE  /\ cmd \in Records
         /\ cmd.args \in Seq(Args) /\ cmd.args \o <<>> = cmd.args
         /\ cmd.envs \in Seq(Texts) /\ cmd.envs \o <<>> = cmd.envs
         /\ cmd.clear_envs \in BOOLEAN
<1>1. cmd \in Records
  BY DEF CmdInv
<1>2. cmd.args \in Seq(Args) /\ cmd.envs \in Seq(Texts) /\ cmd.clear_envs \in BOOLEAN
  BY <1>1 DEF Records
<1> QED BY <1>1, <1>2, ConcatEmptySeq

LEMMA ArgStep ==
  ASSUME CmdInv, NEW a \in Args, arg(a)
  PROVE  CmdInv'
<1> DEFINE call == [op |-> "arg", a |-> a]
           record == [cmd EXCEPT !.args = Append(@, a)]
<1>1. cmd \in Records
  BY RecordParts
<1>2. call \in Calls /\ ArgsOf(call) = <<a>> /\ PairsOf(call) = <<>> /\ call.op # "clear_envs"
  BY DEF Calls, ArgsOf, PairsOf
<1>3. /\ record \in Records /\ record.args = cmd.args \o <<a>>
      /\ record.envs = cmd.envs \o <<>> /\ record.clear_envs = cmd.clear_envs
  <2>1. Append(cmd.args, a) = cmd.args \o <<a>> /\ Append(cmd.args, a) \in Seq(Args)
    BY RecordParts
  <2>2. /\ record \in Records /\ record.args = Append(cmd.args, a)
        /\ record.envs = cmd.envs /\ record.clear_envs = cmd.clear_envs
    BY <1>1, <2>1 DEF Records
  <2> QED BY <2>1, <2>2, RecordParts
<1>4. Build(call, record)
  BY DEF arg
<1> HIDE DEF call, record
<1> QED BY <1>2, <1>3, <1>4, FlatNothing, BuildKeeps

LEMMA ArgsStep ==
  ASSUME CmdInv, NEW a \in Args, NEW b \in Args, args(<<a, b>>)
  PROVE  CmdInv'
<1> DEFINE call == [op |-> "args", as |-> <<a, b>>]
           record == [cmd EXCEPT !.args = @ \o <<a, b>>]
<1>1. cmd \in Records
  BY RecordParts
<1>2. call \in Calls /\ ArgsOf(call) = <<a, b>> /\ PairsOf(call) = <<>> /\ call.op # "clear_envs"
  BY DEF Calls, ArgsOf, PairsOf
<1>3. /\ record \in Records /\ record.args = cmd.args \o <<a, b>>
      /\ record.envs = cmd.envs \o <<>> /\ record.clear_envs = cmd.clear_envs
  <2>1. cmd.args \o <<a, b>> \in Seq(Args)
    BY RecordParts
  <2>2. /\ record \in Records /\ record.args = cmd.args \o <<a, b>>
        /\ record.envs = cmd.envs /\ record.clear_envs = cmd.clear_envs
    BY <1>1, <2>1 DEF Records
  <2> QED BY <2>1, <2>2, RecordParts
<1>4. Build(call, record)
  BY DEF args
<1> HIDE DEF call, record
<1> QED BY <1>2, <1>3, <1>4, FlatNothing, BuildKeeps

LEMMA EnvStep ==
  ASSUME CmdInv, NEW k \in Keys, NEW v \in Values, env(k, v)
  PROVE  CmdInv'
<1> DEFINE call == [op |-> "env", kv |-> <<k, v>>]
           record == [cmd EXCEPT !.envs = @ \o <<k, v>>]
<1>1. cmd \in Records
  BY RecordParts
<1>2. call \in Calls /\ ArgsOf(call) = <<>> /\ PairsOf(call) = <<<<k, v>>>> /\ call.op # "clear_envs"
  BY DEF Calls, ArgsOf, PairsOf
<1>3. /\ record \in Records /\ record.args = cmd.args \o <<>>
      /\ record.envs = cmd.envs \o <<k, v>> /\ record.clear_envs = cmd.clear_envs
  <2>1. cmd.envs \o <<k, v>> \in Seq(Texts)
    BY RecordParts DEF Texts
  <2>2. /\ record \in Records /\ record.envs = cmd.envs \o <<k, v>>
        /\ record.args = cmd.args /\ record.clear_envs = cmd.clear_envs
    BY <1>1, <2>1 DEF Records
  <2> QED BY <2>1, <2>2, RecordParts
<1>4. Build(call, record)
  BY DEF env
<1>5. Flat(<<<<k, v>>>>) = <<k, v>>
  BY FlatOne
<1> HIDE DEF call, record
<1> QED BY <1>2, <1>3, <1>4, <1>5, BuildKeeps

LEMMA EnvsStep ==
  ASSUME CmdInv, NEW l \in EnvLists, envs(l)
  PROVE  CmdInv'
<1> DEFINE call == [op |-> "envs", kvs |-> l]
           record == [cmd EXCEPT !.envs = @ \o Flat(l)]
<1>1. cmd \in Records
  BY RecordParts
<1>2. call \in Calls /\ ArgsOf(call) = <<>> /\ PairsOf(call) = l /\ call.op # "clear_envs"
  BY DEF Calls, ArgsOf, PairsOf
<1>3. l \in Seq(Pairs)
  BY CmdAssumption DEF Pairs
<1>4. Flat(l) \in Seq(Texts)
  BY <1>3, FlatPair
<1>5. /\ record \in Records /\ record.args = cmd.args \o <<>>
      /\ record.envs = cmd.envs \o Flat(l) /\ record.clear_envs = cmd.clear_envs
  <2>1. cmd.envs \o Flat(l) \in Seq(Texts)
    BY <1>4, RecordParts
  <2>2. /\ record \in Records /\ record.envs = cmd.envs \o Flat(l)
        /\ record.args = cmd.args /\ record.clear_envs = cmd.clear_envs
    BY <1>1, <2>1 DEF Records
  <2> QED BY <2>1, <2>2, RecordParts
<1>6. Build(call, record)
  BY DEF envs
<1> HIDE DEF call, record
<1> QED BY <1>2, <1>5, <1>6, BuildKeeps

LEMMA ClearStep ==
  ASSUME CmdInv, clear_envs
  PROVE  CmdInv'
<1> DEFINE call == [op |-> "clear_envs"]
           record == [cmd EXCEPT !.clear_envs = TRUE]
<1>1. cmd \in Records
  BY RecordParts
<1>2. call \in Calls /\ ArgsOf(call) = <<>> /\ PairsOf(call) = <<>> /\ call.op = "clear_envs"
  BY DEF Calls, ArgsOf, PairsOf
<1>3. /\ record \in Records /\ record.args = cmd.args \o <<>>
      /\ record.envs = cmd.envs \o <<>> /\ record.clear_envs
  <2>1. /\ record \in Records /\ record.args = cmd.args
        /\ record.envs = cmd.envs /\ record.clear_envs
    BY <1>1 DEF Records
  <2> QED BY <2>1, RecordParts
<1>4. Build(call, record)
  BY DEF clear_envs
<1> HIDE DEF call, record
<1> QED BY <1>2, <1>3, <1>4, FlatNothing, BuildKeeps
-----------------------------------------------------------------------------
(* Running. *)

(* Nothing of the record changes once it is run. *)
LEMMA RecordFrame ==
  ASSUME CmdInv, UNCHANGED <<cmd, built>>
  PROVE  ArgsFit' /\ EnvsFit' /\ ClearFits' /\ cmd' \in Records
<1>1. cmd' = cmd /\ built' = built
  OBVIOUS
<1>2. ArgPlaces' = ArgPlaces /\ \A p : ArgAt(p)' = ArgAt(p)
  BY <1>1 DEF ArgPlaces, ArgAt
<1>3. PairPlaces' = PairPlaces /\ \A p : PairAt(p)' = PairAt(p)
  BY <1>1 DEF PairPlaces, PairAt
<1>4. \A k : Given(k)' = Given(k)
  BY <1>3 DEF Given
<1>5. ArgsFit'
  BY <1>1, <1>2 DEF CmdInv, ArgsFit
<1>6. \A k, p, i : LatestPair(k, p, i)' <=> LatestPair(k, p, i)
  BY <1>1, <1>3, <1>4 DEF LatestPair
<1>7. EnvsFit'
  BY <1>1, <1>4, <1>6 DEF CmdInv, EnvsFit
<1>8. ClearFits'
  BY <1>1 DEF CmdInv, ClearFits, Cleared
<1> QED BY <1>1, <1>5, <1>7, <1>8 DEF CmdInv

LEMMA NothingPrinted ==
  ASSUME child.wrote = <<>>, NEW s
  PROVE  InOrder(<<>> \o <<>>, Printed(s))
<1>1. <<>> \o <<>> = <<>> /\ Len(<<>>) = 0 /\ 1..0 = {}
  OBVIOUS
<1>2. Printed(s) = {}
  BY <1>1 DEF Printed
<1> QED BY <1>1, <1>2 DEF InOrder

LEMMA SpawnStep ==
  ASSUME CmdInv, NEW m \in {"status", "output"}, Spawn(m)
  PROVE  CmdInv'
<1>1. /\ phase = "build" /\ mode' = m /\ UNCHANGED <<cmd, built, pipe, read>>
      /\ child.end = "unborn" /\ mode = "none" /\ ret = [tag |-> "none"]
      /\ open = {} /\ child.wrote = <<>> /\ child.script = <<>>
      /\ \A s \in Streams : pipe[s] = <<>> /\ read[s] = <<>>
  BY DEF Spawn, CmdInv, Unstarted
<1>2. ArgsFit' /\ EnvsFit' /\ ClearFits' /\ cmd' \in Records
  BY <1>1, RecordFrame
<1>3. ASSUME NEW s
      PROVE  child'.wrote = <<>> => InOrder(<<>> \o <<>>, Printed(s)')
  <2> SUFFICES ASSUME child'.wrote = <<>>
               PROVE  InOrder(<<>> \o <<>>, Printed(s)')
    OBVIOUS
  <2>1. <<>> \o <<>> = <<>> /\ Len(<<>>) = 0 /\ 1..0 = {}
    OBVIOUS
  <2>2. Printed(s)' = {}
    BY <2>1 DEF Printed
  <2> QED BY <2>1, <2>2 DEF InOrder
<1>4. ASSUME child'.wrote = <<>>
      PROVE  \A s \in Streams : InOrder(read'[s] \o pipe'[s], Printed(s)')
  BY <1>1, <1>3, <1>4
<1>5. ASSUME NEW kind \in {"NotFound", "PermissionDenied"},
             ret' = [tag |-> "CmdErr", byte |-> FromIoError(kind), kind |-> kind],
             phase' = "done", UNCHANGED <<child, open>>
      PROVE  CmdInv'
  <2>1. ret'.tag = "CmdErr" /\ ret'.kind # "Signalled"
    BY <1>5
  <2>2. TypeOK'
    BY <1>1, <1>5, <2>1 DEF CmdInv, TypeOK
  <2>3. Unstarted' /\ ChildFits' /\ OutcomeFits'
    BY <1>1, <1>5, <2>1 DEF Unstarted, ChildFits, OutcomeFits
  <2>4. PipesFit'
    BY <1>1, <1>4, <1>5 DEF CmdInv, PipesFit
  <2>5. ChildIsRecord'
    BY <1>5 DEF CmdInv, ChildIsRecord
  <2> QED BY <1>2, <2>2, <2>3, <2>4, <2>5 DEF CmdInv
<1>6. ASSUME NEW s \in Scripts,
             child' = [args |-> cmd.args, env |-> ToStdEnv(cmd), script |-> s,
                       wrote |-> <<>>, end |-> "running", code |-> 0],
             phase' = "spawned", open' = IF m = "output" THEN Streams ELSE {}, UNCHANGED ret
      PROVE  CmdInv'
  <2>1. /\ child'.args = cmd.args /\ child'.env = ToStdEnv(cmd) /\ child'.script = s
        /\ child'.wrote = <<>> /\ child'.end = "running" /\ ret'.tag = "none"
    BY <1>1, <1>6
  <2>2. TypeOK'
    BY <1>1, <1>6, <2>1 DEF CmdInv, TypeOK
  <2>3. Unstarted' /\ OutcomeFits'
    BY <1>6 DEF Unstarted, OutcomeFits
  <2>4. ChildFits'
    BY <1>1, <2>1 DEF ChildFits
  <2>5. s \in Seq(Streams) /\ <<>> \in Seq(Streams)
    BY CmdAssumption DEF Streams
  <2>6. m = "output" => open' = Streams
    BY <1>6
  <2>7. PipesFit'
    BY <1>1, <1>4, <1>6, <2>1, <2>5, <2>6 DEF CmdInv, PipesFit
  <2>8. ChildIsRecord'
    BY <1>6 DEF ChildIsRecord, ChildRecord
  <2> QED BY <1>2, <2>2, <2>3, <2>4, <2>7, <2>8 DEF CmdInv
<1> QED BY <1>5, <1>6 DEF Spawn

(* What the child prints into a pipe comes after all it has printed. *)
PrintedIn(w, t) == {i - 1 : i \in {j \in 1..Len(w) : w[j] = t}}

LEMMA PrintedGrows ==
  ASSUME NEW w \in Seq(Streams), NEW s \in Streams, NEW t \in Streams
  PROVE  /\ PrintedIn(Append(w, s), t) = PrintedIn(w, t) \cup (IF s = t THEN {Len(w)} ELSE {})
         /\ \A x \in PrintedIn(w, t) : x \in Nat /\ x < Len(w)
<1> DEFINE n == Len(w)
           v == Append(w, s)
           P(u) == PrintedIn(u, t)
<1>1. n \in Nat /\ Len(v) = n + 1 /\ v[n + 1] = s /\ \A i \in 1..n : v[i] = w[i]
  OBVIOUS
<1>2. {j \in 1..Len(v) : v[j] = t} = {j \in 1..n : w[j] = t} \cup (IF s = t THEN {n + 1} ELSE {})
  <2>1. \A j \in 1..Len(v) : j \in 1..n \/ j = n + 1
    BY <1>1
  <2>2. \A j \in 1..n : j \in 1..Len(v) /\ j # n + 1
    BY <1>1
  <2>3. n + 1 \in 1..Len(v)
    BY <1>1
  <2> HIDE DEF n, v
  <2> QED BY <1>1, <2>1, <2>2, <2>3
<1>3. P(v) = P(w) \cup (IF s = t THEN {n} ELSE {})
  <2>1. (n + 1) - 1 = n
    BY <1>1
  <2> HIDE DEF v
  <2> QED BY <1>2, <2>1 DEF PrintedIn
<1>4. \A x \in P(w) : x \in Nat /\ x < n
  BY <1>1 DEF PrintedIn
<1> QED BY <1>3, <1>4

LEMMA EndIsConcat ==
  ASSUME NEW S, NEW s \in Seq(S), NEW n \in S
  PROVE  Append(s, n) = s \o <<n>>
OBVIOUS

LEMMA Regrouped ==
  ASSUME NEW S, NEW s \in Seq(S), NEW t \in Seq(S), NEW u \in Seq(S)
  PROVE  (s \o t) \o u = s \o (t \o u) /\ s \o t \in Seq(S)
<1>1. (s \o t) \o u = s \o (t \o u)
  BY ConcatAssociative
<1>2. s \o t \in Seq(S)
  OBVIOUS
<1> QED BY <1>1, <1>2

LEMMA ConcatAppend ==
  ASSUME NEW S, NEW s \in Seq(S), NEW t \in Seq(S), NEW n \in S
  PROVE  s \o Append(t, n) = Append(s \o t, n) /\ s \o t \in Seq(S)
<1> DEFINE u == <<n>>
           st == s \o t
<1>1. u \in Seq(S)
  OBVIOUS
<1> HIDE DEF u
<1>2. st \o u = s \o (t \o u) /\ st \in Seq(S)
  BY <1>1, Regrouped
<1> HIDE DEF st
<1>3. Append(t, n) = t \o u /\ Append(st, n) = st \o u
  BY <1>2, EndIsConcat DEF u
<1>4. s \o Append(t, n) = Append(st, n)
  BY <1>2, <1>3
<1> QED BY <1>2, <1>4 DEF st

(* With the numbers behind a name: the solver's own arithmetic gets in the way of the sequences. *)
LEMMA ConcatAppendNat ==
  ASSUME NEW s \in Seq(Nat), NEW t \in Seq(Nat), NEW n \in Nat
  PROVE  s \o Append(t, n) = Append(s \o t, n) /\ s \o t \in Seq(Nat)
<1> DEFINE Numbers == Nat
<1>1. s \in Seq(Numbers) /\ t \in Seq(Numbers) /\ n \in Numbers
  OBVIOUS
<1>2. SUFFICES s \o Append(t, n) = Append(s \o t, n) /\ s \o t \in Seq(Numbers)
  OBVIOUS
<1> HIDE DEF Numbers
<1> QED BY <1>1, ConcatAppend

LEMMA OrderKept ==
  ASSUME NEW list \in Seq(Nat), NEW S, InOrder(list, S), NEW n \in Nat,
         \A x \in S : x < n
  PROVE  InOrder(Append(list, n), S \cup {n})
<1> DEFINE l == Len(list)
           new == Append(list, n)
<1>1. l \in Nat /\ Len(new) = l + 1 /\ new[l + 1] = n
  OBVIOUS
<1>2. \A i \in 1..l : new[i] = list[i] /\ list[i] \in Nat
  OBVIOUS
<1>3. \A i \in 1..l : list[i] \in S
  BY DEF InOrder
<1>4. \A x \in S : \E i \in 1..l : list[i] = x
  BY DEF InOrder
<1>5. \A i, j \in 1..l : i < j => list[i] < list[j]
  BY DEF InOrder
<1> HIDE DEF l, new
<1>6. \A i \in 1..(l + 1) : i \in 1..l \/ i = l + 1
  BY <1>1
<1>7. \A i \in 1..l : i \in 1..(l + 1)
  BY <1>1
<1>8. l + 1 \in 1..(l + 1)
  BY <1>1
<1>9. {new[i] : i \in 1..Len(new)} = S \cup {n}
  <2>1. \A i \in 1..(l + 1) : new[i] \in S \cup {n}
    BY <1>1, <1>2, <1>3, <1>6
  <2>2. \A x \in S : \E i \in 1..(l + 1) : new[i] = x
    BY <1>2, <1>4, <1>7
  <2>3. \E i \in 1..(l + 1) : new[i] = n
    BY <1>1, <1>8
  <2> QED BY <1>1, <2>1, <2>2, <2>3
<1>10. ASSUME NEW i \in 1..(l + 1), NEW j \in 1..(l + 1), i < j
       PROVE  new[i] < new[j]
  <2>1. i \in 1..l
    BY <1>1, <1>10
  <2>2. CASE j \in 1..l
    BY <2>1, <2>2, <1>2, <1>5, <1>10
  <2>3. CASE j = l + 1
    BY <2>1, <2>3, <1>1, <1>2, <1>3
  <2> QED BY <2>2, <2>3, <1>6
<1> QED BY <1>1, <1>9, <1>10 DEF InOrder, new
(* The fields of the child after a step of its own. *)
LEMMA ChildAfterWrite ==
  ASSUME ChildIsRecord, NEW s, NEW w, child' = [child EXCEPT !.script = s, !.wrote = w]
  PROVE  child' = ChildRecord(child.args, child.env, s, w, child.end, child.code)
<1>1. [child EXCEPT !.script = s, !.wrote = w] = [[child EXCEPT !.script = s] EXCEPT !.wrote = w]
  OBVIOUS
<1>2. [child EXCEPT !.script = s]
        = ChildRecord(child.args, child.env, s, child.wrote, child.end, child.code)
  BY DEF ChildIsRecord, ChildRecord
<1> QED BY <1>1, <1>2 DEF ChildRecord

LEMMA ChildAfterEnd ==
  ASSUME ChildIsRecord, NEW e, NEW c, child' = [child EXCEPT !.end = e, !.code = c]
  PROVE  child' = ChildRecord(child.args, child.env, child.script, child.wrote, e, c)
<1>1. [child EXCEPT !.end = e, !.code = c] = [[child EXCEPT !.end = e] EXCEPT !.code = c]
  OBVIOUS
<1>2. [child EXCEPT !.end = e]
        = ChildRecord(child.args, child.env, child.script, child.wrote, e, child.code)
  BY DEF ChildIsRecord, ChildRecord
<1> QED BY <1>1, <1>2 DEF ChildRecord

LEMMA ChildParts ==
  ASSUME NEW a, NEW e, NEW s, NEW w, NEW n, NEW c
  PROVE  /\ ChildRecord(a, e, s, w, n, c).args = a /\ ChildRecord(a, e, s, w, n, c).env = e
         /\ ChildRecord(a, e, s, w, n, c).script = s /\ ChildRecord(a, e, s, w, n, c).wrote = w
         /\ ChildRecord(a, e, s, w, n, c).end = n /\ ChildRecord(a, e, s, w, n, c).code = c
BY DEF ChildRecord

LEMMA ChildWritesStep ==
  ASSUME CmdInv, ChildWrites
  PROVE  CmdInv'
<1> DEFINE s == Head(child.script)
           n == Len(child.wrote)
<1>1. /\ phase = "spawned" /\ child.end = "running" /\ child.script # <<>>
      /\ mode = "output" => Len(pipe[s]) < PipeSize
      /\ pipe' = IF mode = "output" THEN [pipe EXCEPT ![s] = Append(@, n)] ELSE pipe
      /\ child' = [child EXCEPT !.script = Tail(@), !.wrote = Append(@, s)]
      /\ UNCHANGED <<cmd, built, phase, mode, read, open, ret>>
  BY DEF ChildWrites
<1>2. ArgsFit' /\ EnvsFit' /\ ClearFits' /\ cmd' \in Records
  BY <1>1, RecordFrame
<1>3. /\ pipe \in [Streams -> Seq(Nat)] /\ read \in [Streams -> Seq(Nat)]
      /\ child.wrote \in Seq(Streams) /\ child.script \in Seq(Streams)
      /\ mode = "output" => \A t \in Streams : InOrder(read[t] \o pipe[t], Printed(t))
      /\ mode = "output" => Streams \subseteq open
      /\ mode \in {"status", "output"} /\ ret.tag = "none"
  BY <1>1 DEF CmdInv, PipesFit
<1>4. s \in Streams /\ Tail(child.script) \in Seq(Streams) /\ n \in Nat
      /\ Append(child.wrote, s) \in Seq(Streams)
  BY <1>1, <1>3
<1>5. child' = [child EXCEPT !.script = Tail(child.script), !.wrote = Append(child.wrote, s)]
  BY <1>1
<1> HIDE DEF s, n
<1>6. /\ child'.wrote = Append(child.wrote, s) /\ child'.script = Tail(child.script)
      /\ child'.end = child.end /\ child'.args = child.args /\ child'.env = child.env
      /\ child'.code = child.code /\ ChildIsRecord'
  <2>1. child' = ChildRecord(child.args, child.env, Tail(child.script), Append(child.wrote, s),
                             child.end, child.code)
    BY <1>5, ChildAfterWrite DEF CmdInv
  <2> DEFINE script == Tail(child.script)
             wrote == Append(child.wrote, s)
  <2> HIDE DEF script, wrote
  <2>2. child' = ChildRecord(child.args, child.env, script, wrote, child.end, child.code)
    BY <2>1 DEF script, wrote
  <2>3. /\ child'.wrote = wrote /\ child'.script = script /\ child'.end = child.end
        /\ child'.args = child.args /\ child'.env = child.env /\ child'.code = child.code
    BY <2>2, ChildParts
  <2>4. ChildIsRecord'
    BY <2>2, <2>3 DEF ChildIsRecord
  <2> QED BY <2>3, <2>4 DEF script, wrote
<1>7. pipe' \in [Streams -> Seq(Nat)]
  BY <1>1, <1>3, <1>4
<1>8. ASSUME mode = "output", NEW t \in Streams
      PROVE  InOrder(read[t] \o pipe'[t], Printed(t)')
  <2>1. /\ Printed(t)' = Printed(t) \cup (IF s = t THEN {n} ELSE {})
        /\ \A x \in Printed(t) : x \in Nat /\ x < n
    <3>1. /\ PrintedIn(Append(child.wrote, s), t)
               = PrintedIn(child.wrote, t) \cup (IF s = t THEN {n} ELSE {})
          /\ \A x \in PrintedIn(child.wrote, t) : x \in Nat /\ x < n
      BY <1>3, <1>4, PrintedGrows DEF n
    <3>2. Printed(t) = PrintedIn(child.wrote, t) /\ Printed(t)' = PrintedIn(child'.wrote, t)
      BY DEF Printed, PrintedIn
    <3> QED BY <3>1, <3>2, <1>6
  <2>2. InOrder(read[t] \o pipe[t], Printed(t))
    BY <1>3, <1>8
  <2>3. CASE t = s
    <3>1. pipe'[t] = Append(pipe[t], n)
      BY <2>3, <1>1, <1>3, <1>8
    <3>2. read[t] \in Seq(Nat) /\ pipe[t] \in Seq(Nat)
      BY <1>3
    <3>3. read[t] \o Append(pipe[t], n) = Append(read[t] \o pipe[t], n)
          /\ read[t] \o pipe[t] \in Seq(Nat)
      BY <3>2, <1>4, ConcatAppendNat
    <3>4. InOrder(Append(read[t] \o pipe[t], n), Printed(t) \cup {n})
      BY <3>3, <2>1, <2>2, <1>4, OrderKept
    <3> QED BY <3>1, <3>3, <3>4, <2>1, <2>3
  <2>4. CASE t # s
    <3>1. pipe'[t] = pipe[t]
      BY <2>4, <1>1, <1>3
    <3>2. Printed(t)' = Printed(t)
      BY <2>1, <2>4
    <3> QED BY <3>1, <3>2, <2>2
  <2> QED BY <2>3, <2>4
<1>9. TypeOK'
  <2>1. \A t \in Streams : Len(pipe'[t]) <= PipeSize
    <3> SUFFICES ASSUME NEW t \in Streams PROVE Len(pipe'[t]) <= PipeSize
      OBVIOUS
    <3>1. Len(pipe[t]) <= PipeSize /\ PipeSize \in Nat /\ pipe[t] \in Seq(Nat)
      BY <1>3, CmdAssumption DEF CmdInv, TypeOK
    <3>2. CASE mode = "output" /\ t = s
      <4>1. pipe'[t] = Append(pipe[t], n) /\ Len(pipe[t]) < PipeSize
        BY <3>2, <1>1, <1>3
      <4>2. Len(Append(pipe[t], n)) = Len(pipe[t]) + 1 /\ Len(pipe[t]) \in Nat
        BY <3>1, <1>4
      <4> QED BY <3>1, <4>1, <4>2
    <3>3. CASE ~ (mode = "output" /\ t = s)
      <4>1. pipe'[t] = pipe[t]
        BY <3>3, <1>1, <1>3
      <4> QED BY <3>1, <4>1
    <3> QED BY <3>2, <3>3
  <2> QED BY <1>1, <2>1 DEF CmdInv, TypeOK
<1>10. Unstarted' /\ OutcomeFits'
  BY <1>1 DEF Unstarted, OutcomeFits
<1>11. ChildFits'
  BY <1>1, <1>6 DEF CmdInv, ChildFits
<1>12. PipesFit'
  <2>1. child'.end = "running" /\ child'.wrote \in Seq(Streams) /\ child'.script \in Seq(Streams)
    BY <1>1, <1>4, <1>6
  <2>2. mode' = "output" => \A t \in Streams : InOrder(read'[t] \o pipe'[t], Printed(t)')
    BY <1>1, <1>8
  <2>3. mode' = "output" => Streams \ open' = {}
    BY <1>1, <1>3
  <2> QED BY <1>1, <1>3, <1>7, <2>1, <2>2, <2>3 DEF PipesFit
<1> QED BY <1>2, <1>6, <1>9, <1>10, <1>11, <1>12 DEF CmdInv

(* The child ends, by itself or not: what it printed stays. *)
LEMMA ChildEnds ==
  ASSUME CmdInv, phase = "spawned", child.end = "running",
         NEW e \in {"exited", "killed"}, NEW c,
         child' = ChildRecord(child.args, child.env, child.script, child.wrote, e, c),
         UNCHANGED <<cmd, built, phase, mode, pipe, read, open, ret>>
  PROVE  CmdInv'
<1>1. ArgsFit' /\ EnvsFit' /\ ClearFits' /\ cmd' \in Records
  BY RecordFrame
<1>2. /\ child'.end = e /\ child'.wrote = child.wrote /\ child'.script = child.script
      /\ child'.args = child.args /\ child'.env = child.env /\ child'.code = c
  BY ChildParts
<1>3. ChildIsRecord'
  BY <1>2 DEF ChildIsRecord
<1>4. TypeOK' /\ Unstarted' /\ OutcomeFits' /\ ChildFits'
  BY <1>2 DEF CmdInv, TypeOK, Unstarted, OutcomeFits, ChildFits
<1>5. \A t : Printed(t)' = Printed(t)
  BY <1>2 DEF Printed
<1>6. PipesFit'
  BY <1>2, <1>5 DEF CmdInv, PipesFit
<1> QED BY <1>1, <1>3, <1>4, <1>6 DEF CmdInv

LEMMA ChildExitsStep ==
  ASSUME CmdInv, ChildExits
  PROVE  CmdInv'
<1>1. PICK c \in Codes : child' = [child EXCEPT !.end = "exited", !.code = c]
  BY DEF ChildExits
<1>2. child' = ChildRecord(child.args, child.env, child.script, child.wrote, "exited", c)
  BY <1>1, ChildAfterEnd DEF CmdInv
<1> QED BY <1>2, ChildEnds DEF ChildExits

LEMMA ChildKilledStep ==
  ASSUME CmdInv, ChildKilled
  PROVE  CmdInv'
<1>1. child' = [child EXCEPT !.end = "killed"]
  BY DEF ChildKilled
<1>2. child' = ChildRecord(child.args, child.env, child.script, child.wrote, "killed", child.code)
  BY <1>1 DEF CmdInv, ChildIsRecord, ChildRecord
<1> QED BY <1>2, ChildEnds DEF ChildKilled

LEMMA HostReadsStep ==
  ASSUME CmdInv, NEW s \in Streams, HostReads(s)
  PROVE  CmdInv'
<1>1. /\ phase = "spawned" /\ UNCHANGED <<cmd, built, phase, mode, child, open, ret>>
      /\ read' = [read EXCEPT ![s] = @ \o pipe[s]] /\ pipe' = [pipe EXCEPT ![s] = <<>>]
  BY DEF HostReads
<1>2. pipe \in [Streams -> Seq(Nat)] /\ read \in [Streams -> Seq(Nat)] /\ <<>> \in Seq(Nat)
  BY DEF CmdInv, PipesFit
<1>3. ArgsFit' /\ EnvsFit' /\ ClearFits' /\ cmd' \in Records
  BY <1>1, RecordFrame
<1>4. read[s] \o pipe[s] \in Seq(Nat)
  BY <1>2
<1>5. pipe' \in [Streams -> Seq(Nat)] /\ read' \in [Streams -> Seq(Nat)]
  BY <1>1, <1>2, <1>4
<1>6. \A t \in Streams : read'[t] \o pipe'[t] = read[t] \o pipe[t]
  <2>1. read'[s] = read[s] \o pipe[s] /\ pipe'[s] = <<>>
    BY <1>1, <1>2
  <2>2. (read[s] \o pipe[s]) \o <<>> = read[s] \o pipe[s]
    BY <1>4, ConcatEmptySeq
  <2>3. \A t \in Streams : t # s => read'[t] = read[t] /\ pipe'[t] = pipe[t]
    BY <1>1, <1>2
  <2> QED BY <2>1, <2>2, <2>3
<1>7. \A t \in Streams : pipe'[t] = pipe[t] \/ pipe'[t] = <<>>
  BY <1>1, <1>2
<1>8. TypeOK'
  <2>1. \A t \in Streams : Len(pipe'[t]) <= PipeSize
    <3>1. Len(<<>>) = 0 /\ 0 <= PipeSize
      BY CmdAssumption
    <3> QED BY <1>7, <3>1 DEF CmdInv, TypeOK
  <2> QED BY <1>1, <2>1 DEF CmdInv, TypeOK
<1>9. Unstarted' /\ OutcomeFits' /\ ChildFits' /\ ChildIsRecord'
  BY <1>1 DEF CmdInv, Unstarted, OutcomeFits, ChildFits, ChildIsRecord
<1>10. PipesFit'
  <2>1. \A t : Printed(t)' = Printed(t)
    BY <1>1 DEF Printed
  <2>2. mode = "output" => \A t \in Streams : InOrder(read'[t] \o pipe'[t], Printed(t)')
    BY <1>6, <2>1 DEF CmdInv, PipesFit
  <2>3. mode = "output" => \A t \in Streams \ open : pipe'[t] = <<>> /\ child.end # "running"
    BY <1>1, <1>7 DEF CmdInv, PipesFit
  <2> QED BY <1>1, <1>5, <2>2, <2>3 DEF CmdInv, PipesFit
<1> QED BY <1>3, <1>8, <1>9, <1>10 DEF CmdInv

LEMMA HostSeesEofStep ==
  ASSUME CmdInv, NEW s \in Streams, HostSeesEof(s)
  PROVE  CmdInv'
<1>1. /\ phase = "spawned" /\ pipe[s] = <<>> /\ child.end # "running" /\ open' = open \ {s}
      /\ UNCHANGED <<cmd, built, phase, mode, child, pipe, read, ret>>
  BY DEF HostSeesEof
<1>2. ArgsFit' /\ EnvsFit' /\ ClearFits' /\ cmd' \in Records
  BY <1>1, RecordFrame
<1>3. TypeOK' /\ Unstarted' /\ OutcomeFits' /\ ChildFits' /\ ChildIsRecord'
  BY <1>1 DEF CmdInv, TypeOK, Unstarted, OutcomeFits, ChildFits, ChildIsRecord
<1>4. \A t : Printed(t)' = Printed(t)
  BY <1>1 DEF Printed
<1>5. PipesFit'
  BY <1>1, <1>4 DEF CmdInv, PipesFit
<1> QED BY <1>2, <1>3, <1>5 DEF CmdInv

LEMMA ResultTags ==
  ASSUME child.end \in {"exited", "killed"}
  PROVE  /\ OutputResult.tag \in {"Ok", "CmdErr", "NonZeroExit"}
         /\ ExecResult.tag \in {"Ok", "CmdErr", "ExecFailed"}
         /\ OutputResult.tag = "CmdErr" <=> child.end = "killed"
         /\ ExecResult.tag = "CmdErr" <=> child.end = "killed"
         /\ OutputResult.tag = "Ok" <=> child.end = "exited" /\ child.code = 0
         /\ ExecResult.tag = "Ok" <=> child.end = "exited" /\ child.code = 0
         /\ OutputResult.tag = "NonZeroExit" => OutputResult.code = child.code
         /\ ExecResult.tag = "ExecFailed" => ExecResult.code = child.code
         /\ OutputResult.tag \in {"Ok", "NonZeroExit"} => OutputResult.out = read
<1>1. CASE child.end = "killed"
  <2>1. OutputResult.tag = "CmdErr" /\ ExecResult.tag = "CmdErr"
    BY <1>1 DEF OutputResult, ExecResult, Signalled
  <2> QED BY <1>1, <2>1
<1>2. CASE child.end = "exited" /\ child.code = 0
  <2>1. OutputResult = [tag |-> "Ok", out |-> read] /\ ExecResult = [tag |-> "Ok"]
    BY <1>2 DEF OutputResult, ExecResult
  <2> QED BY <1>2, <2>1
<1>3. CASE child.end = "exited" /\ child.code # 0
  <2>1. /\ OutputResult = [tag |-> "NonZeroExit", code |-> child.code, out |-> read]
        /\ ExecResult = [tag |-> "ExecFailed", code |-> child.code]
    BY <1>3 DEF OutputResult, ExecResult
  <2> QED BY <1>3, <2>1
<1> QED BY <1>1, <1>2, <1>3

LEMMA HostWaitsStep ==
  ASSUME CmdInv, HostWaits
  PROVE  CmdInv'
<1>1. /\ phase = "spawned" /\ child.end # "running" /\ open = {} /\ phase' = "done"
      /\ ret' = IF mode = "output" THEN OutputResult ELSE ExecResult
      /\ UNCHANGED <<cmd, built, mode, child, pipe, read, open>>
  BY DEF HostWaits
<1>2. ArgsFit' /\ EnvsFit' /\ ClearFits' /\ cmd' \in Records
  BY <1>1, RecordFrame
<1>3. child.end \in {"exited", "killed"} /\ mode \in {"status", "output"}
  BY <1>1 DEF CmdInv, PipesFit
<1>4. ret'.tag \in {"Ok", "CmdErr", "NonZeroExit", "ExecFailed"}
  BY <1>1, <1>3, ResultTags
<1>5. TypeOK'
  BY <1>1, <1>4 DEF CmdInv, TypeOK
<1>6. Unstarted' /\ ChildFits' /\ ChildIsRecord'
  BY <1>1 DEF CmdInv, Unstarted, ChildFits, ChildIsRecord
<1>7. OutputResult' = OutputResult /\ ExecResult' = ExecResult
  BY <1>1 DEF OutputResult, ExecResult, Signalled
<1>8. OutcomeFits'
  BY <1>1, <1>3, <1>7 DEF OutcomeFits
<1>9. \A t : Printed(t)' = Printed(t)
  BY <1>1 DEF Printed
<1>10. PipesFit'
  BY <1>1, <1>9 DEF CmdInv, PipesFit
<1> QED BY <1>2, <1>5, <1>6, <1>8, <1>10 DEF CmdInv
LEMMA StutterStep ==
  ASSUME CmdInv, UNCHANGED vars
  PROVE  CmdInv'
<1>1. UNCHANGED <<cmd, built, phase, mode, child, pipe, read, open, ret>>
  BY DEF vars
<1>2. ArgsFit' /\ EnvsFit' /\ ClearFits' /\ cmd' \in Records
  BY <1>1, RecordFrame
<1>3. TypeOK' /\ Unstarted' /\ ChildFits' /\ ChildIsRecord'
  BY <1>1 DEF CmdInv, TypeOK, Unstarted, ChildFits, ChildIsRecord
<1>4. OutcomeFits'
  BY <1>1 DEF CmdInv, OutcomeFits, OutputResult, ExecResult, Signalled
<1>5. PipesFit'
  BY <1>1 DEF CmdInv, PipesFit, Printed
<1> QED BY <1>2, <1>3, <1>4, <1>5 DEF CmdInv

LEMMA CmdStep ==
  ASSUME CmdInv, [Next]_vars
  PROVE  CmdInv'
<1>1. ASSUME NEW a \in Args, arg(a)
      PROVE  CmdInv'
  BY <1>1, ArgStep
<1>2. ASSUME NEW a \in Args, NEW b \in Args, args(<<a, b>>)
      PROVE  CmdInv'
  BY <1>2, ArgsStep
<1>3. ASSUME NEW k \in Keys, NEW v \in Values, env(k, v)
      PROVE  CmdInv'
  BY <1>3, EnvStep
<1>4. ASSUME NEW l \in EnvLists, envs(l)
      PROVE  CmdInv'
  BY <1>4, EnvsStep
<1>5. CASE clear_envs
  BY <1>5, ClearStep
<1>6. ASSUME NEW m \in {"status", "output"}, Spawn(m)
      PROVE  CmdInv'
  BY <1>6, SpawnStep
<1>7. CASE ChildWrites
  BY <1>7, ChildWritesStep
<1>8. CASE ChildExits
  BY <1>8, ChildExitsStep
<1>9. CASE ChildKilled
  BY <1>9, ChildKilledStep
<1>10. ASSUME NEW s \in Streams, HostReads(s)
       PROVE  CmdInv'
  BY <1>10, HostReadsStep
<1>11. ASSUME NEW s \in Streams, HostSeesEof(s)
       PROVE  CmdInv'
  BY <1>11, HostSeesEofStep
<1>12. CASE HostWaits
  BY <1>12, HostWaitsStep
<1>13. CASE UNCHANGED vars
  BY <1>13, StutterStep
<1> QED BY <1>1, <1>2, <1>3, <1>4, <1>5, <1>6, <1>7, <1>8, <1>9, <1>10, <1>11, <1>12, <1>13 DEF Next

LEMMA CmdStart ==
  ASSUME Init
  PROVE  CmdInv
<1>1. Len(<<>>) = 0 /\ 1..0 = {} /\ 0 % 2 = 0
  OBVIOUS
<1>2. /\ cmd.args = <<>> /\ cmd.envs = <<>> /\ cmd.clear_envs = FALSE /\ cmd \in Records
      /\ built = <<>>
  BY DEF Init, Records
<1>3. ArgPlaces = {} /\ PairPlaces = {}
  BY <1>1, <1>2 DEF ArgPlaces, PairPlaces
<1>4. ArgsFit
  BY <1>1, <1>2, <1>3, FS_EmptySet DEF ArgsFit
<1>5. EnvsFit
  <2>1. \A k : Given(k) = {}
    BY <1>3 DEF Given
  <2>2. Chunks(cmd.envs) = <<>>
    BY <1>2, ChunksNothing
  <2>3. Chunks(cmd.envs) \in Seq(Pairs) /\ Len(Chunks(cmd.envs)) = 0
    BY <2>2
  <2>4. \A k : ~ Named(Chunks(cmd.envs), k)
    BY <1>1, <2>3 DEF Named
  <2> QED BY <2>1, <2>3, <2>4 DEF EnvsFit
<1>6. ClearFits
  BY <1>1, <1>2 DEF ClearFits, Cleared
<1>7. /\ child.end = "unborn" /\ child.wrote = <<>> /\ child.script = <<>> /\ child.args = <<>>
      /\ child.env = <<>> /\ child.code = 0 /\ ret.tag = "none"
  BY DEF Init
<1>8. Unstarted /\ ChildFits /\ OutcomeFits
  BY <1>7 DEF Init, Unstarted, ChildFits, OutcomeFits
<1>9. ChildIsRecord
  BY DEF Init, ChildIsRecord, ChildRecord
<1>10. TypeOK
  <2>1. \A s \in Streams : Len(pipe[s]) <= PipeSize
    BY <1>1, CmdAssumption DEF Init
  <2> QED BY <1>1, <1>2, <1>7, <2>1 DEF Init, TypeOK
<1>11. PipesFit
  BY <1>7 DEF Init, PipesFit
<1> QED BY <1>2, <1>4, <1>5, <1>6, <1>8, <1>9, <1>10, <1>11 DEF CmdInv

-----------------------------------------------------------------------------
(* The invariant: the record holds, in their order, what the calls gave, and
   whether one of them was clear_envs; the child, once it runs, has what the
   record says; read and in the pipe together is what was printed.           *)
THEOREM CmdInvariant == Spec => []CmdInv
<1>1. Init => CmdInv
  BY CmdStart
<1>2. CmdInv /\ [Next]_vars => CmdInv'
  BY CmdStep
<1> QED BY <1>1, <1>2, PTL DEF Spec

(* TypeOK: the flat list of variables is a list of pairs, and no pipe holds
   more than it can.                                                         *)
THEOREM CmdTypeCorrect == Spec => []TypeOK
<1>1. CmdInv => TypeOK
  BY DEF CmdInv
<1> QED BY <1>1, CmdInvariant, PTL

(* What to_std_command makes of the record: a name is set if a pair names it
   or the parent's environment is kept and has it.                           *)
LEMMA EnvironmentOfRecord ==
  ASSUME CmdInv
  PROVE  /\ DOMAIN ToStdEnv(cmd)
              = {k \in Keys : Given(k) # {}} \cup (IF Cleared THEN {} ELSE DOMAIN ParentEnv)
         /\ \A k \in DOMAIN ToStdEnv(cmd) :
              IF Given(k) = {} THEN ToStdEnv(cmd)[k] = ParentEnv[k]
              ELSE \E p \in Given(k) : /\ ToStdEnv(cmd)[k] = PairAt(p)[2]
                                       /\ \A q \in Given(k) : NotAfter(q, p)
<1> DEFINE P == Chunks(cmd.envs)
           E == IF cmd.clear_envs THEN EmptyEnv ELSE ParentEnv
           names == {P[i][1] : i \in 1..Len(P)}
<1>1. cmd.envs \in Seq(Texts) /\ Len(cmd.envs) % 2 = 0 /\ P \in Seq(Texts \X Texts) /\ Len(P) \in Nat
  <2>1. cmd.envs \in Seq(Texts) /\ Len(cmd.envs) % 2 = 0
    BY RecordParts DEF CmdInv, TypeOK
  <2>2. P \in Seq(Texts \X Texts)
    BY <2>1, ChunksSeq
  <2>3. Len(P) \in Nat
    <3> HIDE DEF P
    <3> QED BY <2>2
  <2> QED BY <2>1, <2>2, <2>3
<1>2. ToStdEnv(cmd) = [k \in DOMAIN E \cup names |->
                         IF Named(P, k) THEN LastGiven(P, k) ELSE E[k]]
  BY DEF ToStdEnv, SetAll
<1>3. DOMAIN E = IF Cleared THEN {} ELSE DOMAIN ParentEnv
  BY DEF CmdInv, ClearFits, EmptyEnv
<1>4. \A k \in DOMAIN E : E[k] = ParentEnv[k]
  BY DEF EmptyEnv
<1>5. \A k : k \in names <=> Named(P, k)
  BY DEF Named
<1> HIDE DEF P, E, names
<1>6. names \subseteq Keys
  <2>1. P \in Seq(Pairs)
    BY DEF CmdInv, EnvsFit, P
  <2>2. \A i \in 1..Len(P) : P[i] \in Keys \X Values
    BY <2>1 DEF Pairs
  <2> QED BY <2>2 DEF names
<1>7. \A k \in Keys : Named(P, k) <=> Given(k) # {}
  BY DEF CmdInv, EnvsFit, P
<1>8. names = {k \in Keys : Given(k) # {}}
  BY <1>5, <1>6, <1>7
<1>9. ASSUME NEW k \in DOMAIN E \cup names
      PROVE  IF Given(k) = {} THEN ToStdEnv(cmd)[k] = ParentEnv[k]
             ELSE \E p \in Given(k) : /\ ToStdEnv(cmd)[k] = PairAt(p)[2]
                                      /\ \A q \in Given(k) : NotAfter(q, p)
  <2>1. k \in Keys
    BY <1>3, <1>6, <1>9, CmdAssumption
  <2>2. ToStdEnv(cmd)[k] = IF Named(P, k) THEN LastGiven(P, k) ELSE E[k]
    BY <1>2
  <2>3. CASE Given(k) = {}
    BY <2>1, <2>2, <2>3, <1>4, <1>5, <1>7
  <2>4. CASE Given(k) # {}
    <3>1. PICK p \in Given(k), i \in 1..Len(P) : LatestPair(k, p, i)
      BY <2>1, <2>4 DEF CmdInv, EnvsFit, P
    <3>2. LastFor(P, k, i) /\ P[i] = PairAt(p) /\ \A q \in Given(k) : NotAfter(q, p)
      BY <3>1 DEF LatestPair, P
    <3>3. LastGiven(P, k) = P[i][2]
      BY <3>2, <1>1, LastIsGiven
    <3>4. ToStdEnv(cmd)[k] = PairAt(p)[2]
      BY <2>1, <2>2, <2>4, <1>7, <3>2, <3>3
    <3> QED BY <2>4, <3>2, <3>4
  <2> QED BY <2>3, <2>4
<1> QED BY <1>2, <1>3, <1>8, <1>9

(* ChildAsBuilt: whatever the order of the builder calls, the child gets all
   the arguments in order, the last value given to each name, and the host's
   own environment unless it was cleared.                                    *)
THEOREM ChildrenAreAsBuilt == Spec => []ChildAsBuilt
<1>1. ASSUME CmdInv, child.end # "unborn"
      PROVE  ChildAsBuilt
  <2>1. child.args = cmd.args /\ child.env = ToStdEnv(cmd) /\ ArgsFit
    BY <1>1 DEF CmdInv, ChildFits
  <2> QED BY <1>1, <2>1, EnvironmentOfRecord DEF ChildAsBuilt, ArgsFit
<1>2. CmdInv => ChildAsBuilt
  BY <1>1 DEF ChildAsBuilt
<1> QED BY <1>2, CmdInvariant, PTL

(* OutcomeFaithful: a run is Ok exactly for a child that ran to exit code 0,
   a signal is neither a code nor a success, and a process that could not be
   started is an error that is not taken for either.                         *)
THEOREM OutcomesAreFaithful == Spec => []OutcomeFaithful
<1>1. ASSUME CmdInv, phase = "done", child.end # "unborn"
      PROVE  OutcomeFaithful
  <2>1. child.end \in {"exited", "killed"} /\ ret = IF mode = "output" THEN OutputResult ELSE ExecResult
    BY <1>1 DEF CmdInv, OutcomeFits, PipesFit
  <2>2. ret.tag = "CmdErr" => (ret.kind = "Signalled" <=> child.end = "killed")
    BY <2>1, ResultTags DEF OutputResult, ExecResult, Signalled
  <2> QED BY <2>1, <2>2, ResultTags DEF OutcomeFaithful
<1>2. ASSUME CmdInv, phase = "done", child.end = "unborn"
      PROVE  OutcomeFaithful
  <2>1. ret.tag = "CmdErr" /\ ret.kind # "Signalled"
    BY <1>2 DEF CmdInv, OutcomeFits
  <2> QED BY <1>2, <2>1 DEF OutcomeFaithful
<1>3. CmdInv => OutcomeFaithful
  BY <1>1, <1>2 DEF OutcomeFaithful
<1> QED BY <1>3, CmdInvariant, PTL

(* CaptureComplete: for every pipe size, and however reading and printing
   interleave, exec_output! returns all that was printed, each stream in
   order.                                                                    *)
THEOREM CapturesAreComplete == Spec => []CaptureComplete
<1>1. ASSUME CmdInv, ret.tag \in {"Ok", "NonZeroExit"}, mode = "output", NEW s \in Streams
      PROVE  InOrder(ret.out[s], Printed(s))
  <2>1. phase = "done" /\ child.end # "unborn"
    BY <1>1 DEF CmdInv, TypeOK, PipesFit, Unstarted, OutcomeFits
  <2>2. child.end \in {"exited", "killed"} /\ open = {} /\ ret = OutputResult
    BY <1>1, <2>1 DEF CmdInv, OutcomeFits, PipesFit
  <2>3. ret.out = read
    BY <1>1, <2>2, ResultTags
  <2>4. InOrder(read[s] \o pipe[s], Printed(s)) /\ pipe[s] = <<>> /\ read[s] \in Seq(Nat)
    BY <1>1, <2>1, <2>2 DEF CmdInv, PipesFit
  <2>5. read[s] \o <<>> = read[s]
    BY <2>4, ConcatEmptySeq
  <2> QED BY <2>3, <2>4, <2>5
<1>2. CmdInv => CaptureComplete
  BY <1>1 DEF CaptureComplete
<1> QED BY <1>2, CmdInvariant, PTL
=============================================================================
