-------------------------- MODULE FileSystemProofs --------------------------
(***************************************************************************)
(* Proofs about FileSystem: for every set of paths, contents and links,    *)
(* every number of calls, and whatever the other process does in between.  *)
(***************************************************************************)
EXTENDS FileSystem, FiniteSetTheorems, SequenceTheorems, WellFoundedInduction, TLAPS

-----------------------------------------------------------------------------
(* Paths, seen through their length and what lies below what.                *)
Names == Seq(STRING)
Depth(p) == Len(p)

(* A path that may exist is not empty, and its parent may exist too. *)
LEMMA PathShape ==
  ASSUME NEW p \in Paths
  PROVE  p \in Names /\ Depth(p) \in Nat \ {0} /\ (Depth(p) # 1 => Front(p) \in Paths)
<1>1. p \in Seq(STRING) /\ p # <<>> /\ (Len(p) > 1 => Front(p) \in Paths)
  BY FileSystemAssumption
<1>2. Len(p) \in Nat \ {0}
  BY <1>1, EmptySeq
<1>3. \A n \in Nat \ {0} : n # 1 => n > 1
  OBVIOUS
<1>4. Depth(p) = Len(p) /\ p \in Names
  BY <1>1 DEF Names, Depth
<1>5. Len(p) # 1 => Len(p) > 1
  BY <1>2, <1>3, Zenon
<1> QED BY <1>1, <1>2, <1>4, <1>5, Zenon

LEMMA NameShape ==
  ASSUME NEW p \in Names
  PROVE  Depth(p) \in Nat /\ \A i \in 1..Depth(p) : p[i] \in STRING
BY LenProperties, ElementOfSeq DEF Names, Depth

LEMMA SameName ==
  ASSUME NEW p \in Names, NEW q \in Names, Depth(p) = Depth(q),
         \A i \in 1..Depth(p) : p[i] = q[i]
  PROVE  p = q
BY SeqEqual DEF Names, Depth

LEMMA PartIs ==
  ASSUME NEW p \in Names, NEW m \in 1..(Depth(p) + 1), NEW n \in 0..Depth(p), n >= m - 1
  PROVE  /\ SubSeq(p, m, n) \in Names /\ Depth(SubSeq(p, m, n)) = n - m + 1
         /\ \A i \in 1..(n - m + 1) : SubSeq(p, m, n)[i] = p[m + i - 1]
<1>1. m \in Int /\ n \in Int /\ m..n \subseteq 1..Depth(p)
  BY NameShape
<1>2. \A i \in m..n : p[i] \in STRING
  BY <1>1, NameShape
<1>3. /\ SubSeq(p, m, n) \in Seq(STRING)
      /\ Len(SubSeq(p, m, n)) = IF m <= n THEN n - m + 1 ELSE 0
      /\ \A i \in 1..(n - m + 1) : SubSeq(p, m, n)[i] = p[m + i - 1]
  BY <1>1, <1>2, SubSeqProperties
<1>4. (IF m <= n THEN n - m + 1 ELSE 0) = n - m + 1
  BY <1>1
<1> QED BY <1>3, <1>4 DEF Names, Depth

LEMMA FrontIs ==
  ASSUME NEW p \in Names, Depth(p) # 0
  PROVE  /\ Front(p) \in Names /\ Depth(Front(p)) = Depth(p) - 1
         /\ \A i \in 1..(Depth(p) - 1) : Front(p)[i] = p[i]
<1>1. Depth(p) \in Nat
  BY NameShape
<1>2. Front(p) = SubSeq(p, 1, Depth(p) - 1)
  BY DEF Front, Depth
<1> QED BY <1>1, <1>2, PartIs

LEMMA PrefixIs ==
  ASSUME NEW p \in Names, NEW r \in Names
  PROVE  IsPrefix(p, r) <=>
           Depth(p) <= Depth(r) /\ \A i \in 1..Depth(p) : p[i] = r[i]
<1>1. Depth(p) \in Nat /\ Depth(r) \in Nat
  BY NameShape
<1>2. IsPrefix(p, r) <=>
        Depth(p) <= Depth(r) /\ SubSeq(p, 1, Depth(p)) = SubSeq(r, 1, Depth(p))
  BY DEF IsPrefix, Depth
<1>3. SUFFICES ASSUME Depth(p) <= Depth(r)
               PROVE  SubSeq(p, 1, Depth(p)) = SubSeq(r, 1, Depth(p)) <=>
                        \A i \in 1..Depth(p) : p[i] = r[i]
  BY <1>2
<1> DEFINE a == SubSeq(p, 1, Depth(p))
           b == SubSeq(r, 1, Depth(p))
<1>4. /\ a \in Names /\ Depth(a) = Depth(p) /\ \A i \in 1..Depth(p) : a[i] = p[i]
  BY <1>1, PartIs
<1>5. /\ b \in Names /\ Depth(b) = Depth(p) /\ \A i \in 1..Depth(p) : b[i] = r[i]
  BY <1>1, <1>3, PartIs
<1> HIDE DEF a, b
<1>6. ASSUME \A i \in 1..Depth(p) : p[i] = r[i] PROVE a = b
  BY <1>4, <1>5, <1>6, SameName
<1>7. ASSUME a = b PROVE \A i \in 1..Depth(p) : p[i] = r[i]
  BY <1>4, <1>5, <1>7
<1> QED BY <1>6, <1>7 DEF a, b

LEMMA MovedIs ==
  ASSUME NEW r \in Names, NEW q \in Names, NEW p \in Names, IsPrefix(q, r)
  PROVE  /\ Moved(r, q, p) \in Names
         /\ Depth(Moved(r, q, p)) = Depth(p) + (Depth(r) - Depth(q))
         /\ \A i \in 1..Depth(p) : Moved(r, q, p)[i] = p[i]
         /\ \A i \in 1..(Depth(r) - Depth(q)) :
              Moved(r, q, p)[i + Depth(p)] = r[i + Depth(q)]
<1>1. Depth(p) \in Nat /\ Depth(q) \in Nat /\ Depth(r) \in Nat /\ Depth(q) <= Depth(r)
  BY NameShape, PrefixIs
<1> DEFINE rest == SubSeq(r, Depth(q) + 1, Depth(r))
           k == Depth(r) - Depth(q)
<1>2. /\ rest \in Names /\ Depth(rest) = Depth(r) - (Depth(q) + 1) + 1
      /\ \A i \in 1..(Depth(r) - (Depth(q) + 1) + 1) : rest[i] = r[(Depth(q) + 1) + i - 1]
  BY <1>1, PartIs
<1>3. Depth(r) - (Depth(q) + 1) + 1 = k /\ k \in Nat
  BY <1>1
<1>4. Moved(r, q, p) = p \o rest
  BY DEF Moved, Depth
<1> HIDE DEF rest
<1>5. /\ p \o rest \in Seq(STRING) /\ Len(p \o rest) = Len(p) + Len(rest)
      /\ \A i \in 1..(Len(p) + Len(rest)) :
           (p \o rest)[i] = IF i <= Len(p) THEN p[i] ELSE rest[i - Len(p)]
  BY <1>2, ConcatProperties DEF Names
<1> DEFINE m == Moved(r, q, p)
<1>6. /\ m \in Names /\ Depth(m) = Depth(p) + Depth(rest)
      /\ \A i \in 1..(Depth(p) + Depth(rest)) :
           m[i] = IF i <= Depth(p) THEN p[i] ELSE rest[i - Depth(p)]
  BY <1>4, <1>5 DEF Names, Depth
<1>7. Depth(rest) = k /\ \A i \in 1..k : rest[i] = r[i + Depth(q)]
  <2>1. ASSUME NEW i \in 1..k PROVE (Depth(q) + 1) + i - 1 = i + Depth(q)
    BY <1>1, <1>3
  <2> QED BY <1>2, <1>3, <2>1
<1> HIDE DEF m
<1>8. \A i \in 1..Depth(p) : m[i] = p[i]
  BY <1>1, <1>3, <1>6, <1>7
<1>9. ASSUME NEW i \in 1..k PROVE m[i + Depth(p)] = r[i + Depth(q)]
  <2>1. i + Depth(p) \in 1..(Depth(p) + k) /\ ~(i + Depth(p) <= Depth(p))
        /\ (i + Depth(p)) - Depth(p) = i
    BY <1>1, <1>3
  <2>2. m[i + Depth(p)] = rest[(i + Depth(p)) - Depth(p)]
    BY <1>6, <1>7, <2>1
  <2> QED BY <1>7, <2>1, <2>2
<1> QED BY <1>6, <1>7, <1>8, <1>9 DEF m

LEMMA MovedHere ==
  ASSUME NEW p \in Names, NEW q \in Names
  PROVE  Moved(p, p, q) = q
<1> DEFINE m == Moved(p, p, q)
<1>1. IsPrefix(p, p) /\ Depth(p) \in Nat /\ Depth(q) \in Nat
  BY PrefixIs, NameShape
<1>2. /\ m \in Names /\ Depth(m) = Depth(q) + (Depth(p) - Depth(p))
      /\ \A i \in 1..Depth(q) : m[i] = q[i]
  BY <1>1, MovedIs
<1> HIDE DEF m
<1>3. Depth(m) = Depth(q)
  BY <1>1, <1>2
<1>4. m = q
  BY <1>2, <1>3, SameName
<1> QED BY <1>4 DEF m

(* What lies below what. *)
LEMMA BelowItself ==
  ASSUME NEW p \in Names
  PROVE  IsPrefix(p, p)
BY PrefixIs, NameShape

LEMMA BelowBelow ==
  ASSUME NEW p \in Names, NEW q \in Names, NEW r \in Names, IsPrefix(p, q), IsPrefix(q, r)
  PROVE  IsPrefix(p, r)
<1>1. Depth(p) \in Nat /\ Depth(q) \in Nat /\ Depth(r) \in Nat
  BY NameShape
<1>2. Depth(p) <= Depth(q) /\ \A i \in 1..Depth(p) : p[i] = q[i]
  BY PrefixIs
<1>3. Depth(q) <= Depth(r) /\ \A i \in 1..Depth(q) : q[i] = r[i]
  BY PrefixIs
<1> QED BY <1>1, <1>2, <1>3, PrefixIs

LEMMA BelowParent ==
  ASSUME NEW p \in Names, Depth(p) # 0
  PROVE  IsPrefix(Front(p), p) /\ Front(p) # p
<1>1. Depth(p) \in Nat
  BY NameShape
<1> QED BY <1>1, FrontIs, PrefixIs

(* What lies strictly below p has its parent at or below p. *)
LEMMA ParentBelow ==
  ASSUME NEW p \in Names, NEW r \in Names, IsPrefix(p, r), p # r
  PROVE  /\ Depth(p) < Depth(r) /\ IsPrefix(p, Front(r))
         /\ Front(r) = p <=> Depth(r) = Depth(p) + 1
<1>1. Depth(p) \in Nat /\ Depth(r) \in Nat
  BY NameShape
<1>2. Depth(p) <= Depth(r) /\ \A i \in 1..Depth(p) : p[i] = r[i]
  BY PrefixIs
<1>3. Depth(p) # Depth(r)
  BY <1>1, <1>2, SameName
<1>4. /\ Front(r) \in Names /\ Depth(Front(r)) = Depth(r) - 1
      /\ \A i \in 1..(Depth(r) - 1) : Front(r)[i] = r[i]
  BY <1>1, <1>2, <1>3, FrontIs
<1>5. IsPrefix(p, Front(r))
  BY <1>1, <1>2, <1>3, <1>4, PrefixIs
<1>6. \A i \in 1..Depth(p) : Front(r)[i] = p[i]
  BY <1>1, <1>2, <1>3, <1>4
<1>7. Depth(r) = Depth(p) + 1 => Front(r) = p
  BY <1>1, <1>4, <1>6, SameName
<1> QED BY <1>1, <1>2, <1>3, <1>4, <1>5, <1>7

(* Two paths above the same one lie above each other. *)
LEMMA AboveTheSame ==
  ASSUME NEW p \in Names, NEW q \in Names, NEW r \in Names, IsPrefix(p, r), IsPrefix(q, r)
  PROVE  IsPrefix(p, q) \/ IsPrefix(q, p)
<1>1. Depth(p) \in Nat /\ Depth(q) \in Nat /\ Depth(r) \in Nat
  BY NameShape
<1>2. Depth(p) <= Depth(r) /\ \A i \in 1..Depth(p) : p[i] = r[i]
  BY PrefixIs
<1>3. Depth(q) <= Depth(r) /\ \A i \in 1..Depth(q) : q[i] = r[i]
  BY PrefixIs
<1>4. CASE Depth(p) <= Depth(q)
  BY <1>1, <1>2, <1>3, <1>4, PrefixIs
<1>5. CASE Depth(q) <= Depth(p)
  BY <1>1, <1>2, <1>3, <1>5, PrefixIs
<1> QED BY <1>1, <1>4, <1>5

(* What a rename does to the paths below the one that it moves. *)
LEMMA MovedBelow ==
  ASSUME NEW r \in Names, NEW q \in Names, NEW p \in Names, IsPrefix(q, r)
  PROVE  /\ Moved(r, q, p) \in Names /\ IsPrefix(p, Moved(r, q, p))
         /\ Moved(q, q, p) = p
         /\ Moved(r, q, q) = r
<1>1. Depth(p) \in Nat /\ Depth(q) \in Nat /\ Depth(r) \in Nat /\ Depth(q) <= Depth(r)
  BY NameShape, PrefixIs
<1>2. IsPrefix(q, q)
  BY BelowItself
<1>3. Moved(r, q, p) \in Names /\ IsPrefix(p, Moved(r, q, p))
  BY <1>1, MovedIs, PrefixIs
<1>4. Moved(q, q, p) = p
  <2>1. Moved(q, q, p) \in Names /\ Depth(Moved(q, q, p)) = Depth(p)
        /\ \A i \in 1..Depth(p) : Moved(q, q, p)[i] = p[i]
    BY <1>1, <1>2, MovedIs
  <2> QED BY <2>1, SameName
<1>5. Moved(r, q, q) = r
  <2> DEFINE m == Moved(r, q, q)
  <2>1. m \in Names /\ Depth(m) = Depth(q) + (Depth(r) - Depth(q))
        /\ (\A i \in 1..Depth(q) : m[i] = q[i])
        /\ (\A i \in 1..(Depth(r) - Depth(q)) : m[i + Depth(q)] = r[i + Depth(q)])
    BY MovedIs
  <2>2. \A i \in 1..Depth(q) : q[i] = r[i]
    BY PrefixIs
  <2> HIDE DEF m
  <2>3. ASSUME NEW i \in 1..Depth(m) PROVE m[i] = r[i]
    <3>1. CASE i <= Depth(q)
      BY <1>1, <2>1, <2>2, <3>1
    <3>2. CASE ~(i <= Depth(q))
      <4>1. i - Depth(q) \in 1..(Depth(r) - Depth(q)) /\ (i - Depth(q)) + Depth(q) = i
        BY <1>1, <2>1, <3>2
      <4>2. m[(i - Depth(q)) + Depth(q)] = r[(i - Depth(q)) + Depth(q)]
        BY <2>1, <4>1
      <4> QED BY <4>1, <4>2
    <3> QED BY <3>1, <3>2
  <2>4. Depth(m) = Depth(r)
    BY <1>1, <2>1
  <2>5. m = r
    BY <2>1, <2>3, <2>4, SameName
  <2> QED BY <2>5 DEF m
<1> QED BY <1>3, <1>4, <1>5

LEMMA MovedBack ==
  ASSUME NEW r \in Names, NEW q \in Names, NEW p \in Names, IsPrefix(q, r)
  PROVE  Moved(Moved(r, q, p), p, q) = r
<1> DEFINE m == Moved(r, q, p)
           b == Moved(m, p, q)
<1>1. Depth(p) \in Nat /\ Depth(q) \in Nat /\ Depth(r) \in Nat /\ Depth(q) <= Depth(r)
      /\ \A i \in 1..Depth(q) : q[i] = r[i]
  BY NameShape, PrefixIs
<1>2. /\ m \in Names /\ IsPrefix(p, m) /\ Depth(m) = Depth(p) + (Depth(r) - Depth(q))
      /\ \A i \in 1..(Depth(r) - Depth(q)) : m[i + Depth(p)] = r[i + Depth(q)]
  BY MovedIs, MovedBelow
<1> HIDE DEF m
<1>3. /\ b \in Names /\ Depth(b) = Depth(q) + (Depth(m) - Depth(p))
      /\ (\A i \in 1..Depth(q) : b[i] = q[i])
      /\ (\A i \in 1..(Depth(m) - Depth(p)) : b[i + Depth(q)] = m[i + Depth(p)])
  BY <1>2, MovedIs
<1> HIDE DEF b
<1>4. Depth(m) - Depth(p) = Depth(r) - Depth(q) /\ Depth(b) = Depth(r)
  BY <1>1, <1>2, <1>3
<1>5. ASSUME NEW i \in 1..Depth(b) PROVE b[i] = r[i]
  <2>1. CASE i <= Depth(q)
    BY <1>1, <1>3, <1>4, <2>1
  <2>2. CASE ~(i <= Depth(q))
    <3>1. i - Depth(q) \in 1..(Depth(r) - Depth(q)) /\ (i - Depth(q)) + Depth(q) = i
      BY <1>1, <1>4, <2>2
    <3>2. b[(i - Depth(q)) + Depth(q)] = m[(i - Depth(q)) + Depth(p)]
      BY <1>3, <1>4, <3>1
    <3>3. m[(i - Depth(q)) + Depth(p)] = r[(i - Depth(q)) + Depth(q)]
      BY <1>2, <3>1
    <3> QED BY <3>1, <3>2, <3>3
  <2> QED BY <2>1, <2>2
<1>6. b = r
  BY <1>3, <1>4, <1>5, SameName
<1> QED BY <1>6 DEF b, m

LEMMA MovedParent ==
  ASSUME NEW r \in Names, NEW q \in Names, NEW p \in Names, IsPrefix(q, r), q # r
  PROVE  /\ Depth(Moved(r, q, p)) = Depth(p) + (Depth(r) - Depth(q))
         /\ Front(Moved(r, q, p)) = Moved(Front(r), q, p)
<1> DEFINE m == Moved(r, q, p)
           f == Moved(Front(r), q, p)
           k == Depth(r) - Depth(q)
<1>1. Depth(p) \in Nat /\ Depth(q) \in Nat /\ Depth(r) \in Nat /\ Depth(q) < Depth(r)
      /\ IsPrefix(q, Front(r))
  BY NameShape, ParentBelow
<1>2. Front(r) \in Names /\ Depth(Front(r)) = Depth(r) - 1
      /\ \A i \in 1..(Depth(r) - 1) : Front(r)[i] = r[i]
  BY <1>1, FrontIs
<1>3. /\ m \in Names /\ Depth(m) = Depth(p) + k
      /\ (\A i \in 1..Depth(p) : m[i] = p[i])
      /\ (\A i \in 1..k : m[i + Depth(p)] = r[i + Depth(q)])
  BY MovedIs
<1>4. /\ f \in Names /\ Depth(f) = Depth(p) + (Depth(Front(r)) - Depth(q))
      /\ (\A i \in 1..Depth(p) : f[i] = p[i])
      /\ (\A i \in 1..(Depth(Front(r)) - Depth(q)) : f[i + Depth(p)] = Front(r)[i + Depth(q)])
  BY <1>1, <1>2, MovedIs
<1> HIDE DEF m, f
<1>5. /\ Front(m) \in Names /\ Depth(Front(m)) = Depth(m) - 1
      /\ \A i \in 1..(Depth(m) - 1) : Front(m)[i] = m[i]
  BY <1>1, <1>3, FrontIs
<1>6. Depth(Front(m)) = Depth(p) + (k - 1) /\ Depth(f) = Depth(p) + (k - 1) /\ k \in Nat \ {0}
      /\ Depth(Front(r)) - Depth(q) = k - 1
  BY <1>1, <1>2, <1>3, <1>4, <1>5
<1>7. ASSUME NEW i \in 1..(Depth(p) + (k - 1)) PROVE Front(m)[i] = f[i]
  <2>1. Front(m)[i] = m[i]
    BY <1>1, <1>3, <1>5, <1>6
  <2>2. CASE i <= Depth(p)
    BY <1>1, <1>3, <1>4, <2>1, <2>2
  <2>3. CASE ~(i <= Depth(p))
    <3> DEFINE j == i - Depth(p)
    <3>1. j \in 1..(k - 1) /\ j \in 1..k /\ j + Depth(p) = i
          /\ j + Depth(q) \in 1..(Depth(r) - 1)
      BY <1>1, <1>6, <2>3
    <3> HIDE DEF j
    <3>2. m[j + Depth(p)] = r[j + Depth(q)]
      BY <1>3, <3>1
    <3>3. f[j + Depth(p)] = Front(r)[j + Depth(q)]
      BY <1>4, <1>6, <3>1
    <3>4. Front(r)[j + Depth(q)] = r[j + Depth(q)]
      BY <1>2, <3>1
    <3> QED BY <2>1, <3>1, <3>2, <3>3, <3>4
  <2> QED BY <2>2, <2>3
<1>8. Front(m) = f
  BY <1>4, <1>5, <1>6, <1>7, SameName
<1> QED BY <1>3, <1>8 DEF m, f

-----------------------------------------------------------------------------
(* Trees: every path that exists has a directory as its parent, and links
   keep to the bound that the heading of FileSystem names.                   *)
Nodes == {None, Dir} \cup {File(i) : i \in Inodes} \cup {Link(t) : t \in Targets}
Trees ==
  {t \in [Paths -> Nodes] :
     /\ \A p \in Paths : MayHold(t[p], p)
     /\ \A p \in Paths : t[p] # None /\ Depth(p) # 1 => t[Front(p)].kind = "dir"}

LEMMA InodesAre ==
  Cardinality(Paths) \in Nat /\ Inodes = 1..(Cardinality(Paths) + 1) /\ 0 \notin Inodes
<1>1. Cardinality(Paths) \in Nat
  BY FileSystemAssumption, FS_CardinalityType
<1> QED BY <1>1 DEF Inodes

(* The four kinds of nodes, told apart by their kind. *)
LEMMA NodeIs ==
  ASSUME NEW n \in Nodes
  PROVE  /\ n.kind \in {"none", "file", "dir", "link"}
         /\ n.ino \in Inodes \cup {0} /\ n.target \in Targets \cup {<<>>}
         /\ n = [kind |-> n.kind, ino |-> n.ino, target |-> n.target]
         /\ n.kind = "none" <=> n = None
         /\ n.kind = "dir" <=> n = Dir
         /\ n.kind = "file" => n.ino \in Inodes /\ n = File(n.ino)
         /\ n.kind = "link" => n.target \in Targets /\ n = Link(n.target)
<1>1. CASE n \in {None, Dir}
  BY <1>1 DEF None, Dir
<1>2. CASE n \in {File(i) : i \in Inodes}
  <2>1. PICK i \in Inodes : n = File(i)
    BY <1>2
  <2> QED BY <2>1 DEF File, None, Dir
<1>3. CASE n \in {Link(t) : t \in Targets}
  <2>1. PICK t \in Targets : n = Link(t)
    BY <1>3
  <2> QED BY <2>1 DEF Link, None, Dir
<1> QED BY <1>1, <1>2, <1>3 DEF Nodes

LEMMA NodesMade ==
  /\ None \in Nodes /\ Dir \in Nodes
  /\ \A i \in Inodes : File(i) \in Nodes
  /\ \A t \in Targets : Link(t) \in Nodes
  /\ None.kind = "none" /\ Dir.kind = "dir"
  /\ \A i \in Inodes : File(i).kind = "file" /\ File(i).ino = i
  /\ \A t \in Targets : Link(t).kind = "link"
BY DEF Nodes, None, Dir, File, Link

LEMMA TreeNode ==
  ASSUME NEW t \in Trees, NEW p \in Paths
  PROVE  /\ t[p] \in Nodes /\ MayHold(t[p], p)
         /\ t[p].kind = "none" <=> t[p] = None
         /\ t[p] # None /\ Depth(p) # 1 => t[Front(p)].kind = "dir"
<1>1. t[p] \in Nodes
  BY DEF Trees
<1> QED BY <1>1, NodeIs DEF Trees

(* A path that exists can be reached, and conversely one that can be reached
   is at the top or in a directory.                                          *)
LEMMA Reachable ==
  ASSUME NEW p \in Paths
  PROVE  /\ Reach(p) = "ok" <=> Depth(p) = 1 \/ fs[Front(p)].kind = "dir"
         /\ Reach(p) \in {"ok", "NotFound", "NotADirectory"}
         /\ Reach(p) # "ok" => Front(p) \in Paths
<1>1. CASE Depth(p) = 1
  BY <1>1 DEF Reach, Depth
<1>2. CASE Depth(p) # 1
  <2>1. Front(p) \in Paths
    BY <1>2, PathShape
  <2> QED BY <1>2, <2>1 DEF Reach, Depth
<1> QED BY <1>1, <1>2

LEMMA LookedUp ==
  ASSUME NEW p \in Paths
  PROVE  /\ Lookup(p) = "ok" <=> Reach(p) = "ok" /\ fs[p].kind # "none"
         /\ Lookup(p) \in {"ok", "NotFound", "NotADirectory"}
<1>1. Reach(p) \in {"ok", "NotFound", "NotADirectory"}
  BY Reachable
<1>2. CASE Reach(p) # "ok"
  BY <1>1, <1>2 DEF Lookup
<1>3. CASE Reach(p) = "ok"
  BY <1>1, <1>3 DEF Lookup
<1> QED BY <1>2, <1>3

LEMMA RealIs ==
  ASSUME fs \in Trees, NEW p \in Paths
  PROVE  /\ Real(p) \in Paths /\ fs[Real(p)] \in Nodes /\ fs[Real(p)].kind # "link"
         /\ fs[p].kind # "link" => Real(p) = p
<1>1. fs[p] \in Nodes /\ MayHold(fs[p], p)
  BY TreeNode
<1>2. CASE fs[p].kind # "link"
  BY <1>1, <1>2 DEF Real
<1>3. CASE fs[p].kind = "link"
  <2>1. fs[p].target \in Targets /\ fs[p].target \in Paths /\ Real(p) = fs[p].target
    BY <1>1, <1>3, NodeIs, FileSystemAssumption DEF Real
  <2>2. fs[Real(p)] \in Nodes /\ MayHold(fs[Real(p)], Real(p))
    BY <2>1, TreeNode
  <2>3. fs[Real(p)].kind # "link"
    BY <2>1, <2>2 DEF MayHold
  <2> QED BY <1>3, <2>1, <2>2, <2>3
<1> QED BY <1>2, <1>3

(* One entry changes: into what may be there, and not away from a directory
   that still has entries.                                                   *)
LEMMA PutKeepsTree ==
  ASSUME fs \in Trees, NEW p \in Paths, NEW n \in Nodes, MayHold(n, p),
         n # None => Reach(p) = "ok",
         fs[p].kind = "dir" /\ n.kind # "dir" => Children(p) = {}
  PROVE  [fs EXCEPT ![p] = n] \in Trees
<1> DEFINE t == [fs EXCEPT ![p] = n]
<1>1. fs \in [Paths -> Nodes]
  BY DEF Trees
<1>2. t \in [Paths -> Nodes] /\ t[p] = n /\ \A r \in Paths : r # p => t[r] = fs[r]
  BY <1>1
<1> HIDE DEF t
<1>3. ASSUME NEW r \in Paths PROVE MayHold(t[r], r)
  BY <1>2, TreeNode
<1>4. ASSUME NEW r \in Paths, t[r] # None, Depth(r) # 1
      PROVE  t[Front(r)].kind = "dir"
  <2>1. Front(r) \in Paths /\ Front(r) # r /\ r \in Names /\ Depth(r) \in Nat \ {0}
    BY <1>4, PathShape, BelowParent
  <2>2. CASE r = p
    <3>1. fs[Front(p)].kind = "dir"
      BY <1>2, <1>4, <2>2, Reachable
    <3> QED BY <1>2, <2>1, <2>2, <3>1
  <2>3. CASE r # p
    <3>1. fs[r] # None /\ fs[Front(r)].kind = "dir"
      BY <1>2, <1>4, <2>3, TreeNode
    <3>2. CASE Front(r) # p
      BY <1>2, <2>1, <3>1, <3>2
    <3>3. CASE Front(r) = p
      <4>1. fs[r].kind # "none"
        BY <3>1, TreeNode
      <4>2. Len(r) = Len(p) + 1
        BY <2>1, <3>3, FrontIs DEF Depth
      <4>3. r \in Children(p)
        BY <3>3, <4>1, <4>2 DEF Children
      <4>4. n.kind = "dir"
        BY <3>1, <3>3, <4>3
      <4> QED BY <1>2, <3>3, <4>4
    <3> QED BY <3>2, <3>3
  <2> QED BY <2>2, <2>3
<1>5. t \in Trees
  BY <1>2, <1>3, <1>4 DEF Trees
<1> QED BY <1>5 DEF t

(* Below a directory without entries there is nothing. *)
LEMMA ShortestIs ==
  ASSUME NEW S \in SUBSET Paths, S # {}
  PROVE  \E p \in S : \A q \in S : Depth(p) <= Depth(q)
<1> DEFINE D == {Depth(p) : p \in S}
<1>1. D \in SUBSET Nat /\ D # {}
  BY PathShape
<1>2. IsWellFoundedOn(OpToRel(<, Nat), Nat)
  BY NatLessThanWellFounded
<1>3. PICK d \in D : \A e \in D : ~ (<<e, d>> \in OpToRel(<, Nat))
  BY <1>1, <1>2, WFMin
<1>4. \A e \in D : ~ (e < d)
  BY <1>1, <1>3 DEF OpToRel
<1>5. PICK p \in S : d = Depth(p)
  BY <1>3
<1>6. ASSUME NEW q \in S PROVE Depth(p) <= Depth(q)
  <2>1. Depth(q) \in D /\ Depth(q) \in Nat /\ d \in Nat
    BY <1>1, <1>3
  <2>2. ~ (Depth(q) < d)
    BY <1>4, <2>1
  <2> QED BY <1>5, <2>1, <2>2
<1> QED BY <1>6

LEMMA EmptyBelow ==
  ASSUME fs \in Trees, NEW p \in Paths, Children(p) = {},
         NEW r \in Below(p), r # p
  PROVE  fs[r] = None
<1> DEFINE S == {s \in Paths : IsPrefix(p, s) /\ s # p /\ fs[s] # None}
<1>1. SUFFICES ASSUME fs[r] # None PROVE FALSE
  OBVIOUS
<1>2. r \in S
  BY <1>1 DEF Below
<1>3. PICK s \in S : \A u \in S : Depth(s) <= Depth(u)
  BY <1>2, ShortestIs
<1>4. s \in Paths /\ IsPrefix(p, s) /\ s # p /\ fs[s] # None
  BY <1>3
<1>5. /\ p \in Names /\ s \in Names /\ Depth(p) \in Nat \ {0} /\ Depth(s) \in Nat \ {0}
  BY <1>4, PathShape
<1>6. Depth(p) < Depth(s) /\ IsPrefix(p, Front(s)) /\ (Front(s) = p <=> Depth(s) = Depth(p) + 1)
  BY <1>4, <1>5, ParentBelow
<1>7. Depth(s) # 1 /\ Front(s) \in Paths /\ Depth(Front(s)) = Depth(s) - 1
  BY <1>4, <1>5, <1>6, PathShape, FrontIs
<1>8. fs[Front(s)].kind = "dir" /\ fs[Front(s)] # None /\ fs[s].kind # "none"
  BY <1>4, <1>7, TreeNode DEF None
<1>9. CASE Front(s) = p
  <2>1. Len(s) = Len(p) + 1
    BY <1>6, <1>9 DEF Depth
  <2>2. s \in Children(p)
    BY <1>4, <1>8, <1>9, <2>1 DEF Children
  <2> QED BY <2>2
<1>10. CASE Front(s) # p
  <2>1. Front(s) \in S
    BY <1>6, <1>7, <1>8, <1>10
  <2>2. Depth(s) <= Depth(Front(s))
    BY <1>3, <2>1
  <2> QED BY <1>5, <1>7, <2>2
<1> QED BY <1>9, <1>10

LEMMA NothingBelowNone ==
  ASSUME fs \in Trees, NEW p \in Paths, fs[p].kind # "dir"
  PROVE  Children(p) = {}
<1> SUFFICES ASSUME NEW c \in Children(p) PROVE FALSE
  OBVIOUS
<1>1. c \in Paths /\ Len(c) = Len(p) + 1 /\ Front(c) = p /\ fs[c].kind # "none"
  BY DEF Children
<1>2. Depth(p) \in Nat \ {0} /\ Depth(c) = Depth(p) + 1
  BY <1>1, PathShape DEF Depth
<1>3. Depth(c) # 1
  BY <1>2
<1> QED BY <1>1, <1>3, TreeNode

(* A rename leaves a tree, in which everything that was there and is not at
   or below the path moved is still there.                                   *)
LEMMA RenameOk ==
  ASSUME NEW p \in Paths, NEW q \in Paths, RenameOutcome(p, q) = "ok"
  PROVE  /\ Lookup(p) = "ok" /\ Reach(q) = "ok" /\ (p # q => ~IsPrefix(p, q))
         /\ p # q => Children(q) = {}
<1>1. Lookup(p) = "ok"
  BY DEF RenameOutcome
<1>2. Reach(q) = "ok"
  BY <1>1 DEF RenameOutcome
<1>3. p # q => ~IsPrefix(p, q)
  BY <1>1, <1>2 DEF RenameOutcome
<1>4. p # q => Children(q) = {}
  BY <1>1, <1>2, <1>3 DEF RenameOutcome
<1> QED BY <1>1, <1>2, <1>3, <1>4

LEMMA RenamedTree ==
  ASSUME fs \in Trees, NEW p \in Paths, NEW q \in Paths, RenameOutcome(p, q) = "ok",
         \A r \in Below(p) : fs[r] # None =>
           Moved(r, p, q) \in Paths /\ MayHold(fs[r], Moved(r, p, q))
  PROVE  /\ Renamed(p, q) \in Trees
         /\ \A r \in Paths : Renamed(p, q)[r] = None \/ \E s \in Paths : Renamed(p, q)[r] = fs[s]
         /\ \A r \in Paths : fs[r] # None /\ Renamed(p, q)[r] = None => IsPrefix(p, r)
<1> DEFINE t == Renamed(p, q)
           Goal == /\ t \in Trees
                   /\ \A r \in Paths : t[r] = None \/ \E s \in Paths : t[r] = fs[s]
                   /\ \A r \in Paths : fs[r] # None /\ t[r] = None => IsPrefix(p, r)
<1>1. /\ Lookup(p) = "ok" /\ Reach(q) = "ok" /\ (p # q => ~IsPrefix(p, q))
      /\ p # q => Children(q) = {}
  BY RenameOk
<1>2. fs[p] # None /\ fs[p] \in Nodes /\ fs \in [Paths -> Nodes]
  BY <1>1, LookedUp, TreeNode DEF Trees
<1>3. p \in Names /\ q \in Names /\ \A r \in Paths : r \in Names
  BY PathShape
<1>4. ASSUME t = fs PROVE Goal
  BY <1>4
<1>5. CASE fs[p] = fs[q] /\ fs[p].kind = "file"
  BY <1>4, <1>5 DEF Renamed
<1>6. CASE ~(fs[p] = fs[q] /\ fs[p].kind = "file")
  <2>1. t = [r \in Paths |->
               IF IsPrefix(q, r) /\ Moved(r, q, p) \in Paths THEN fs[Moved(r, q, p)]
               ELSE IF IsPrefix(p, r) \/ IsPrefix(q, r) THEN None ELSE fs[r]]
    BY <1>6 DEF Renamed
  <2>2. CASE p = q
    <3>1. ASSUME NEW r \in Paths PROVE t[r] = fs[r]
      <4>1. CASE IsPrefix(q, r)
        <5>1. Moved(r, q, p) = r
          BY <1>3, <2>2, <4>1, MovedBelow
        <5> QED BY <2>1, <4>1, <5>1
      <4>2. CASE ~IsPrefix(q, r)
        BY <2>1, <2>2, <4>2
      <4> QED BY <4>1, <4>2
    <3>2. t = [r \in Paths |-> t[r]]
      BY <2>1
    <3>3. fs = [r \in Paths |-> fs[r]]
      BY <1>2
    <3> HIDE DEF t
    <3>4. t = fs
      BY <3>1, <3>2, <3>3
    <3> QED BY <1>4, <3>4 DEF t
  <2>3. CASE p # q
    <3>1. \A r \in Below(q) : r # q => fs[r] = None
      BY <1>1, <2>3, EmptyBelow
    <3>2. ~IsPrefix(q, p)
      <4>1. SUFFICES ASSUME IsPrefix(q, p) PROVE FALSE
        OBVIOUS
      <4>2. p \in Below(q)
        BY <4>1 DEF Below
      <4> QED BY <1>2, <2>3, <3>1, <4>2
    <3>3. ~IsPrefix(p, q)
      BY <1>1, <2>3
    <3>4. ASSUME NEW r \in Paths, IsPrefix(q, r), Moved(r, q, p) \in Paths
          PROVE  t[r] = fs[Moved(r, q, p)]
      BY <2>1, <3>4
    <3>5. ASSUME NEW r \in Paths, IsPrefix(q, r), Moved(r, q, p) \notin Paths
          PROVE  t[r] = None
      BY <2>1, <3>5
    <3>6. ASSUME NEW r \in Paths, IsPrefix(p, r)
          PROVE  t[r] = None /\ ~IsPrefix(q, r)
      <4>1. ~IsPrefix(q, r)
        BY <1>3, <3>2, <3>3, <3>6, AboveTheSame
      <4> QED BY <2>1, <3>6, <4>1
    <3>7. ASSUME NEW r \in Paths, ~IsPrefix(p, r), ~IsPrefix(q, r)
          PROVE  t[r] = fs[r]
      BY <2>1, <3>7
    <3>8. t[q] = fs[p]
      <4>1. IsPrefix(q, q) /\ Moved(q, q, p) = p
        BY <1>3, BelowItself, MovedBelow
      <4> QED BY <3>4, <4>1
    <3> DEFINE From(r) == Moved(r, q, p)
    <3>9. ASSUME NEW r \in Paths
          PROVE  \/ IsPrefix(q, r) /\ From(r) \in Paths /\ t[r] = fs[From(r)]
                 \/ t[r] = None /\ (IsPrefix(q, r) \/ IsPrefix(p, r))
                 \/ t[r] = fs[r] /\ ~IsPrefix(p, r) /\ ~IsPrefix(q, r)
      BY <3>4, <3>5, <3>6, <3>7
    <3>10. t \in [Paths -> Nodes]
      <4>1. ASSUME NEW r \in Paths PROVE t[r] \in Nodes
        BY <1>2, <3>9, NodesMade
      <4>2. t = [r \in Paths |-> t[r]]
        BY <2>1
      <4> HIDE DEF t
      <4> QED BY <4>1, <4>2
    <3>11. ASSUME NEW r \in Paths PROVE MayHold(t[r], r)
      <4>1. CASE IsPrefix(q, r) /\ From(r) \in Paths /\ t[r] = fs[From(r)] /\ t[r] # None
        <5>1. IsPrefix(p, From(r)) /\ Moved(From(r), p, q) = r
          BY <1>3, <4>1, MovedBelow, MovedBack
        <5>2. From(r) \in Below(p)
          BY <4>1, <5>1 DEF Below
        <5>3. MayHold(fs[From(r)], Moved(From(r), p, q))
          BY <4>1, <5>2
        <5> QED BY <4>1, <5>1, <5>3
      <4>2. CASE t[r] = None
        BY <4>2 DEF MayHold, None
      <4>3. CASE t[r] = fs[r]
        BY <4>3, TreeNode
      <4> QED BY <3>9, <4>1, <4>2, <4>3
    <3>12. ASSUME NEW r \in Paths, t[r] # None, Depth(r) # 1
           PROVE  t[Front(r)].kind = "dir"
      <4>1. Front(r) \in Paths /\ Front(r) \in Names /\ IsPrefix(Front(r), r) /\ r \in Names
            /\ Depth(r) \in Nat \ {0}
        BY <3>12, PathShape, BelowParent
      <4>2. CASE r = q
        <5>1. fs[Front(q)].kind = "dir"
          BY <1>1, <3>12, <4>2, Reachable
        <5>2. ~IsPrefix(p, Front(q))
          BY <1>3, <3>3, <4>1, <4>2, BelowBelow
        <5>3. ~IsPrefix(q, Front(q))
          <6>1. SUFFICES ASSUME IsPrefix(q, Front(q)) PROVE FALSE
            OBVIOUS
          <6>2. Depth(q) <= Depth(Front(q)) /\ Depth(Front(q)) = Depth(q) - 1
            BY <1>3, <4>1, <4>2, <6>1, PrefixIs, FrontIs
          <6> QED BY <4>1, <4>2, <6>2
        <5>4. t[Front(q)] = fs[Front(q)]
          BY <3>7, <4>1, <4>2, <5>2, <5>3
        <5> QED BY <4>2, <5>1, <5>4
      <4>3. CASE r # q /\ IsPrefix(q, r)
        <5>1. From(r) \in Paths /\ t[r] = fs[From(r)]
          BY <3>9, <3>12, <3>6, <4>3
        <5>2. IsPrefix(q, Front(r)) /\ Depth(q) < Depth(r)
          BY <1>3, <4>1, <4>3, ParentBelow
        <5>3. Depth(From(r)) = Depth(p) + (Depth(r) - Depth(q)) /\ Front(From(r)) = From(Front(r))
          BY <1>3, <4>1, <4>3, MovedParent
        <5>4. Depth(From(r)) # 1
          <6>1. Depth(p) \in Nat \ {0} /\ Depth(q) \in Nat \ {0}
            BY PathShape
          <6> QED BY <4>1, <5>2, <5>3, <6>1
        <5>5. fs[Front(From(r))].kind = "dir" /\ Front(From(r)) \in Paths
          BY <3>12, <5>1, <5>4, TreeNode, PathShape
        <5>6. t[Front(r)] = fs[From(Front(r))]
          BY <3>4, <4>1, <5>2, <5>3, <5>5
        <5> QED BY <5>3, <5>5, <5>6
      <4>4. CASE ~IsPrefix(q, r)
        <5>1. ~IsPrefix(p, r) /\ t[r] = fs[r]
          BY <3>6, <3>7, <3>12, <4>4
        <5>2. ~IsPrefix(p, Front(r)) /\ ~IsPrefix(q, Front(r))
          BY <1>3, <4>1, <4>4, <5>1, BelowBelow
        <5>3. t[Front(r)] = fs[Front(r)]
          BY <3>7, <4>1, <5>2
        <5>4. fs[Front(r)].kind = "dir"
          BY <3>12, <5>1, TreeNode
        <5> QED BY <5>3, <5>4
      <4> QED BY <4>2, <4>3, <4>4
    <3>13. t \in Trees
      <4> HIDE DEF t, From
      <4> QED BY <3>10, <3>11, <3>12 DEF Trees
    <3>14. ASSUME NEW r \in Paths, fs[r] # None, t[r] = None PROVE IsPrefix(p, r)
      <4>1. CASE IsPrefix(q, r)
        <5>1. r \in Below(q)
          BY <4>1 DEF Below
        <5>2. r = q
          BY <3>1, <3>14, <5>1
        <5> QED BY <1>2, <3>8, <3>14, <5>2
      <4>2. CASE ~IsPrefix(q, r)
        BY <3>7, <3>14, <4>2
      <4> QED BY <4>1, <4>2
    <3> QED BY <3>9, <3>13, <3>14
  <2> QED BY <2>2, <2>3
<1> QED BY <1>5, <1>6

-----------------------------------------------------------------------------
(* Files: there is always an inode for another one.                          *)
LEMMA SomeInodeFree ==
  ASSUME fs \in Trees, NEW p \in Paths, fs[p].kind # "file", NEW o
  PROVE  \E i \in Inodes : ~Named(fs, i) /\ i # o
<1> DEFINE S == Inodes \ {o}
           T == Paths \ {p}
           n == Cardinality(Paths)
           f == [i \in S |-> CHOOSE r \in T : fs[r].kind = "file" /\ fs[r].ino = i]
<1>1. SUFFICES ASSUME \A i \in S : Named(fs, i) PROVE FALSE
  OBVIOUS
<1>2. n \in Nat /\ Inodes = 1..(n + 1)
  BY InodesAre
<1>3. IsFiniteSet(Inodes) /\ Cardinality(Inodes) = n + 1
  <2>1. IsFiniteSet(1..(n + 1))
        /\ Cardinality(1..(n + 1)) = IF 1 > n + 1 THEN 0 ELSE n + 1 - 1 + 1
    BY <1>2, FS_Interval
  <2> QED BY <1>2, <2>1
<1>4. IsFiniteSet(S) /\ Cardinality(S) \in Nat /\ Cardinality(S) >= n
  <2>1. IsFiniteSet(S)
        /\ Cardinality(S) = IF o \in Inodes THEN Cardinality(Inodes) - 1 ELSE Cardinality(Inodes)
    BY <1>3, FS_RemoveElement
  <2> QED BY <1>2, <1>3, <2>1
<1>5. IsFiniteSet(T) /\ Cardinality(T) = n - 1
  BY FileSystemAssumption, FS_RemoveElement
<1>6. ASSUME NEW i \in S PROVE f[i] \in T /\ fs[f[i]].ino = i
  <2>1. \E r \in T : fs[r].kind = "file" /\ fs[r].ino = i
    BY <1>1, <1>6 DEF Named
  <2> QED BY <2>1
<1>7. f \in [S -> T]
  BY <1>6
<1>8. Cardinality(T) < Cardinality(S)
  BY <1>2, <1>4, <1>5
<1> HIDE DEF f, S, T
<1>9. \E x, y \in S : x # y /\ f[x] = f[y]
  BY <1>4, <1>5, <1>7, <1>8, FS_PigeonHole
<1> QED BY <1>6, <1>9

LEMMA NewInoIsFree ==
  ASSUME fs \in Trees, NEW p \in Paths, fs[p].kind # "file"
  PROVE  NewIno \in Inodes /\ ~Named(fs, NewIno) /\ NewIno # OpenIn(op)
<1>1. \E i \in Inodes : ~Named(fs, i) /\ i # OpenIn(op)
  BY SomeInodeFree
<1> QED BY <1>1 DEF NewIno

-----------------------------------------------------------------------------
(* Outcomes: every system call ends with "ok" or an error kind, and with "ok"
   only where the tree allows what the call then does.                       *)
Ends == ErrorKinds \cup {"ok"}

LEMMA EndKinds ==
  /\ "ok" \notin ErrorKinds /\ "none" \notin ErrorKinds
  /\ {"ok", "NotFound", "NotADirectory", "AlreadyExists", "IsADirectory", "PermissionDenied",
      "DirectoryNotEmpty", "InvalidData", "InvalidInput", "StorageFull"} \subseteq Ends
BY DEF Ends, ErrorKinds

LEMMA PathEnds ==
  ASSUME NEW p \in Paths
  PROVE  /\ Reach(p) \in Ends /\ Lookup(p) \in Ends
         /\ Mkdir(p) \in Ends
         /\ Mkdir(p) = "ok" => Reach(p) = "ok" /\ fs[p].kind = "none"
         /\ Mkdir(p) = "NotFound" => Depth(p) # 1
         /\ Unlink(p) \in Ends
         /\ Unlink(p) = "ok" => Lookup(p) = "ok" /\ fs[p].kind # "dir"
         /\ Rmdir(p) \in Ends
         /\ Rmdir(p) = "ok" => Lookup(p) = "ok" /\ fs[p].kind = "dir" /\ Children(p) = {}
<1>1. Reach(p) \in {"ok", "NotFound", "NotADirectory"} /\ Reach(p) \in Ends
  BY Reachable, EndKinds
<1>2. Lookup(p) \in {"ok", "NotFound", "NotADirectory"} /\ Lookup(p) \in Ends
  BY LookedUp, EndKinds
<1>3. Reach(p) # "ok" => Depth(p) # 1
  BY Reachable
<1>4. /\ Mkdir(p) \in Ends
      /\ Mkdir(p) = "ok" => Reach(p) = "ok" /\ fs[p].kind = "none"
      /\ Mkdir(p) = "NotFound" => Reach(p) # "ok"
  BY <1>1, EndKinds DEF Mkdir
<1>5. /\ Unlink(p) \in Ends
      /\ Unlink(p) = "ok" => Lookup(p) = "ok" /\ fs[p].kind # "dir"
  BY <1>2, EndKinds DEF Unlink
<1>6. /\ Rmdir(p) \in Ends
      /\ Rmdir(p) = "ok" => Lookup(p) = "ok" /\ fs[p].kind = "dir" /\ Children(p) = {}
  BY <1>2, EndKinds DEF Rmdir
<1> QED BY <1>1, <1>2, <1>3, <1>4, <1>5, <1>6

LEMMA RealEnds ==
  ASSUME fs \in Trees, NEW p \in Paths
  PROVE  /\ OpenRead(p) \in Ends /\ ReadUtf8(p) \in Ends
         /\ OpenWrite(p) \in Ends
         /\ OpenWrite(p) = "ok" => Reach(Real(p)) = "ok" /\ fs[Real(p)].kind \in {"none", "file"}
         /\ ListOutcome(p) \in Ends
         /\ Stat(p) \in Ends
<1>1. Real(p) \in Paths /\ fs[Real(p)].kind \in {"none", "file", "dir"}
  BY RealIs, NodeIs
<1>2. /\ Lookup(p) \in Ends /\ Lookup(Real(p)) \in Ends
      /\ Reach(p) \in Ends /\ Reach(Real(p)) \in Ends
  BY <1>1, PathEnds
<1>3. OpenRead(p) \in Ends /\ ReadUtf8(p) \in Ends
  <2>1. OpenRead(p) \in Ends
    BY <1>2, EndKinds DEF OpenRead
  <2> QED BY <2>1, EndKinds DEF ReadUtf8
<1>4. /\ OpenWrite(p) \in Ends
      /\ OpenWrite(p) = "ok" => Reach(Real(p)) = "ok" /\ KindOf(p) # "dir"
  BY <1>2, EndKinds DEF OpenWrite
<1>5. ListOutcome(p) \in Ends
  BY <1>2, EndKinds DEF ListOutcome
<1>6. Stat(p) \in Ends
  BY <1>2 DEF Stat
<1> QED BY <1>1, <1>3, <1>4, <1>5, <1>6 DEF KindOf

LEMMA TwoPathEnds ==
  ASSUME NEW p \in Paths, NEW q \in Paths
  PROVE  /\ LinkOutcome(p, q) \in Ends
         /\ LinkOutcome(p, q) = "ok" =>
              Lookup(p) = "ok" /\ fs[p].kind # "dir" /\ Mkdir(q) = "ok"
         /\ RenameOutcome(p, q) \in Ends
<1>1. Lookup(p) \in Ends /\ Reach(q) \in Ends /\ Mkdir(q) \in Ends
  BY PathEnds
<1>2. /\ LinkOutcome(p, q) \in Ends
      /\ LinkOutcome(p, q) = "ok" =>
           Lookup(p) = "ok" /\ fs[p].kind # "dir" /\ Mkdir(q) = "ok"
  BY <1>1, EndKinds DEF LinkOutcome
<1>3. RenameOutcome(p, q) \in Ends
  BY <1>1, EndKinds DEF RenameOutcome
<1> QED BY <1>2, <1>3

(* The byte that travels to the Roc program, and what it is decoded to there. *)
LEMMA BytesAre ==
  /\ FromIoError("AlreadyExists") = 0 /\ FromIoError("BrokenPipe") = 1
  /\ FromIoError("Interrupted") = 2 /\ FromIoError("NotFound") = 3
  /\ FromIoError("OutOfMemory") = 5 /\ FromIoError("PermissionDenied") = 6
  /\ FromIoError("Unsupported") = 7
  /\ \A k \in ErrorKinds \ {"AlreadyExists", "BrokenPipe", "Interrupted", "NotFound",
                            "OutOfMemory", "PermissionDenied", "Unsupported"} :
       FromIoError(k) = 4
<1>1. Len(HostTags) = 8
  BY DEF HostTags
<1>2. /\ HostTags[1] = "AlreadyExists" /\ HostTags[2] = "BrokenPipe"
      /\ HostTags[3] = "Interrupted" /\ HostTags[4] = "NotFound" /\ HostTags[5] = "Other"
      /\ HostTags[6] = "OutOfMemory" /\ HostTags[7] = "PermissionDenied"
      /\ HostTags[8] = "Unsupported"
  BY DEF HostTags
<1>3. ASSUME NEW n \in 1..8, NEW tag, HostTags[n] = tag PROVE TagByte(tag) = n - 1
  <2>1. ASSUME NEW m \in 1..8, HostTags[m] = tag PROVE m = n
    BY <1>2, <1>3, <2>1
  <2>2. (CHOOSE m \in 1..Len(HostTags) : HostTags[m] = tag) = n
    BY <1>1, <1>3, <2>1
  <2> QED BY <2>2 DEF TagByte
<1>4. \A n \in 1..8 : \A tag : HostTags[n] = tag => TagByte(tag) = n - 1
  BY <1>3
<1>5. /\ TagByte("AlreadyExists") = 0 /\ TagByte("BrokenPipe") = 1
      /\ TagByte("Interrupted") = 2 /\ TagByte("NotFound") = 3 /\ TagByte("Other") = 4
      /\ TagByte("OutOfMemory") = 5 /\ TagByte("PermissionDenied") = 6
      /\ TagByte("Unsupported") = 7
  BY <1>2, <1>4
<1> QED BY <1>5 DEF FromIoError

LEMMA CommonTagsAreHonest ==
  ASSUME NEW k \in ErrorKinds
  PROVE  /\ FromIoError(k) \in 0..7
         /\ Decode(CommonRocTags, FromIoError(k)) = Meaning(CommonRocTags, k)
<1> DEFINE Tagged == {"AlreadyExists", "BrokenPipe", "Interrupted", "NotFound",
                      "OutOfMemory", "PermissionDenied", "Unsupported"}
<1>1. Len(CommonRocTags) = 8
  BY DEF CommonRocTags
<1>2. /\ CommonRocTags[1] = "AlreadyExists" /\ CommonRocTags[2] = "BrokenPipe"
      /\ CommonRocTags[3] = "Interrupted" /\ CommonRocTags[4] = "NotFound"
      /\ CommonRocTags[5] = "Other" /\ CommonRocTags[6] = "OutOfMemory"
      /\ CommonRocTags[7] = "PermissionDenied" /\ CommonRocTags[8] = "Unsupported"
  BY DEF CommonRocTags
<1>3. ASSUME NEW b \in 0..7 PROVE Decode(CommonRocTags, b) = CommonRocTags[b + 1]
  <2>1. b < Len(CommonRocTags)
    BY <1>1, <1>3
  <2> QED BY <2>1, Zenon DEF Decode
<1>4. Meaning(CommonRocTags, k) = IF \E n \in 1..8 : CommonRocTags[n] = k THEN k ELSE "Other"
  BY <1>1 DEF Meaning
<1>5. CASE k \in Tagged
  <2>1. Meaning(CommonRocTags, k) = k
    BY <1>2, <1>4, <1>5
  <2>2. FromIoError(k) \in 0..7 /\ CommonRocTags[FromIoError(k) + 1] = k
    BY <1>2, <1>5, BytesAre
  <2> QED BY <1>3, <2>1, <2>2
<1>6. CASE k \notin Tagged
  <2>1. FromIoError(k) = 4
    BY <1>6, BytesAre
  <2>2. k # "Other"
    BY DEF ErrorKinds
  <2>3. ~ \E n \in 1..8 : CommonRocTags[n] = k
    <3>1. SUFFICES ASSUME NEW n \in 1..8, CommonRocTags[n] = k PROVE FALSE
      OBVIOUS
    <3>2. CommonRocTags[n] \in Tagged \cup {"Other"}
      BY <1>2
    <3> QED BY <1>6, <2>2, <3>1, <3>2
  <2>4. Meaning(CommonRocTags, k) = "Other"
    BY <1>4, <2>3
  <2> QED BY <1>2, <1>3, <2>1, <2>4
<1> QED BY <1>5, <1>6

-----------------------------------------------------------------------------
(* What a write has written so far.                                          *)
First(d, n) == SubSeq(d, 1, n)
Size(d) == Len(d)
Texts == Seq(STRING)

LEMMA TextIs ==
  ASSUME NEW d \in Texts
  PROVE  /\ Size(d) \in Nat /\ First(d, Size(d)) = d
         /\ First(d, 0) = <<>> /\ <<>> \in Texts
         /\ \A n \in 0..Size(d) : First(d, n) \in Texts /\ Size(First(d, n)) = n
<1>1. Size(d) \in Nat /\ First(d, Size(d)) = d
  BY LenProperties, SubSeqFull DEF Size, First, Texts
<1>2. First(d, 0) = <<>>
  BY SubSeqEmpty DEF First
<1>3. ASSUME NEW n \in 0..Size(d) PROVE First(d, n) \in Texts /\ Size(First(d, n)) = n
  <2>1. d \in Names /\ n \in 0..Depth(d) /\ 1 \in 1..(Depth(d) + 1) /\ n >= 1 - 1
    BY <1>1, <1>3 DEF Texts, Names, Size, Depth
  <2>2. SubSeq(d, 1, n) \in Names /\ Depth(SubSeq(d, 1, n)) = n - 1 + 1
    BY <2>1, PartIs
  <2>3. n - 1 + 1 = n
    BY <1>1, <1>3
  <2> QED BY <2>2, <2>3 DEF Texts, Names, Size, Depth, First
<1>4. <<>> \in Texts
  BY EmptySeq DEF Texts
<1> QED BY <1>1, <1>2, <1>3, <1>4

LEMMA WrittenOver ==
  ASSUME NEW d \in Texts, NEW n \in 0..Size(d), NEW m \in 0..n
  PROVE  Overwrite(First(d, m), First(d, n)) = First(d, n)
<1>1. Size(d) \in Nat /\ m \in 0..Size(d)
  BY TextIs
<1>2. First(d, n) \in Texts /\ Size(First(d, n)) = n /\ Size(First(d, m)) = m
  BY <1>1, TextIs
<1> DEFINE a == First(d, n)
           b == First(d, m)
<1>3. Overwrite(b, a) = a \o SubSeq(b, Size(a) + 1, Size(b))
  BY DEF Overwrite, Size
<1>4. SubSeq(b, n + 1, m) = <<>>
  <2>1. n + 1 \in Int /\ m \in Int /\ m < n + 1
    BY <1>1
  <2> QED BY <2>1, SubSeqEmpty
<1>5. Overwrite(b, a) = a \o <<>>
  BY <1>2, <1>3, <1>4
<1> HIDE DEF a, b
<1>6. a \o <<>> = a
  BY <1>2, ConcatEmptySeq DEF a, Texts
<1>7. Overwrite(b, a) = a
  BY <1>5, <1>6
<1> QED BY <1>7 DEF a, b

-----------------------------------------------------------------------------
(* The calls in progress. A stack starts with the path of the call; what
   Dir.create_all! has on it leads to that path, what Dir.delete_all! has on
   it lies at or below it.                                                   *)
Stacks(p, S) == {s \in Seq(S) : s # <<>> /\ s[1].dir = p}
MakeSteps(p) == [dir : {q \in Paths : IsPrefix(q, p)}, retry : BOOLEAN]
Listed(p) == [path : Below(p), dir : BOOLEAN]
RemoveSteps(p) == [dir : Below(p), entries : SUBSET Listed(p)]
MakeFrame(p, w, s) == [fn |-> "Dir.create_all!", path |-> p, why |-> w, stack |-> s]
RemoveAllFrame(p, s) == [fn |-> "Dir.delete_all!", path |-> p, stack |-> s]

LEMMA StackTop ==
  ASSUME NEW S, NEW p, NEW s \in Stacks(p, S)
  PROVE  /\ Last(s) \in S /\ Len(s) \in Nat \ {0}
         /\ Len(s) = 1 => Last(s).dir = p
<1>1. s \in Seq(S) /\ s # <<>> /\ s[1].dir = p
  BY DEF Stacks
<1>2. Len(s) \in Nat \ {0}
  BY <1>1, EmptySeq
<1>3. s[Len(s)] \in S
  BY <1>1, <1>2, ElementOfSeq
<1> QED BY <1>1, <1>2, <1>3 DEF Last

LEMMA StackPop ==
  ASSUME NEW S, NEW p, NEW s \in Stacks(p, S), Len(s) # 1
  PROVE  Front(s) \in Stacks(p, S)
<1> DEFINE n == Len(s)
<1>1. s \in Seq(S) /\ s[1].dir = p
  BY DEF Stacks
<1>2. n \in Nat \ {0, 1}
  BY StackTop
<1>3. \A i \in 1..n : s[i] \in S
  BY <1>1, <1>2, ElementOfSeq
<1> HIDE DEF n
<1>4. 1 \in Int /\ n - 1 \in Int /\ 1 <= n - 1 /\ n - 1 - 1 + 1 \in Nat \ {0}
      /\ 1 \in 1..(n - 1 - 1 + 1) /\ 1 + 1 - 1 = 1
  BY <1>2
<1>5. \A i \in 1..(n - 1) : s[i] \in S
  BY <1>2, <1>3
<1>6. /\ SubSeq(s, 1, n - 1) \in Seq(S)
      /\ Len(SubSeq(s, 1, n - 1)) = IF 1 <= n - 1 THEN n - 1 - 1 + 1 ELSE 0
      /\ \A i \in 1..(n - 1 - 1 + 1) : SubSeq(s, 1, n - 1)[i] = s[1 + i - 1]
  BY <1>4, <1>5, SubSeqProperties
<1>7. Front(s) = SubSeq(s, 1, n - 1)
  BY DEF Front, n
<1> DEFINE f == Front(s)
<1> HIDE DEF f
<1>8. f \in Seq(S) /\ Len(f) \in Nat \ {0} /\ f[1] = s[1]
  BY <1>4, <1>6, <1>7 DEF f
<1>9. f # <<>>
  BY <1>8, EmptySeq
<1> QED BY <1>1, <1>8, <1>9 DEF Stacks, f

LEMMA StackPush ==
  ASSUME NEW S, NEW p, NEW s \in Stacks(p, S), NEW x \in S
  PROVE  Append(s, x) \in Stacks(p, S)
<1>1. s \in Seq(S) /\ s[1].dir = p /\ Len(s) \in Nat \ {0}
  BY StackTop DEF Stacks
<1>2. /\ Append(s, x) \in Seq(S) /\ Append(s, x) # <<>>
      /\ \A i \in 1..Len(s) : Append(s, x)[i] = s[i]
  BY <1>1, AppendProperties
<1>3. 1 \in 1..Len(s)
  BY <1>1
<1>4. Append(s, x)[1] = s[1]
  BY <1>2, <1>3
<1> QED BY <1>1, <1>2, <1>4 DEF Stacks

LEMMA StackAgain ==
  ASSUME NEW S, NEW p, NEW s \in Stacks(p, S), NEW x \in S, x.dir = Last(s).dir
  PROVE  /\ Front(s) \o <<x>> \in Stacks(p, S)
         /\ [s EXCEPT ![Len(s)] = x] \in Stacks(p, S)
<1>1. s \in Seq(S) /\ s # <<>> /\ s[1].dir = p /\ Len(s) \in Nat \ {0}
  BY StackTop DEF Stacks
<1>2. [s EXCEPT ![Len(s)] = x] \in Stacks(p, S)
  <2> DEFINE e == [s EXCEPT ![Len(s)] = x]
             n == Len(s)
  <2>1. n \in 1..n /\ 1 \in 1..n
    BY <1>1
  <2>2. e \in Seq(S) /\ Len(e) = n /\ \A j \in 1..n : e[j] = IF j = n THEN x ELSE s[j]
    BY <1>1, <2>1, ExceptSeq
  <2>3. x.dir = s[n].dir
    BY DEF Last
  <2> HIDE DEF e, n
  <2>4. e[1].dir = p
    BY <1>1, <2>1, <2>2, <2>3
  <2>5. Len(e) # 0
    BY <1>1, <2>2 DEF n
  <2>6. e # <<>>
    BY <2>5, EmptySeq
  <2> QED BY <2>2, <2>4, <2>6 DEF Stacks, e
<1>3. Front(s) \o <<x>> \in Stacks(p, S)
  <2>1. <<x>> \in Seq(S) /\ Len(<<x>>) = 1 /\ <<x>>[1] = x
    OBVIOUS
  <2> DEFINE y == <<x>>
  <2> HIDE DEF y
  <2>2. CASE Len(s) = 1
    <3>1. Front(s) = <<>>
      <4>1. Len(s) - 1 < 1 /\ Len(s) - 1 \in Int /\ 1 \in Int
        BY <2>2
      <4> QED BY <4>1, SubSeqEmpty DEF Front
    <3>2. <<>> \o y = y
      BY <2>1, ConcatEmptySeq DEF y
    <3>3. y \in Seq(S) /\ y # <<>> /\ y[1].dir = p
      <4>1. Last(s).dir = p
        BY <2>2, StackTop
      <4> QED BY <2>1, <4>1, EmptySeq DEF y
    <3> QED BY <3>1, <3>2, <3>3 DEF Stacks, y
  <2>3. CASE Len(s) # 1
    <3> DEFINE f == Front(s)
               g == f \o y
    <3>1. f \in Stacks(p, S)
      BY <2>3, StackPop
    <3> HIDE DEF f
    <3>2. f \in Seq(S) /\ f[1].dir = p /\ Len(f) \in Nat \ {0}
      BY <3>1, StackTop DEF Stacks
    <3>3. y \in Seq(S) /\ Len(y) = 1
      BY <2>1 DEF y
    <3>4. /\ g \in Seq(S) /\ Len(g) = Len(f) + Len(y)
          /\ \A i \in 1..(Len(f) + Len(y)) : g[i] = IF i <= Len(f) THEN f[i] ELSE y[i - Len(f)]
      BY <3>2, <3>3, ConcatProperties
    <3> HIDE DEF g
    <3>5. 1 \in 1..(Len(f) + Len(y)) /\ 1 <= Len(f) /\ Len(g) # 0
      BY <3>2, <3>3, <3>4
    <3>6. g[1] = f[1]
      BY <3>4, <3>5
    <3>7. g # <<>>
      BY <3>5, EmptySeq
    <3>8. g \in Stacks(p, S)
      BY <3>2, <3>4, <3>6, <3>7 DEF Stacks
    <3> QED BY <3>8 DEF g, f, y
  <2> QED BY <2>2, <2>3
<1> QED BY <1>2, <1>3

LEMMA StackStart ==
  ASSUME NEW S, NEW x \in S
  PROVE  <<x>> \in Stacks(x.dir, S)
<1>1. <<x>> \in Seq(S) /\ <<x>>[1] = x /\ <<x>> # <<>>
  OBVIOUS
<1> QED BY <1>1 DEF Stacks

MakeFits(o) ==
  /\ o = MakeFrame(o.path, o.why, o.stack)
  /\ o.path \in Paths /\ o.why \in ErrorKinds \cup {"none"}
  /\ o.stack \in Stacks(o.path, MakeSteps(o.path))
RemoveFits(o) ==
  /\ o = RemoveAllFrame(o.path, o.stack)
  /\ o.path \in Paths /\ o.stack \in Stacks(o.path, RemoveSteps(o.path))
WriteFrames ==
  [fn : {"File.write!"}, path : Paths, ino : Inodes, data : Contents, done : Nat]

LEMMA MakeFitsIs ==
  ASSUME NEW p \in Paths, NEW w \in ErrorKinds \cup {"none"},
         NEW s \in Stacks(p, MakeSteps(p))
  PROVE  MakeFits(MakeFrame(p, w, s))
<1> DEFINE o == MakeFrame(p, w, s)
<1>1. o.fn = "Dir.create_all!" /\ o.path = p /\ o.why = w /\ o.stack = s
  BY DEF MakeFrame
<1>2. o = MakeFrame(o.path, o.why, o.stack)
  BY <1>1
<1> HIDE DEF o
<1>3. MakeFits(o)
  BY <1>1, <1>2 DEF MakeFits
<1> QED BY <1>3 DEF o

LEMMA RemoveFitsIs ==
  ASSUME NEW p \in Paths, NEW s \in Stacks(p, RemoveSteps(p))
  PROVE  RemoveFits(RemoveAllFrame(p, s))
<1> DEFINE o == RemoveAllFrame(p, s)
<1>1. o.fn = "Dir.delete_all!" /\ o.path = p /\ o.stack = s
  BY DEF RemoveAllFrame
<1>2. o = RemoveAllFrame(o.path, o.stack)
  BY <1>1
<1> HIDE DEF o
<1>3. RemoveFits(o)
  BY <1>1, <1>2 DEF RemoveFits
<1> QED BY <1>3 DEF o

-----------------------------------------------------------------------------
(* The inductive invariant: a tree; a file behind every inode that a path
   names or a write has open, and nothing behind any other; a frame that fits
   the call in progress; a write that has written just the beginning of its
   data, into the file of its path unless the other process interfered; and a
   result whose byte belongs to its error.                                   *)
Stores == [data : Texts, mode : SUBSET {"read", "write", "execute"}, time : Int]
FilesFit ==
  /\ fs \in Trees /\ disk \in [Inodes -> Stores]
  /\ \A i \in Inodes : IF Named(fs, i) \/ i = OpenIn(op) THEN disk[i].time # 0
                                                          ELSE disk[i] = Blank
Fits(o) ==
  /\ o.fn \in {"none", "File.write!", "Dir.create_all!", "Dir.delete_all!", "dir_list", "aborted"}
  /\ o.fn = "File.write!" => o \in WriteFrames /\ o.done <= Size(o.data)
  /\ o.fn = "Dir.create_all!" => MakeFits(o)
  /\ o.fn = "Dir.delete_all!" => RemoveFits(o)
  /\ o.fn = "dir_list" => o.path \in Paths
WriteFits ==
  op.fn = "File.write!" =>
    /\ disk[op.ino].data = First(op.data, op.done)
    /\ disturbed = {} => fs[Real(op.path)] = File(op.ino)
ResultFits ==
  /\ ret.err \in ErrorKinds \cup {"none"}
  /\ ret.byte = IF ret.err = "none" THEN 0 ELSE FromIoError(ret.err)
CountsFit ==
  /\ disturbed \subseteq {"other", "refused"}
  /\ calls \in 0..MaxCalls /\ others \in 0..MaxOther

FsInv == FilesFit /\ Fits(op) /\ WriteFits /\ ResultFits /\ CountsFit

(* What the action properties say of a step. *)
RemovalStep ==
  others' = others =>
    \A q \in Paths : fs[q] # None /\ fs'[q] = None => q \in Below(CallPath)
WriteStep ==
  others' = others =>
    \A i \in Inodes : Named(fs, i) /\ Named(fs', i) /\ disk'[i] # disk[i] =>
      \/ i = OpenIn(op)
      \/ op = Idle /\ op'.fn = "File.write!" /\ i = fs[Real(op'.path)].ino
DoneStep ==
  op # Idle /\ op' = Idle /\ ret'.err = "none" =>
    /\ op.fn = "Dir.create_all!" =>
         \/ fs'[op.path].kind = "dir"
         \/ fs'[op.path].kind = "link" /\ fs'[fs'[op.path].target].kind = "dir"
    /\ op.fn = "Dir.delete_all!" => \A q \in Below(op.path) : fs'[q] = None
    /\ op.fn = "File.write!" =>
         /\ disk[op.ino].data = op.data
         /\ \A q \in Paths : fs'[q] = File(op.ino) => disk'[op.ino].data = op.data
         /\ disturbed = {} => fs'[Real(op.path)] = File(op.ino)
RaceStep ==
  op # Idle /\ op' = Idle /\ op.fn = "Dir.create_all!"
    /\ ret'.err = "AlreadyExists" /\ "refused" \notin disturbed' =>
      \E q \in Paths : IsPrefix(q, op.path) /\ KindOf(q) # "dir"
StepFits == RemovalStep /\ WriteStep /\ DoneStep /\ RaceStep

(* What every kind of step does, once for all actions of that kind. *)
LEMMA BlankIs ==
  Blank \in Stores /\ Blank.time = 0
<1>1. <<>> \in Texts
  BY TextIs, EmptySeq DEF Texts
<1> QED BY <1>1 DEF Blank, Stores

(* The tree becomes another one of the same files. *)
LEMMA Becoming ==
  ASSUME FilesFit, NEW tree \in Trees, \A i \in Inodes : Named(tree, i) => Named(fs, i),
         Becomes(tree, disk), OpenIn(op') \in {0, OpenIn(op)}
  PROVE  /\ FilesFit' /\ fs' = tree
         /\ \A i \in Inodes : Named(tree, i) \/ i = OpenIn(op') => disk'[i] = disk[i]
<1>1. fs' = tree /\ disk' = [i \in Inodes |->
                               IF Named(tree, i) \/ i = OpenIn(op') THEN disk[i] ELSE Blank]
  BY DEF Becomes
<1>2. \A i \in Inodes : disk[i] \in Stores
  BY DEF FilesFit
<1>3. disk' \in [Inodes -> Stores]
  BY <1>1, <1>2, BlankIs
<1>4. ASSUME NEW i \in Inodes
      PROVE  IF Named(fs', i) \/ i = OpenIn(op') THEN disk'[i].time # 0 ELSE disk'[i] = Blank
  <2>1. Named(tree, i) \/ i = OpenIn(op') => Named(fs, i) \/ i = OpenIn(op)
    BY InodesAre
  <2>2. Named(tree, i) \/ i = OpenIn(op') => disk[i].time # 0
    BY <2>1 DEF FilesFit
  <2> QED BY <1>1, <2>2
<1>5. FilesFit'
  BY <1>1, <1>3, <1>4 DEF FilesFit
<1> QED BY <1>1, <1>5

(* The tree changes, its files stay as they are. *)
LEMMA SameFiles ==
  ASSUME FilesFit, fs' \in Trees, disk' = disk, OpenIn(op') = OpenIn(op),
         \A i \in Inodes : Named(fs', i) <=> Named(fs, i)
  PROVE  FilesFit'
BY DEF FilesFit

LEMMA PutNames ==
  ASSUME fs \in Trees, NEW p \in Paths, NEW n \in Nodes, NEW i \in Inodes,
         n.kind = "file" => \E s \in Paths : fs[s] = n
  PROVE  /\ Named([fs EXCEPT ![p] = n], i) => Named(fs, i)
         /\ n.kind # "file" /\ fs[p].kind # "file" =>
              (Named([fs EXCEPT ![p] = n], i) <=> Named(fs, i))
<1> DEFINE t == [fs EXCEPT ![p] = n]
<1>1. t[p] = n /\ \A r \in Paths : r # p => t[r] = fs[r]
  BY DEF Trees
<1> HIDE DEF t
<1>2. Named(t, i) => Named(fs, i)
  BY <1>1 DEF Named
<1>3. n.kind # "file" /\ fs[p].kind # "file" => (Named(fs, i) => Named(t, i))
  BY <1>1 DEF Named
<1> QED BY <1>2, <1>3 DEF t

LEMMA Returned ==
  ASSUME NEW fn, NEW p, NEW o \in Ends, NEW val, Return(fn, p, o, val)
  PROVE  /\ op' = Idle /\ op'.fn = "none" /\ OpenIn(op') = 0
         /\ Fits(op') /\ WriteFits' /\ ResultFits'
         /\ ret'.fn = fn /\ ret'.path = p
         /\ ret'.err = IF o = "ok" THEN "none" ELSE o
<1>1. /\ op' = Idle
      /\ ret' = [fn |-> fn, path |-> p, err |-> IF o = "ok" THEN "none" ELSE o,
                 byte |-> IF o = "ok" THEN 0 ELSE FromIoError(o),
                 val |-> IF o = "ok" THEN val ELSE {}]
  BY DEF Return
<1>2. op'.fn = "none"
  BY <1>1 DEF Idle
<1>3. OpenIn(op') = 0 /\ Fits(op') /\ WriteFits'
  BY <1>2 DEF OpenIn, Fits, WriteFits
<1>4. /\ ret'.fn = fn /\ ret'.path = p
      /\ ret'.err = IF o = "ok" THEN "none" ELSE o
      /\ ret'.byte = IF o = "ok" THEN 0 ELSE FromIoError(o)
  BY <1>1
<1>5. o # "ok" => o \in ErrorKinds /\ o # "none"
  BY EndKinds DEF Ends
<1>6. ResultFits'
  BY <1>4, <1>5 DEF ResultFits
<1> QED BY <1>1, <1>2, <1>3, <1>4, <1>6

LEMMA Continued ==
  ASSUME ResultFits, NEW frame, frame.fn # "none", frame.fn # "File.write!", Continue(frame)
  PROVE  op' = frame /\ op' # Idle /\ OpenIn(op') = 0 /\ WriteFits' /\ ResultFits'
<1>1. op' = frame /\ ret' = ret
  BY DEF Continue
<1>2. op' # Idle
  BY <1>1 DEF Idle
<1>3. OpenIn(op') = 0 /\ WriteFits'
  BY <1>1 DEF OpenIn, WriteFits
<1>4. ResultFits'
  BY <1>1 DEF ResultFits
<1> QED BY <1>1, <1>2, <1>3, <1>4

LEMMA Begun ==
  ASSUME CountsFit, Begin, disturbed' = {}, UNCHANGED others
  PROVE  CountsFit' /\ op = Idle /\ OpenIn(op) = 0 /\ DoneStep /\ RaceStep
<1>1. op = Idle /\ calls' \in 0..MaxCalls
  BY FileSystemAssumption DEF Begin, CountsFit
<1> QED BY <1>1 DEF CountsFit, Idle, OpenIn, DoneStep, RaceStep

LEMMA SingleStep ==
  ASSUME FsInv, NEW fn, NEW p \in Paths, NEW outcome \in Ends,
         NEW tree, NEW val,
         outcome = "ok" =>
           /\ tree \in Trees /\ \A i \in Inodes : Named(tree, i) => Named(fs, i)
           /\ \A q \in Paths : fs[q] # None /\ tree[q] = None => IsPrefix(p, q),
         Single(fn, p, outcome, tree, val)
  PROVE  FsInv' /\ StepFits
<1>1. PICK o \in Outcomes(outcome) :
        Return(fn, p, o, val) /\ Becomes(IF o = "ok" THEN tree ELSE fs, disk)
  BY DEF Single
<1>2. o \in Ends /\ (o = "ok" => outcome = "ok")
  BY <1>1, EndKinds DEF Outcomes
<1>3. /\ op' = Idle /\ OpenIn(op') = 0
      /\ Fits(op') /\ WriteFits' /\ ResultFits' /\ ret'.path = p
  BY <1>1, <1>2, Returned
<1>4. CountsFit' /\ op = Idle /\ DoneStep /\ RaceStep
  BY Begun DEF Single, FsInv
<1> DEFINE t == IF o = "ok" THEN tree ELSE fs
<1>5. /\ t \in Trees /\ \A i \in Inodes : Named(t, i) => Named(fs, i)
      /\ \A q \in Paths : fs[q] # None /\ t[q] = None => IsPrefix(p, q)
  BY <1>2 DEF FsInv, FilesFit
<1>6. Becomes(t, disk)
  BY <1>1
<1> HIDE DEF t
<1>7. /\ FilesFit' /\ fs' = t
      /\ \A i \in Inodes : Named(t, i) \/ i = OpenIn(op') => disk'[i] = disk[i]
  BY <1>3, <1>5, <1>6, Becoming DEF FsInv
<1>8. RemovalStep
  BY <1>3, <1>4, <1>5, <1>7 DEF RemovalStep, CallPath, Below
<1>9. WriteStep
  BY <1>7 DEF WriteStep
<1> QED BY <1>3, <1>4, <1>7, <1>8, <1>9 DEF FsInv, StepFits

(* Calls that only look, or that put or remove one entry. *)
LEMMA LookStep ==
  ASSUME FsInv, NEW fn, NEW p \in Paths, NEW outcome \in Ends, NEW val,
         Single(fn, p, outcome, fs, val)
  PROVE  FsInv' /\ StepFits
<1>1. fs \in Trees
  BY DEF FsInv, FilesFit
<1> QED BY <1>1, SingleStep

LEMMA RemoveStep ==
  ASSUME FsInv, NEW fn, NEW p \in Paths, NEW outcome \in Ends,
         outcome = "ok" => fs[p].kind # "dir" \/ Children(p) = {},
         Single(fn, p, outcome, [fs EXCEPT ![p] = None], {})
  PROVE  FsInv' /\ StepFits
<1> DEFINE t == [fs EXCEPT ![p] = None]
<1>1. fs \in Trees
  BY DEF FsInv, FilesFit
<1>2. outcome = "ok" => t \in Trees
  BY <1>1, PutKeepsTree, NodesMade DEF MayHold, None
<1>3. \A i \in Inodes : Named(t, i) => Named(fs, i)
  BY <1>1, PutNames, NodesMade
<1>4. ASSUME NEW q \in Paths, fs[q] # None, t[q] = None PROVE IsPrefix(p, q)
  <2>1. q = p
    BY <1>1, <1>4 DEF Trees
  <2> QED BY <2>1, BelowItself, PathShape
<1> HIDE DEF t
<1>5. Single(fn, p, outcome, t, {})
  BY DEF t
<1> QED BY <1>2, <1>3, <1>4, <1>5, SingleStep

LEMMA PutStep ==
  ASSUME FsInv, NEW fn, NEW p \in Paths, NEW q \in Paths,
         NEW outcome \in Ends, NEW n \in Nodes, NEW val,
         outcome = "ok" =>
           /\ Reach(q) = "ok" /\ fs[q].kind = "none" /\ MayHold(n, q) /\ n # None
           /\ n.kind = "file" => \E s \in Paths : fs[s] = n,
         Single(fn, p, outcome, [fs EXCEPT ![q] = n], val)
  PROVE  FsInv' /\ StepFits
<1> DEFINE t == [fs EXCEPT ![q] = n]
<1>1. fs \in Trees
  BY DEF FsInv, FilesFit
<1>2. outcome = "ok" => t \in Trees
  BY <1>1, PutKeepsTree
<1>3. outcome = "ok" => \A i \in Inodes : Named(t, i) => Named(fs, i)
  BY <1>1, PutNames
<1>4. ASSUME NEW r \in Paths, fs[r] # None, t[r] = None, outcome = "ok" PROVE FALSE
  BY <1>1, <1>4 DEF Trees
<1> HIDE DEF t
<1>5. Single(fn, p, outcome, t, val)
  BY DEF t
<1> QED BY <1>2, <1>3, <1>4, <1>5, SingleStep

-----------------------------------------------------------------------------
(* The actions of the host that are one system call.                         *)
LEMMA DirCreateStep ==
  ASSUME FsInv, NEW p \in Paths, hosted_dir_create(p)
  PROVE  FsInv' /\ StepFits
<1>1. Mkdir(p) \in Ends /\ (Mkdir(p) = "ok" => Reach(p) = "ok" /\ fs[p].kind = "none")
  BY PathEnds
<1>2. Dir \in Nodes /\ MayHold(Dir, p) /\ Dir # None /\ Dir.kind # "file"
  BY NodesMade DEF MayHold, Dir, None
<1> QED BY <1>1, <1>2, PutStep DEF hosted_dir_create

LEMMA DeleteEmptyStep ==
  ASSUME FsInv, NEW p \in Paths, hosted_dir_delete_empty(p)
  PROVE  FsInv' /\ StepFits
BY PathEnds, RemoveStep DEF hosted_dir_delete_empty

LEMMA FileDeleteStep ==
  ASSUME FsInv, NEW p \in Paths, hosted_file_delete(p)
  PROVE  FsInv' /\ StepFits
BY PathEnds, RemoveStep DEF hosted_file_delete

LEMMA LookingSteps ==
  ASSUME FsInv, NEW p \in Paths,
         \/ hosted_dir_list(p)
         \/ hosted_file_read_bytes(p) \/ hosted_file_read_utf8(p)
         \/ hosted_path_is_dir(p) \/ hosted_path_is_file(p) \/ hosted_path_is_sym_link(p)
         \/ path_type(p) \/ file_exists(p) \/ file_size_in_bytes(p)
         \/ \E bit \in {"read", "write", "execute"} : file_is(p, bit)
  PROVE  FsInv' /\ StepFits
<1>1. fs \in Trees
  BY DEF FsInv, FilesFit
<1>2. /\ Lookup(p) \in Ends /\ OpenRead(p) \in Ends /\ ReadUtf8(p) \in Ends
      /\ ListOutcome(p) \in Ends /\ Stat(p) \in Ends /\ "ok" \in Ends
  BY <1>1, PathEnds, RealEnds, EndKinds
<1>3. CASE hosted_dir_list(p)
  <2>1. PICK entries \in SUBSET Children(Real(p)) :
          Single("Dir.list!", p, ListOutcome(p), fs, entries)
    BY <1>3 DEF hosted_dir_list
  <2> QED BY <1>2, <2>1, LookStep
<1>4. CASE hosted_file_read_bytes(p)
  BY <1>2, <1>4, LookStep DEF hosted_file_read_bytes
<1>5. CASE hosted_file_read_utf8(p)
  BY <1>2, <1>5, LookStep DEF hosted_file_read_utf8
<1>6. CASE hosted_path_is_dir(p)
  BY <1>2, <1>6, LookStep DEF hosted_path_is_dir, Query
<1>7. CASE hosted_path_is_file(p)
  BY <1>2, <1>7, LookStep DEF hosted_path_is_file, Query
<1>8. CASE hosted_path_is_sym_link(p)
  BY <1>2, <1>8, LookStep DEF hosted_path_is_sym_link, Query
<1>9. CASE path_type(p)
  BY <1>2, <1>9, LookStep DEF path_type
<1>10. CASE file_exists(p)
  <2> DEFINE o == IF Stat(p) = "NotFound" THEN "ok" ELSE Stat(p)
  <2>1. o \in Ends
    BY <1>2
  <2>2. Single("file_exists", p, o, fs, {Stat(p) = "ok"})
    BY <1>10 DEF file_exists
  <2> HIDE DEF o
  <2> QED BY <2>1, <2>2, LookStep
<1>11. CASE file_size_in_bytes(p)
  BY <1>2, <1>11, LookStep DEF file_size_in_bytes
<1>12. CASE \E bit \in {"read", "write", "execute"} : file_is(p, bit)
  <2>1. PICK bit \in {"read", "write", "execute"} : file_is(p, bit)
    BY <1>12
  <2> QED BY <1>2, <2>1, LookStep DEF file_is
<1> QED BY <1>3, <1>4, <1>5, <1>6, <1>7, <1>8, <1>9, <1>10, <1>11, <1>12

LEMMA HardLinkStep ==
  ASSUME FsInv, NEW p \in Paths, NEW q \in Paths, hard_link(p, q)
  PROVE  FsInv' /\ StepFits
<1>1. fs[p] \in Nodes
  BY TreeNode DEF FsInv, FilesFit
<1>2. LinkOutcome(p, q) \in Ends
  BY TwoPathEnds
<1>3. ASSUME LinkOutcome(p, q) = "ok"
      PROVE  Reach(q) = "ok" /\ fs[q].kind = "none" /\ fs[p] # None
  BY <1>3, TwoPathEnds, PathEnds, LookedUp DEF None
<1>4. /\ Single("hard_link", p, LinkOutcome(p, q), [fs EXCEPT ![q] = fs[p]], {q})
      /\ MayHold(fs[p], q)
  BY DEF hard_link
<1> QED BY <1>1, <1>2, <1>3, <1>4, PutStep

(* What is made of the nodes there are names the files there are. *)
LEMMA SameNames ==
  ASSUME NEW t, \A r \in Paths : t[r] = None \/ \E s \in Paths : t[r] = fs[s],
         NEW i \in Inodes
  PROVE  Named(t, i) => Named(fs, i)
<1> SUFFICES ASSUME Named(t, i) PROVE Named(fs, i)
  OBVIOUS
<1>1. PICK r \in Paths : t[r].kind = "file" /\ t[r].ino = i
  BY DEF Named
<1>2. t[r] # None
  BY <1>1 DEF None
<1>3. PICK s \in Paths : t[r] = fs[s]
  BY <1>2
<1> QED BY <1>1, <1>3 DEF Named

LEMMA RenameStep ==
  ASSUME FsInv, NEW p \in Paths, NEW q \in Paths, file_rename(p, q)
  PROVE  FsInv' /\ StepFits
<1> DEFINE t == Renamed(p, q)
<1>1. /\ Single("file_rename", p, RenameOutcome(p, q), t, {q})
      /\ \A r \in Below(p) : fs[r] # None =>
           Moved(r, p, q) \in Paths /\ MayHold(fs[r], Moved(r, p, q))
  BY DEF file_rename
<1>2. fs \in Trees /\ RenameOutcome(p, q) \in Ends
  BY TwoPathEnds DEF FsInv, FilesFit
<1>3. RenameOutcome(p, q) = "ok" =>
        /\ t \in Trees
        /\ \A r \in Paths : t[r] = None \/ \E s \in Paths : t[r] = fs[s]
        /\ \A r \in Paths : fs[r] # None /\ t[r] = None => IsPrefix(p, r)
  BY <1>1, <1>2, RenamedTree
<1> HIDE DEF t
<1>4. RenameOutcome(p, q) = "ok" => \A i \in Inodes : Named(t, i) => Named(fs, i)
  BY <1>3, SameNames
<1> QED BY <1>1, <1>2, <1>3, <1>4, SingleStep

(* A step of a call that changes no tree and no file. *)
LEMMA IdleFiles ==
  ASSUME FilesFit, UNCHANGED <<fs, disk>>, OpenIn(op') = OpenIn(op)
  PROVE  FilesFit' /\ RemovalStep /\ WriteStep
<1>1. FilesFit'
  BY SameFiles DEF FilesFit
<1>2. RemovalStep
  BY DEF RemovalStep
<1>3. WriteStep
  BY DEF WriteStep
<1> QED BY <1>1, <1>2, <1>3

LEMMA FileTimeStep ==
  ASSUME FsInv, NEW p \in Paths, file_time(p)
  PROVE  FsInv' /\ StepFits
<1>1. Stat(p) \in Ends
  BY RealEnds DEF FsInv, FilesFit
<1>2. CASE Stat(p) = "ok" /\ disk[fs[Real(p)].ino].time < 0
  <2>1. /\ Begin /\ Continue(Aborted) /\ disturbed' = {} /\ UNCHANGED <<fs, disk, others>>
    BY <1>2 DEF file_time
  <2>2. CountsFit' /\ op = Idle /\ OpenIn(op) = 0 /\ DoneStep /\ RaceStep
    BY <2>1, Begun DEF FsInv
  <2>3. Aborted.fn = "aborted"
    BY DEF Aborted
  <2>4. op' = Aborted /\ OpenIn(op') = 0 /\ WriteFits' /\ ResultFits'
    BY <2>1, <2>3, Continued DEF FsInv
  <2>5. Fits(op')
    BY <2>3, <2>4 DEF Fits
  <2>6. FilesFit' /\ RemovalStep /\ WriteStep
    BY <2>1, <2>2, <2>4, IdleFiles DEF FsInv
  <2> QED BY <2>2, <2>4, <2>5, <2>6 DEF FsInv, StepFits
<1>3. CASE ~(Stat(p) = "ok" /\ disk[fs[Real(p)].ino].time < 0)
  BY <1>1, <1>3, LookStep DEF file_time
<1> QED BY <1>2, <1>3

LEMMA DirListStep ==
  ASSUME FsInv, NEW p \in Paths, dir_list(p)
  PROVE  FsInv' /\ StepFits
<1>1. PICK o \in Outcomes(ListOutcome(p)) :
        IF o = "ok" THEN Continue([fn |-> "dir_list", path |-> p])
                    ELSE Return("dir_list", p, "NotADirectory", {})
  BY DEF dir_list
<1>2. CountsFit' /\ op = Idle /\ OpenIn(op) = 0 /\ DoneStep /\ RaceStep /\ UNCHANGED <<fs, disk>>
  BY Begun DEF FsInv, dir_list
<1>3. OpenIn(op') = 0 /\ WriteFits' /\ ResultFits' /\ Fits(op')
  <2>1. CASE o = "ok"
    <3> DEFINE frame == [fn |-> "dir_list", path |-> p]
    <3>1. Continue(frame)
      BY <1>1, <2>1
    <3>2. frame.fn = "dir_list" /\ frame.path = p
      OBVIOUS
    <3> HIDE DEF frame
    <3>3. op' = frame /\ OpenIn(op') = 0 /\ WriteFits' /\ ResultFits'
      BY <3>1, <3>2, Continued DEF FsInv
    <3>4. Fits(op')
      BY <3>2, <3>3 DEF Fits
    <3> QED BY <3>3, <3>4
  <2>2. CASE o # "ok"
    BY <1>1, <2>2, EndKinds, Returned
  <2> QED BY <2>1, <2>2
<1>4. FilesFit' /\ RemovalStep /\ WriteStep
  BY <1>2, <1>3, IdleFiles DEF FsInv
<1> QED BY <1>2, <1>3, <1>4 DEF FsInv, StepFits

LEMMA DirListReadsStep ==
  ASSUME FsInv, DirListReads
  PROVE  FsInv' /\ StepFits
<1>1. PICK entries \in SUBSET Children(Real(op.path)), o \in Outcomes(ListOutcome(op.path)) :
        Return("dir_list", op.path, o, entries)
  BY DEF DirListReads
<1>2. op.fn = "dir_list" /\ op.path \in Paths /\ UNCHANGED <<fs, disk, disturbed, calls, others>>
  BY DEF DirListReads, FsInv, Fits
<1>3. o \in Ends
  BY <1>1, <1>2, RealEnds, EndKinds DEF Outcomes, FsInv, FilesFit
<1>4. OpenIn(op') = 0 /\ WriteFits' /\ ResultFits' /\ Fits(op')
  BY <1>1, <1>3, Returned
<1>5. FilesFit' /\ RemovalStep /\ WriteStep
  BY <1>2, <1>4, IdleFiles DEF FsInv, OpenIn
<1>6. CountsFit' /\ DoneStep /\ RaceStep
  BY <1>2 DEF FsInv, CountsFit, DoneStep, RaceStep
<1> QED BY <1>4, <1>5, <1>6 DEF FsInv, StepFits

-----------------------------------------------------------------------------
(* File.write!, which opens the file of its path and writes piece by piece.  *)
LEMMA OpeningIs ==
  ASSUME FsInv, op = Idle, NEW p \in Paths, OpenWrite(p) = "ok"
  PROVE  /\ Opened(p) \in Inodes
         /\ OpenTruncating(p) \in [Inodes -> Stores]
         /\ OpenTruncating(p)[Opened(p)].data = <<>>
         /\ OpenTruncating(p)[Opened(p)].time # 0
         /\ \A i \in Inodes : i # Opened(p) => OpenTruncating(p)[i] = disk[i]
         /\ fs[Real(p)].kind = "file" => fs[Real(p)] = File(Opened(p))
         /\ fs[Real(p)].kind # "file" => ~Named(fs, Opened(p))
<1> DEFINE r == Real(p)
           i == Opened(p)
<1>1. r \in Paths /\ fs[r] \in Nodes /\ disk \in [Inodes -> Stores] /\ fs \in Trees
  BY RealIs DEF FsInv, FilesFit
<1>2. <<>> \in Texts /\ Own.time = 1 /\ Stored(<<>>, Own) \in Stores
      /\ Stored(<<>>, Own).data = <<>> /\ Stored(<<>>, Own).time = 1
  <2>1. <<>> \in Texts
    BY EmptySeq DEF Texts
  <2> QED BY <2>1 DEF Own, Stored, Stores
<1>3. CASE fs[r].kind = "file"
  <2>1. i = fs[r].ino /\ i \in Inodes /\ fs[r] = File(i)
    BY <1>1, <1>3, NodeIs DEF Opened
  <2>2. OpenTruncating(p) = [disk EXCEPT ![i].data = <<>>, ![i].time = Own.time]
    BY <1>3, <2>1 DEF OpenTruncating
  <2> HIDE DEF i, r
  <2>3. disk[i] \in Stores
    BY <1>1, <2>1
  <2> DEFINE e == <<>>
             a == [disk EXCEPT ![i].data = e]
             t == OpenTruncating(p)
  <2>4. t = [a EXCEPT ![i].time = 1]
    BY <1>2, <2>2
  <2>5. e \in Texts
    BY <1>2
  <2> HIDE DEF e, t
  <2>6. a \in [Inodes -> Stores] /\ a[i].data = e /\ \A j \in Inodes : j # i => a[j] = disk[j]
    <3>1. [disk[i] EXCEPT !.data = e] \in Stores /\ [disk[i] EXCEPT !.data = e].data = e
      BY <2>3, <2>5 DEF Stores
    <3> QED BY <1>1, <2>1, <3>1
  <2> HIDE DEF a
  <2>7. a[i] \in Stores
    BY <2>1, <2>6
  <2>8. [a[i] EXCEPT !.time = 1] \in Stores /\ [a[i] EXCEPT !.time = 1].data = e
        /\ [a[i] EXCEPT !.time = 1].time = 1
    BY <2>6, <2>7 DEF Stores
  <2>9. t \in [Inodes -> Stores] /\ t[i].data = e /\ t[i].time = 1
        /\ \A j \in Inodes : j # i => t[j] = disk[j]
    BY <2>1, <2>4, <2>6, <2>8
  <2> QED BY <1>3, <2>1, <2>9 DEF i, r, t, e
<1>4. CASE fs[r].kind # "file"
  <2>1. i = NewIno /\ NewIno \in Inodes /\ ~Named(fs, NewIno)
    BY <1>1, <1>4, NewInoIsFree DEF Opened
  <2>2. OpenTruncating(p) = [disk EXCEPT ![i] = Stored(<<>>, Own)]
    BY <1>4, <2>1 DEF OpenTruncating
  <2> HIDE DEF i, r
  <2>3. i \in Inodes
    BY <2>1
  <2> DEFINE t == OpenTruncating(p)
  <2>4. t \in [Inodes -> Stores] /\ t[i] = Stored(<<>>, Own)
        /\ \A j \in Inodes : j # i => t[j] = disk[j]
    BY <1>1, <1>2, <2>2, <2>3
  <2> QED BY <1>2, <1>4, <2>1, <2>4 DEF i, r
<1> QED BY <1>3, <1>4

LEMMA WriteOpens ==
  ASSUME FsInv, NEW p \in Paths, NEW d \in Contents, Begin, OpenWrite(p) = "ok",
         disturbed' = {}, UNCHANGED others,
         Continue(WriteFrame(p, Opened(p), d)),
         Becomes([fs EXCEPT ![Real(p)] = File(Opened(p))], OpenTruncating(p))
  PROVE  FsInv' /\ StepFits
<1> DEFINE r == Real(p)
           i == Opened(p)
           t == [fs EXCEPT ![r] = File(i)]
           T == OpenTruncating(p)
<1>1. CountsFit' /\ op = Idle /\ OpenIn(op) = 0 /\ DoneStep /\ RaceStep
  BY Begun DEF FsInv
<1>2. /\ i \in Inodes /\ T \in [Inodes -> Stores] /\ T[i].data = <<>> /\ T[i].time # 0
      /\ \A j \in Inodes : j # i => T[j] = disk[j]
      /\ fs[r].kind = "file" => fs[r] = File(i)
      /\ fs[r].kind # "file" => ~Named(fs, i)
  BY <1>1, OpeningIs
<1>3. r \in Paths /\ fs \in Trees /\ Reach(r) = "ok" /\ fs[r].kind \in {"none", "file"}
      /\ (fs[p].kind # "link" => r = p)
  BY RealIs, RealEnds DEF FsInv, FilesFit
<1>4. File(i) \in Nodes /\ File(i).kind = "file" /\ File(i).ino = i /\ MayHold(File(i), r)
      /\ File(i) # None
  BY <1>2, NodesMade DEF MayHold, None
<1>5. t \in Trees
  BY <1>3, <1>4, PutKeepsTree
<1>6. t[r] = File(i) /\ \A s \in Paths : s # r => t[s] = fs[s]
  BY <1>3 DEF Trees
<1>7. /\ op' = WriteFrame(p, i, d) /\ ret' = ret
      /\ fs' = t /\ disk' = [j \in Inodes |->
                               IF Named(t, j) \/ j = OpenIn(op') THEN T[j] ELSE Blank]
  BY DEF Continue, Becomes
<1>8. /\ op'.fn = "File.write!" /\ op'.path = p /\ op'.ino = i /\ op'.data = d /\ op'.done = 0
      /\ op' \in WriteFrames /\ OpenIn(op') = i /\ op' # Idle
  BY <1>2, <1>7 DEF WriteFrame, WriteFrames, OpenIn, Idle
<1>9. d \in Texts /\ Size(d) \in Nat /\ First(d, 0) = <<>>
  <2>1. d \in Texts
    BY FileSystemAssumption DEF Texts
  <2> QED BY <2>1, TextIs
<1> HIDE DEF r, i, t, T
<1>10. Fits(op')
  BY <1>8, <1>9 DEF Fits
<1>11. FilesFit'
  <2>1. disk' \in [Inodes -> Stores]
    BY <1>2, <1>7, BlankIs
  <2>2. ASSUME NEW j \in Inodes, Named(t, j), j # i PROVE Named(fs, j)
    BY <1>4, <1>6, <2>2 DEF Named
  <2>3. ASSUME NEW j \in Inodes
        PROVE  IF Named(fs', j) \/ j = OpenIn(op') THEN disk'[j].time # 0 ELSE disk'[j] = Blank
    <3>1. CASE Named(t, j) \/ j = i
      <4>1. disk'[j] = T[j]
        BY <1>7, <1>8, <3>1
      <4>2. T[j].time # 0
        <5>1. CASE j = i
          BY <1>2, <5>1
        <5>2. CASE j # i
          BY <1>2, <2>2, <3>1, <5>2 DEF FsInv, FilesFit
        <5> QED BY <5>1, <5>2
      <4> QED BY <1>7, <1>8, <3>1, <4>1, <4>2
    <3>2. CASE ~(Named(t, j) \/ j = i)
      BY <1>7, <1>8, <3>2
    <3> QED BY <3>1, <3>2
  <2> QED BY <1>5, <1>7, <2>1, <2>3 DEF FilesFit
<1>12. disk'[i] = T[i]
  BY <1>2, <1>7, <1>8
<1>13. WriteFits'
  <2>1. fs'[Real(p)'] = File(i)
    <3>1. CASE r = p
      BY <1>4, <1>6, <1>7, <3>1 DEF Real
    <3>2. CASE r # p
      <4>1. fs[p].kind = "link" /\ fs'[p] = fs[p] /\ r = fs[p].target
        BY <1>3, <1>6, <1>7, <3>2 DEF Real, r
      <4> QED BY <1>6, <1>7, <4>1 DEF Real
    <3> QED BY <3>1, <3>2
  <2>2. disk'[i].data = First(d, 0)
    BY <1>2, <1>9, <1>12
  <2>3. fs'[Real(op.path)'] = File(i)
    BY <1>8, <2>1 DEF Real
  <2> QED BY <1>8, <2>2, <2>3 DEF WriteFits
<1>14. ResultFits'
  BY <1>7, <1>8 DEF FsInv, ResultFits, OkWriteIsComplete
<1>15. RemovalStep
  BY <1>4, <1>6, <1>7 DEF RemovalStep
<1>16. WriteStep
  <2>1. SUFFICES ASSUME NEW j \in Inodes, Named(fs, j), Named(fs', j), disk'[j] # disk[j]
                 PROVE  j = fs[Real(op'.path)].ino
    BY <1>1, <1>8 DEF WriteStep
  <2>2. j = i
    BY <1>2, <1>7, <2>1
  <2>3. fs[r] = File(i)
    BY <1>2, <2>1, <2>2
  <2> QED BY <1>4, <1>8, <2>2, <2>3 DEF r
<1> QED BY <1>1, <1>10, <1>11, <1>13, <1>14, <1>15, <1>16 DEF FsInv, StepFits

LEMMA FileWriteStep ==
  ASSUME FsInv, NEW p \in Paths, NEW d \in Contents, hosted_file_write(p, d)
  PROVE  FsInv' /\ StepFits
<1>1. PICK o \in Outcomes(OpenWrite(p)) :
        IF o = "ok" THEN /\ Continue(WriteFrame(p, Opened(p), d))
                         /\ Becomes([fs EXCEPT ![Real(p)] = File(Opened(p))], OpenTruncating(p))
                    ELSE Return("File.write!", p, o, {}) /\ UNCHANGED <<fs, disk>>
  BY DEF hosted_file_write
<1>2. Begin /\ disturbed' = {} /\ UNCHANGED others
  BY DEF hosted_file_write
<1>3. OpenWrite(p) \in Ends /\ o \in Ends /\ (o = "ok" => OpenWrite(p) = "ok")
  <2>1. OpenWrite(p) \in Ends
    BY RealEnds DEF FsInv, FilesFit
  <2> QED BY <1>1, <2>1, EndKinds DEF Outcomes
<1>4. CASE o = "ok"
  BY <1>1, <1>2, <1>3, <1>4, WriteOpens
<1>5. CASE o # "ok"
  <2>1. OpenIn(op') = 0 /\ Fits(op') /\ WriteFits' /\ ResultFits'
    BY <1>1, <1>3, <1>5, Returned
  <2>2. CountsFit' /\ op = Idle /\ OpenIn(op) = 0 /\ DoneStep /\ RaceStep
    BY <1>2, Begun DEF FsInv
  <2>3. FilesFit' /\ RemovalStep /\ WriteStep
    BY <1>1, <1>5, <2>1, <2>2, IdleFiles DEF FsInv
  <2> QED BY <2>1, <2>2, <2>3 DEF FsInv, StepFits
<1> QED BY <1>4, <1>5

LEMMA WritingIs ==
  ASSUME FsInv, op.fn = "File.write!"
  PROVE  /\ op \in WriteFrames /\ op.done <= Size(op.data) /\ op.data \in Texts
         /\ Size(op.data) \in Nat /\ OpenIn(op) = op.ino /\ op # Idle
         /\ disk[op.ino].data = First(op.data, op.done) /\ disk[op.ino].time # 0
<1>1. op \in WriteFrames /\ op.done <= Size(op.data)
  BY DEF FsInv, Fits
<1>2. op.data \in Texts
  BY <1>1, FileSystemAssumption DEF WriteFrames, Texts
<1>3. OpenIn(op) = op.ino /\ op.ino \in Inodes /\ op # Idle
  BY <1>1 DEF OpenIn, WriteFrames, Idle
<1>4. disk[op.ino].data = First(op.data, op.done) /\ disk[op.ino].time # 0
  BY <1>3 DEF FsInv, WriteFits, FilesFit
<1> QED BY <1>1, <1>2, <1>3, <1>4, TextIs

LEMMA WriteSomeStep ==
  ASSUME FsInv, WriteSome
  PROVE  FsInv' /\ StepFits
<1>1. /\ op.fn = "File.write!" /\ op.done < Size(op.data)
      /\ UNCHANGED <<fs, disturbed, calls, others>>
  BY DEF WriteSome, Size
<1>2. PICK n \in (op.done + 1)..Size(op.data) :
        /\ Continue([op EXCEPT !.done = n])
        /\ disk' = [disk EXCEPT ![op.ino].data = Overwrite(@, First(op.data, n))]
  BY DEF WriteSome, Size, First
<1> DEFINE d == op.data
           m == op.done
           i == op.ino
<1>3. /\ op \in WriteFrames /\ d \in Texts /\ Size(d) \in Nat /\ OpenIn(op) = i /\ op # Idle
      /\ disk[i].data = First(d, m) /\ disk[i].time # 0
  BY <1>1, WritingIs
<1>4. m \in Nat /\ i \in Inodes /\ d \in Contents /\ op.path \in Paths
  BY <1>3 DEF WriteFrames
<1>5. n \in 0..Size(d) /\ m \in 0..n
  BY <1>2, <1>3, <1>4
<1>6. Overwrite(disk[i].data, First(d, n)) = First(d, n) /\ First(d, n) \in Texts
  BY <1>3, <1>5, WrittenOver, TextIs
<1>7. /\ op' = [op EXCEPT !.done = n] /\ ret' = ret
  BY <1>2 DEF Continue
<1>8. /\ op' \in WriteFrames /\ op'.fn = "File.write!" /\ op'.path = op.path /\ op'.ino = i
      /\ op'.data = d /\ op'.done = n /\ OpenIn(op') = i /\ op' # Idle
  BY <1>3, <1>5, <1>7 DEF WriteFrames, OpenIn, Idle
<1>9. disk \in [Inodes -> Stores]
  BY DEF FsInv, FilesFit
<1>10. /\ disk' \in [Inodes -> Stores] /\ disk'[i].data = First(d, n)
       /\ disk'[i].time = disk[i].time
       /\ \A j \in Inodes : j # i => disk'[j] = disk[j]
  <2> DEFINE w == First(d, n)
  <2>1. disk' = [disk EXCEPT ![i].data = w]
    BY <1>2, <1>6
  <2>2. w \in Texts
    BY <1>6
  <2>3. disk[i] \in Stores
    BY <1>4, <1>9
  <2> HIDE DEF w, i
  <2>4. [disk[i] EXCEPT !.data = w] \in Stores
    BY <2>2, <2>3 DEF Stores
  <2> QED BY <1>4, <1>9, <2>1, <2>3, <2>4 DEF w, Stores
<1> HIDE DEF d, m, i
<1>11. Fits(op')
  BY <1>5, <1>8 DEF Fits
<1>12. FilesFit'
  <2>1. ASSUME NEW j \in Inodes
        PROVE  IF Named(fs', j) \/ j = OpenIn(op') THEN disk'[j].time # 0 ELSE disk'[j] = Blank
    <3>1. IF Named(fs, j) \/ j = OpenIn(op) THEN disk[j].time # 0 ELSE disk[j] = Blank
      BY DEF FsInv, FilesFit
    <3>2. CASE j = i
      BY <1>3, <1>8, <1>10, <3>2
    <3>3. CASE j # i
      BY <1>1, <1>3, <1>8, <1>10, <3>1, <3>3
    <3> QED BY <3>2, <3>3
  <2> QED BY <1>1, <1>10, <2>1 DEF FsInv, FilesFit
<1>13. WriteFits'
  <2>1. disturbed' = {} => fs[Real(op.path)] = File(i)
    BY <1>1 DEF FsInv, WriteFits, i
  <2>2. Real(op.path)' = Real(op.path)
    BY <1>1, <1>8 DEF Real
  <2> QED BY <1>1, <1>8, <1>10, <2>1, <2>2 DEF WriteFits
<1>14. ResultFits' /\ CountsFit'
  BY <1>1, <1>7 DEF FsInv, ResultFits, CountsFit
<1>15. RemovalStep /\ DoneStep /\ RaceStep
  BY <1>1, <1>8 DEF RemovalStep, DoneStep, RaceStep
<1>16. WriteStep
  BY <1>3, <1>10 DEF WriteStep
<1> QED BY <1>11, <1>12, <1>13, <1>14, <1>15, <1>16 DEF FsInv, StepFits

(* Closing the file; it is gone if no path names it any more. *)
LEMMA WriteCloses ==
  ASSUME FsInv, op.fn = "File.write!", op' = Idle, Becomes(fs, disk),
         UNCHANGED <<disturbed, calls, others>>
  PROVE  /\ FilesFit' /\ Fits(op') /\ WriteFits' /\ CountsFit' /\ fs' = fs
         /\ RemovalStep /\ WriteStep /\ RaceStep
         /\ \A i \in Inodes : Named(fs, i) => disk'[i] = disk[i]
<1>1. op'.fn = "none" /\ OpenIn(op') = 0 /\ op'.fn # "File.write!"
  BY DEF Idle, OpenIn
<1>2. fs \in Trees
  BY DEF FsInv, FilesFit
<1>3. /\ FilesFit' /\ fs' = fs
      /\ \A i \in Inodes : Named(fs, i) \/ i = OpenIn(op') => disk'[i] = disk[i]
  BY <1>1, <1>2, Becoming DEF FsInv
<1>4. Fits(op') /\ WriteFits' /\ CountsFit'
  BY <1>1 DEF Fits, WriteFits, CountsFit, FsInv
<1>5. RemovalStep /\ WriteStep /\ RaceStep
  BY <1>3 DEF RemovalStep, WriteStep, RaceStep
<1> QED BY <1>3, <1>4, <1>5

LEMMA WriteFailsStep ==
  ASSUME FsInv, WriteFails
  PROVE  FsInv' /\ StepFits
<1>1. /\ op.fn = "File.write!" /\ Return(op.fn, op.path, "StorageFull", {})
      /\ Becomes(fs, disk) /\ UNCHANGED <<disturbed, calls, others>>
  BY DEF WriteFails
<1>2. op' = Idle /\ ResultFits' /\ ret'.err = "StorageFull"
  BY <1>1, EndKinds, Returned
<1>3. DoneStep
  BY <1>2 DEF DoneStep
<1> QED BY <1>1, <1>2, <1>3, WriteCloses DEF FsInv, StepFits

LEMMA WriteReturnsStep ==
  ASSUME FsInv, WriteReturns
  PROVE  FsInv' /\ StepFits
<1>1. /\ op.fn = "File.write!" /\ op.done = Size(op.data) /\ Return(op.fn, op.path, "ok", {op.data})
      /\ Becomes(fs, disk) /\ UNCHANGED <<disturbed, calls, others>>
  BY DEF WriteReturns, Size
<1>2. op' = Idle /\ ResultFits'
  BY <1>1, EndKinds, Returned
<1>3. /\ FilesFit' /\ Fits(op') /\ WriteFits' /\ CountsFit' /\ fs' = fs
      /\ RemovalStep /\ WriteStep /\ RaceStep
      /\ \A i \in Inodes : Named(fs, i) => disk'[i] = disk[i]
  BY <1>1, <1>2, WriteCloses
<1>4. /\ op \in WriteFrames /\ op.data \in Texts
      /\ disk[op.ino].data = First(op.data, op.done)
  BY <1>1, WritingIs
<1>5. disk[op.ino].data = op.data /\ op.ino \in Inodes
  BY <1>1, <1>4, TextIs DEF WriteFrames
<1>6. ASSUME NEW q \in Paths, fs'[q] = File(op.ino)
      PROVE  disk'[op.ino].data = op.data
  <2>1. fs[q].kind = "file" /\ fs[q].ino = op.ino
    BY <1>3, <1>5, <1>6, NodesMade
  <2>2. Named(fs, op.ino)
    BY <2>1 DEF Named
  <2> QED BY <1>3, <1>5, <2>2
<1>7. disturbed = {} => fs'[Real(op.path)] = File(op.ino)
  BY <1>1, <1>3 DEF FsInv, WriteFits
<1>8. DoneStep
  BY <1>1, <1>5, <1>6, <1>7 DEF DoneStep
<1> QED BY <1>2, <1>3, <1>8 DEF FsInv, StepFits

-----------------------------------------------------------------------------
(* Dir.create_all!, which works its way up and down the path.                *)
LEMMA MakeGoesOn ==
  ASSUME ResultFits, NEW p \in Paths, NEW w \in ErrorKinds \cup {"none"},
         NEW s \in Stacks(p, MakeSteps(p)), Continue(MakeFrame(p, w, s))
  PROVE  /\ op' # Idle /\ op'.fn = "Dir.create_all!" /\ OpenIn(op') = 0 /\ Fits(op')
         /\ WriteFits' /\ ResultFits'
<1> DEFINE o == MakeFrame(p, w, s)
<1>1. o.fn = "Dir.create_all!" /\ MakeFits(o)
  BY MakeFitsIs DEF MakeFrame
<1> HIDE DEF o
<1>2. Fits(o)
  BY <1>1 DEF Fits
<1>3. Continue(o)
  BY DEF o
<1>4. op' = o /\ op' # Idle /\ OpenIn(op') = 0 /\ WriteFits' /\ ResultFits'
  BY <1>1, <1>3, Continued
<1> QED BY <1>1, <1>2, <1>4

LEMMA CreateAllStep ==
  ASSUME FsInv, NEW p \in Paths, hosted_dir_create_all(p)
  PROVE  FsInv' /\ StepFits
<1> DEFINE x == [dir |-> p, retry |-> FALSE]
           s == <<x>>
<1>1. /\ Begin /\ disturbed' = {} /\ UNCHANGED <<fs, disk, others>>
      /\ op' = [fn |-> "Dir.create_all!", path |-> p, why |-> "none", stack |-> s]
      /\ ret' = ret
  BY DEF hosted_dir_create_all
<1>2. x \in MakeSteps(p) /\ x.dir = p
  BY PathShape, BelowItself DEF MakeSteps
<1>3. s \in Stacks(p, MakeSteps(p))
  <2> HIDE DEF x
  <2> QED BY <1>2, StackStart
<1> HIDE DEF s
<1>4. Continue(MakeFrame(p, "none", s))
  BY <1>1 DEF Continue, MakeFrame
<1>5. OpenIn(op') = 0 /\ Fits(op') /\ WriteFits' /\ ResultFits'
  BY <1>3, <1>4, MakeGoesOn DEF FsInv
<1>6. CountsFit' /\ op = Idle /\ OpenIn(op) = 0 /\ DoneStep /\ RaceStep
  BY <1>1, Begun DEF FsInv
<1>7. FilesFit' /\ RemovalStep /\ WriteStep
  BY <1>1, <1>5, <1>6, IdleFiles DEF FsInv
<1> QED BY <1>5, <1>6, <1>7 DEF FsInv, StepFits

LEMMA MakingIs ==
  ASSUME FsInv, op.fn = "Dir.create_all!"
  PROVE  /\ op = MakeFrame(op.path, op.why, op.stack) /\ op # Idle /\ OpenIn(op) = 0
         /\ op.path \in Paths /\ op.why \in ErrorKinds \cup {"none"}
         /\ op.stack \in Stacks(op.path, MakeSteps(op.path))
         /\ Len(op.stack) \in Nat \ {0} /\ Last(op.stack) \in MakeSteps(op.path)
         /\ Last(op.stack).dir \in Paths /\ IsPrefix(Last(op.stack).dir, op.path)
         /\ Len(op.stack) = 1 => Last(op.stack).dir = op.path
<1>1. MakeFits(op)
  BY DEF FsInv, Fits
<1>2. /\ op = MakeFrame(op.path, op.why, op.stack)
      /\ op.path \in Paths /\ op.why \in ErrorKinds \cup {"none"}
      /\ op.stack \in Stacks(op.path, MakeSteps(op.path))
  BY <1>1 DEF MakeFits
<1>3. /\ Len(op.stack) \in Nat \ {0} /\ Last(op.stack) \in MakeSteps(op.path)
      /\ Len(op.stack) = 1 => Last(op.stack).dir = op.path
  BY <1>2, StackTop
<1>4. Last(op.stack).dir \in Paths /\ IsPrefix(Last(op.stack).dir, op.path)
  BY <1>3 DEF MakeSteps
<1>5. op # Idle /\ OpenIn(op) = 0
  BY DEF Idle, OpenIn
<1> QED BY <1>2, <1>3, <1>4, <1>5

LEMMA MadeStep ==
  ASSUME FsInv, op.fn = "Dir.create_all!", Made(op.stack)
  PROVE  /\ OpenIn(op') = 0 /\ Fits(op') /\ WriteFits' /\ ResultFits'
         /\ op' = Idle => Last(op.stack).dir = op.path /\ ret'.err = "none"
<1> DEFINE p == op.path
           s == op.stack
<1>1. /\ op = MakeFrame(p, op.why, s) /\ p \in Paths /\ s \in Stacks(p, MakeSteps(p))
      /\ Len(s) = 1 => Last(s).dir = p
  BY MakingIs
<1>2. CASE Len(s) = 1
  <2>1. Return(op.fn, op.path, "ok", {})
    BY <1>2 DEF Made
  <2>2. OpenIn(op') = 0 /\ Fits(op') /\ WriteFits' /\ ResultFits' /\ ret'.err = "none"
    BY <2>1, EndKinds, Returned
  <2> QED BY <1>1, <1>2, <2>2
<1>3. CASE Len(s) # 1
  <2>1. Continue([op EXCEPT !.stack = Front(s), !.why = "none"])
    BY <1>3 DEF Made
  <2>2. [op EXCEPT !.stack = Front(s), !.why = "none"] = MakeFrame(p, "none", Front(s))
    <3> DEFINE w == op.why
               f == Front(s)
    <3>1. op = MakeFrame(p, w, s)
      BY <1>1
    <3> HIDE DEF p, s, w, f
    <3>2. [op EXCEPT !.stack = f] = MakeFrame(p, w, f)
      BY <3>1 DEF MakeFrame
    <3>3. [op EXCEPT !.stack = f, !.why = "none"] = [[op EXCEPT !.stack = f] EXCEPT !.why = "none"]
      BY <3>1 DEF MakeFrame
    <3>4. [MakeFrame(p, w, f) EXCEPT !.why = "none"] = MakeFrame(p, "none", f)
      BY DEF MakeFrame
    <3>5. [op EXCEPT !.stack = f, !.why = "none"] = MakeFrame(p, "none", f)
      BY <3>2, <3>3, <3>4
    <3> QED BY <3>5 DEF f
  <2>3. Front(s) \in Stacks(p, MakeSteps(p))
    BY <1>1, <1>3, StackPop
  <2>4. Continue(MakeFrame(p, "none", Front(s)))
    BY <2>1, <2>2
  <2>5. /\ op' # Idle /\ OpenIn(op') = 0 /\ Fits(op') /\ WriteFits' /\ ResultFits'
    BY <1>1, <2>3, <2>4, MakeGoesOn DEF FsInv
  <2> QED BY <2>5
<1> QED BY <1>2, <1>3

LEMMA CreateAllMkdirStep ==
  ASSUME FsInv, CreateAllMkdir
  PROVE  FsInv' /\ StepFits
<1> DEFINE p == op.path
           s == op.stack
           top == Last(s)
           up == [dir |-> Front(top.dir), retry |-> FALSE]
           again == [top EXCEPT !.retry = TRUE]
<1>1. PICK o \in Outcomes(Mkdir(top.dir)) :
        /\ fs' = IF o = "ok" THEN [fs EXCEPT ![top.dir] = Dir] ELSE fs
        /\ UNCHANGED disk
        /\ CASE o = "ok" -> Made(s)
             [] o = "NotFound" /\ ~top.retry ->
                  Continue([op EXCEPT !.stack = Append(Front(@) \o <<again>>, up)])
             [] OTHER -> Continue([op EXCEPT !.why = o])
  BY DEF CreateAllMkdir
<1>2. op.fn = "Dir.create_all!" /\ UNCHANGED <<disk, disturbed, calls, others>>
  BY <1>1 DEF CreateAllMkdir
<1>3. /\ op = MakeFrame(p, op.why, s) /\ op # Idle /\ OpenIn(op) = 0
      /\ p \in Paths /\ s \in Stacks(p, MakeSteps(p)) /\ op.why \in ErrorKinds \cup {"none"}
      /\ top \in MakeSteps(p) /\ top.dir \in Paths /\ IsPrefix(top.dir, p)
  BY <1>2, MakingIs
<1>4. /\ Mkdir(top.dir) = "ok" => Reach(top.dir) = "ok" /\ fs[top.dir].kind = "none"
      /\ Mkdir(top.dir) = "NotFound" => Depth(top.dir) # 1
      /\ Mkdir(top.dir) \in Ends
  BY <1>3, PathEnds
<1>5. o \in Ends /\ (o = "ok" => Mkdir(top.dir) = "ok")
      /\ (o = "NotFound" => Mkdir(top.dir) = "NotFound")
  BY <1>1, <1>4, EndKinds DEF Outcomes
<1>6. fs \in Trees /\ Dir \in Nodes /\ MayHold(Dir, top.dir) /\ Dir.kind = "dir" /\ Dir # None
  BY NodesMade DEF FsInv, FilesFit, MayHold, Dir, None
<1>7. fs' \in Trees /\ \A i \in Inodes : Named(fs', i) <=> Named(fs, i)
  <2>1. CASE o = "ok"
    <3> DEFINE t == [fs EXCEPT ![top.dir] = Dir]
    <3>1. t \in Trees
      BY <1>3, <1>4, <1>5, <1>6, <2>1, PutKeepsTree
    <3>2. \A i \in Inodes : Named(t, i) <=> Named(fs, i)
      BY <1>3, <1>4, <1>5, <1>6, <2>1, PutNames
    <3> QED BY <1>1, <2>1, <3>1, <3>2
  <2>2. CASE o # "ok"
    BY <1>1, <1>6, <2>2
  <2> QED BY <2>1, <2>2
<1>8. /\ OpenIn(op') = 0 /\ Fits(op') /\ WriteFits' /\ ResultFits'
      /\ op' = Idle => o = "ok" /\ top.dir = p /\ ret'.err = "none"
  <2>1. CASE o = "ok"
    <3>1. Made(s)
      BY <1>1, <2>1
    <3> QED BY <1>2, <2>1, <3>1, MadeStep
  <2>2. CASE o = "NotFound" /\ ~top.retry
    <3> DEFINE f == Front(s) \o <<again>>
    <3>1. Continue([op EXCEPT !.stack = Append(f, up)])
      BY <1>1, <2>2
    <3>2. again \in MakeSteps(p) /\ again.dir = top.dir
      <4> HIDE DEF top
      <4> QED BY <1>3 DEF MakeSteps
    <3>3. up \in MakeSteps(p)
      <4>1. Front(top.dir) \in Paths
        BY <1>3, <1>4, <1>5, <2>2, PathShape
      <4>2. /\ top.dir \in Names /\ Depth(top.dir) # 0 /\ p \in Names /\ Front(top.dir) \in Names
        BY <1>3, <4>1, PathShape
      <4>3. IsPrefix(Front(top.dir), top.dir)
        BY <4>2, BelowParent
      <4>4. IsPrefix(Front(top.dir), p)
        BY <1>3, <4>2, <4>3, BelowBelow
      <4> QED BY <4>1, <4>4 DEF MakeSteps
    <3> HIDE DEF again, up
    <3>4. f \in Stacks(p, MakeSteps(p))
      BY <1>3, <3>2, StackAgain
    <3> HIDE DEF f
    <3>5. Append(f, up) \in Stacks(p, MakeSteps(p))
      BY <3>3, <3>4, StackPush
    <3>6. [op EXCEPT !.stack = Append(f, up)] = MakeFrame(p, op.why, Append(f, up))
      <4> DEFINE w == op.why
                 g == Append(f, up)
      <4>1. op = MakeFrame(p, w, s)
        BY <1>3
      <4> HIDE DEF p, s, w, g
      <4>2. [op EXCEPT !.stack = g] = MakeFrame(p, w, g)
        BY <4>1 DEF MakeFrame
      <4> QED BY <4>2 DEF g, w
    <3>7. op' # Idle /\ OpenIn(op') = 0 /\ Fits(op') /\ WriteFits' /\ ResultFits'
      BY <1>3, <3>1, <3>5, <3>6, MakeGoesOn DEF FsInv
    <3> QED BY <3>7
  <2>3. CASE o # "ok" /\ ~(o = "NotFound" /\ ~top.retry)
    <3>1. Continue([op EXCEPT !.why = o])
      BY <1>1, <2>3
    <3>2. [op EXCEPT !.why = o] = MakeFrame(p, o, s)
      <4> DEFINE w == op.why
      <4>1. op = MakeFrame(p, w, s)
        BY <1>3
      <4> HIDE DEF p, s, w
      <4> QED BY <4>1 DEF MakeFrame
    <3>3. o \in ErrorKinds \cup {"none"}
      BY <1>5, <2>3 DEF Ends
    <3>4. op' # Idle /\ OpenIn(op') = 0 /\ Fits(op') /\ WriteFits' /\ ResultFits'
      BY <1>3, <3>1, <3>2, <3>3, MakeGoesOn DEF FsInv
    <3> QED BY <3>4
  <2> QED BY <2>1, <2>2, <2>3
<1>9. FilesFit'
  BY <1>2, <1>3, <1>7, <1>8, SameFiles DEF FsInv
<1>10. CountsFit'
  BY <1>2 DEF FsInv, CountsFit
<1>11. RemovalStep /\ WriteStep
  <2>1. ASSUME NEW q \in Paths, fs[q] # None PROVE fs'[q] # None
    BY <1>1, <1>6, <2>1 DEF Trees
  <2> QED BY <1>2, <2>1 DEF RemovalStep, WriteStep
<1>12. DoneStep
  <2>1. SUFFICES ASSUME op' = Idle PROVE fs'[p].kind = "dir"
    BY <1>2 DEF DoneStep
  <2>2. fs' = [fs EXCEPT ![p] = Dir]
    BY <1>1, <1>8, <2>1
  <2> QED BY <1>3, <1>6, <2>2 DEF Trees
<1>13. RaceStep
  BY <1>8 DEF RaceStep
<1> QED BY <1>8, <1>9, <1>10, <1>11, <1>12, <1>13 DEF FsInv, StepFits

LEMMA CreateAllCheckStep ==
  ASSUME FsInv, CreateAllCheck
  PROVE  FsInv' /\ StepFits
<1> DEFINE p == op.path
           d == Last(op.stack).dir
<1>1. /\ op.fn = "Dir.create_all!" /\ op.why # "none"
      /\ UNCHANGED <<fs, disk, calls, others>>
  BY DEF CreateAllCheck
<1>2. PICK o \in Outcomes(Stat(d)) :
        /\ IF o = "ok" /\ KindOf(d) = "dir" THEN Made(op.stack)
                                            ELSE Return(op.fn, op.path, op.why, {})
        /\ disturbed' = disturbed \cup (IF o = Stat(d) THEN {} ELSE {"refused"})
  BY DEF CreateAllCheck
<1>3. /\ op # Idle /\ OpenIn(op) = 0 /\ p \in Paths
      /\ op.why \in ErrorKinds \cup {"none"} /\ d \in Paths /\ IsPrefix(d, p)
  BY <1>1, MakingIs
<1>4. op.why \in Ends /\ op.why # "ok"
  BY <1>1, <1>3, EndKinds DEF Ends
<1>5. CountsFit'
  BY <1>1, <1>2 DEF FsInv, CountsFit
<1>6. CASE o = "ok" /\ KindOf(d) = "dir"
  <2>1. Made(op.stack)
    BY <1>2, <1>6
  <2>2. /\ OpenIn(op') = 0 /\ Fits(op') /\ WriteFits' /\ ResultFits'
        /\ op' = Idle => d = p /\ ret'.err = "none"
    BY <1>1, <2>1, MadeStep
  <2>3. FilesFit' /\ RemovalStep /\ WriteStep
    BY <1>1, <1>3, <2>2, IdleFiles DEF FsInv
  <2>4. RaceStep
    BY <2>2 DEF RaceStep
  <2>5. DoneStep
    <3>1. SUFFICES ASSUME op' = Idle
                   PROVE  \/ fs'[p].kind = "dir"
                          \/ fs'[p].kind = "link" /\ fs'[fs'[p].target].kind = "dir"
      BY <1>1 DEF DoneStep
    <3>2. fs[Real(p)].kind = "dir"
      BY <1>6, <2>2, <3>1 DEF KindOf
    <3> QED BY <1>1, <3>2 DEF Real
  <2> QED BY <1>5, <2>2, <2>3, <2>4, <2>5 DEF FsInv, StepFits
<1>7. CASE ~(o = "ok" /\ KindOf(d) = "dir")
  <2>1. Return(op.fn, op.path, op.why, {})
    BY <1>2, <1>7
  <2>2. /\ OpenIn(op') = 0 /\ Fits(op') /\ WriteFits' /\ ResultFits' /\ ret'.err = op.why
    BY <1>4, <2>1, Returned
  <2>3. FilesFit' /\ RemovalStep /\ WriteStep
    BY <1>1, <1>3, <2>2, IdleFiles DEF FsInv
  <2>4. DoneStep
    BY <1>1, <2>2 DEF DoneStep
  <2>5. "refused" \notin disturbed' => KindOf(d) # "dir"
    <3>1. SUFFICES ASSUME "refused" \notin disturbed', KindOf(d) = "dir" PROVE FALSE
      OBVIOUS
    <3>2. o = Stat(d)
      BY <1>2, <3>1
    <3>3. fs \in Trees /\ Real(d) \in Paths
      BY <1>3, RealIs DEF FsInv, FilesFit
    <3>4. ASSUME NEW e \in Paths, fs[e].kind # "none" PROVE Lookup(e) = "ok"
      BY <3>3, <3>4, TreeNode, Reachable, LookedUp
    <3>5. fs[d].kind # "none" /\ fs[Real(d)].kind # "none"
      BY <3>1 DEF KindOf, Real
    <3>6. Stat(d) = "ok"
      BY <1>3, <3>3, <3>4, <3>5 DEF Stat
    <3> QED BY <1>7, <3>1, <3>2, <3>6
  <2>6. RaceStep
    BY <1>3, <2>5 DEF RaceStep
  <2> QED BY <1>5, <2>2, <2>3, <2>4, <2>6 DEF FsInv, StepFits
<1> QED BY <1>6, <1>7

-----------------------------------------------------------------------------
(* Dir.delete_all!, which empties a directory before it removes it.          *)
LEMMA RemoveGoesOn ==
  ASSUME ResultFits, NEW p \in Paths, NEW s \in Stacks(p, RemoveSteps(p)),
         Continue(RemoveAllFrame(p, s))
  PROVE  /\ op' # Idle /\ op'.fn = "Dir.delete_all!" /\ op'.path = p
         /\ OpenIn(op') = 0 /\ Fits(op')
         /\ WriteFits' /\ ResultFits'
<1> DEFINE o == RemoveAllFrame(p, s)
<1>1. o.fn = "Dir.delete_all!" /\ o.path = p /\ RemoveFits(o)
  BY RemoveFitsIs DEF RemoveAllFrame
<1> HIDE DEF o
<1>2. Fits(o)
  BY <1>1 DEF Fits
<1>3. Continue(o)
  BY DEF o
<1>4. op' = o /\ op' # Idle /\ OpenIn(op') = 0 /\ WriteFits' /\ ResultFits'
  BY <1>1, <1>3, Continued
<1> QED BY <1>1, <1>2, <1>4

LEMMA FrameIs ==
  ASSUME NEW p \in Paths, NEW d \in Below(p)
  PROVE  Frame(d) \in RemoveSteps(p) /\ Frame(d).dir = d
<1>1. d \in Paths /\ IsPrefix(p, d) /\ p \in Names /\ d \in Names
  BY PathShape DEF Below
<1>2. ASSUME NEW c \in Children(d) PROVE c \in Below(p)
  <2>1. c \in Paths /\ Front(c) = d
    BY <1>2 DEF Children
  <2>2. c \in Names /\ Depth(c) # 0
    BY <2>1, PathShape
  <2>3. IsPrefix(d, c)
    BY <2>1, <2>2, BelowParent
  <2> QED BY <1>1, <2>1, <2>2, <2>3, BelowBelow DEF Below
<1>3. ASSUME NEW c \in Children(d) PROVE Entry(c) \in Listed(p)
  BY <1>2, <1>3 DEF Entry, Listed
<1> DEFINE e == {Entry(c) : c \in Children(d)}
<1>4. e \in SUBSET Listed(p)
  BY <1>3
<1>5. Frame(d) = [dir |-> d, entries |-> e]
  BY DEF Frame
<1> HIDE DEF e
<1> QED BY <1>4, <1>5 DEF RemoveSteps

(* An entry that is no directory is removed, or a directory that is empty. *)
LEMMA TakenAway ==
  ASSUME fs \in Trees, NEW p \in Paths, fs[p].kind = "dir" => Children(p) = {}
  PROVE  /\ [fs EXCEPT ![p] = None] \in Trees
         /\ \A i \in Inodes : Named([fs EXCEPT ![p] = None], i) => Named(fs, i)
         /\ fs[p].kind # "file" =>
              \A i \in Inodes : Named([fs EXCEPT ![p] = None], i) <=> Named(fs, i)
         /\ [fs EXCEPT ![p] = None][p] = None
         /\ \A q \in Paths : q # p => [fs EXCEPT ![p] = None][q] = fs[q]
<1>1. None \in Nodes /\ None.kind = "none" /\ MayHold(None, p)
  BY NodesMade DEF MayHold
<1>2. [fs EXCEPT ![p] = None] \in Trees
  BY <1>1, PutKeepsTree
<1>3. /\ [fs EXCEPT ![p] = None][p] = None
      /\ \A q \in Paths : q # p => [fs EXCEPT ![p] = None][q] = fs[q]
  BY DEF Trees
<1> QED BY <1>1, <1>2, <1>3, PutNames

LEMMA DeleteAllStep ==
  ASSUME FsInv, NEW p \in Paths, hosted_dir_delete_all(p)
  PROVE  FsInv' /\ StepFits
<1>1. /\ Begin /\ disturbed' = {} /\ UNCHANGED others
  BY DEF hosted_dir_delete_all
<1>2. CountsFit' /\ op = Idle /\ OpenIn(op) = 0 /\ DoneStep /\ RaceStep
  BY <1>1, Begun DEF FsInv
<1>3. PICK o \in Outcomes(Lookup(p)) :
       CASE o = "ok" /\ fs[p].kind = "dir"  ->
              Continue(RemoveFrame(p, Frame(p))) /\ UNCHANGED <<fs, disk>>
         [] o = "ok" /\ fs[p].kind = "link" ->
              Return("Dir.delete_all!", p, "ok", {}) /\ Becomes([fs EXCEPT ![p] = None], disk)
         [] o = "ok" /\ fs[p].kind = "file" ->
              Return("Dir.delete_all!", p, "NotADirectory", {}) /\ UNCHANGED <<fs, disk>>
         [] OTHER -> Return("Dir.delete_all!", p, o, {}) /\ UNCHANGED <<fs, disk>>
  BY DEF hosted_dir_delete_all
<1>4. fs \in Trees /\ p \in Names
  BY PathShape DEF FsInv, FilesFit
<1>5. o \in Ends /\ (o = "ok" => Lookup(p) = "ok")
  BY <1>3, PathEnds, EndKinds DEF Outcomes
<1>6. o = "ok" => fs[p].kind \in {"file", "dir", "link"}
  BY <1>4, <1>5, LookedUp, TreeNode, NodeIs
<1>7. CASE o = "ok" /\ fs[p].kind = "dir"
  <2> DEFINE s == <<Frame(p)>>
  <2>1. Continue(RemoveFrame(p, Frame(p))) /\ UNCHANGED <<fs, disk>>
    BY <1>3, <1>7
  <2>2. RemoveFrame(p, Frame(p)) = RemoveAllFrame(p, s)
    BY DEF RemoveFrame, RemoveAllFrame
  <2>3. p \in Below(p)
    BY <1>4, BelowItself DEF Below
  <2>4. Frame(p) \in RemoveSteps(p) /\ Frame(p).dir = p
    BY <2>3, FrameIs
  <2>5. s \in Stacks(p, RemoveSteps(p))
    BY <2>4, StackStart
  <2> HIDE DEF s
  <2>6. Continue(RemoveAllFrame(p, s))
    BY <2>1, <2>2
  <2>7. OpenIn(op') = 0 /\ Fits(op') /\ WriteFits' /\ ResultFits'
    BY <2>5, <2>6, RemoveGoesOn DEF FsInv
  <2>8. FilesFit' /\ RemovalStep /\ WriteStep
    BY <1>2, <2>1, <2>7, IdleFiles DEF FsInv
  <2> QED BY <1>2, <2>7, <2>8 DEF FsInv, StepFits
<1>8. CASE o = "ok" /\ fs[p].kind = "link"
  <2> DEFINE t == [fs EXCEPT ![p] = None]
  <2>1. Return("Dir.delete_all!", p, "ok", {}) /\ Becomes(t, disk)
    BY <1>3, <1>8
  <2>2. op' = Idle /\ OpenIn(op') = 0 /\ Fits(op') /\ WriteFits' /\ ResultFits' /\ ret'.path = p
    BY <2>1, EndKinds, Returned
  <2>3. t \in Trees /\ (\A i \in Inodes : Named(t, i) => Named(fs, i))
        /\ \A q \in Paths : q # p => t[q] = fs[q]
    BY <1>4, <1>8, TakenAway
  <2> HIDE DEF t
  <2>4. /\ FilesFit' /\ fs' = t
        /\ \A i \in Inodes : Named(t, i) \/ i = OpenIn(op') => disk'[i] = disk[i]
    BY <2>1, <2>2, <2>3, Becoming DEF FsInv
  <2>5. RemovalStep
    <3>1. p \in Below(p)
      BY <1>4, BelowItself DEF Below
    <3> QED BY <1>2, <2>2, <2>3, <2>4, <3>1 DEF RemovalStep, CallPath
  <2>6. WriteStep
    BY <2>4 DEF WriteStep
  <2> QED BY <1>2, <2>2, <2>4, <2>5, <2>6 DEF FsInv, StepFits
<1>9. ASSUME NEW e \in Ends, Return("Dir.delete_all!", p, e, {}), UNCHANGED <<fs, disk>>
      PROVE  FsInv' /\ StepFits
  <2>1. OpenIn(op') = 0 /\ Fits(op') /\ WriteFits' /\ ResultFits'
    BY <1>9, Returned
  <2>2. FilesFit' /\ RemovalStep /\ WriteStep
    BY <1>2, <1>9, <2>1, IdleFiles DEF FsInv
  <2> QED BY <1>2, <2>1, <2>2 DEF FsInv, StepFits
<1>10. CASE o = "ok" /\ fs[p].kind = "file"
  <2>1. Return("Dir.delete_all!", p, "NotADirectory", {}) /\ UNCHANGED <<fs, disk>>
    BY <1>3, <1>10
  <2> QED BY <1>9, <2>1, EndKinds
<1>11. CASE o # "ok"
  <2>1. Return("Dir.delete_all!", p, o, {}) /\ UNCHANGED <<fs, disk>>
    BY <1>3, <1>11
  <2> QED BY <1>5, <1>9, <2>1
<1> QED BY <1>6, <1>7, <1>8, <1>10, <1>11

LEMMA RemovingIs ==
  ASSUME FsInv, op.fn = "Dir.delete_all!"
  PROVE  /\ op = RemoveAllFrame(op.path, op.stack) /\ op # Idle /\ OpenIn(op) = 0
         /\ op.path \in Paths /\ op.stack \in Stacks(op.path, RemoveSteps(op.path))
         /\ Len(op.stack) \in Nat \ {0} /\ Last(op.stack) \in RemoveSteps(op.path)
         /\ Last(op.stack).dir \in Below(op.path)
         /\ Last(op.stack).entries \subseteq Listed(op.path)
         /\ Len(op.stack) = 1 => Last(op.stack).dir = op.path
<1>1. RemoveFits(op)
  BY DEF FsInv, Fits
<1>2. /\ op = RemoveAllFrame(op.path, op.stack)
      /\ op.path \in Paths /\ op.stack \in Stacks(op.path, RemoveSteps(op.path))
  BY <1>1 DEF RemoveFits
<1>3. /\ Len(op.stack) \in Nat \ {0} /\ Last(op.stack) \in RemoveSteps(op.path)
      /\ Len(op.stack) = 1 => Last(op.stack).dir = op.path
  BY <1>2, StackTop
<1>4. Last(op.stack).dir \in Below(op.path) /\ Last(op.stack).entries \subseteq Listed(op.path)
  BY <1>3 DEF RemoveSteps
<1>5. op # Idle /\ OpenIn(op) = 0
  BY DEF Idle, OpenIn
<1> QED BY <1>2, <1>3, <1>4, <1>5

LEMMA DeleteAllEntryStep ==
  ASSUME FsInv, DeleteAllEntry
  PROVE  FsInv' /\ StepFits
<1> DEFINE p == op.path
           s == op.stack
           Rest(e) == [op EXCEPT !.stack[Len(op.stack)].entries = @ \ {e}]
<1>1. op.fn = "Dir.delete_all!" /\ UNCHANGED <<disturbed, calls, others>>
  BY DEF DeleteAllEntry
<1>2. PICK e \in Last(s).entries : \E o \in Outcomes(EntryOutcome(e)) :
             CASE o = "ok" /\ Descend(e)  ->
                    /\ Continue([Rest(e) EXCEPT !.stack = Append(@, Frame(Real(e.path)))])
                    /\ UNCHANGED <<fs, disk>>
               [] o = "ok" /\ ~Descend(e) ->
                    Continue(Rest(e)) /\ Becomes([fs EXCEPT ![e.path] = None], disk)
               [] o = "NotFound"          -> Continue(Rest(e)) /\ UNCHANGED <<fs, disk>>
               [] OTHER -> Return(op.fn, op.path, o, {}) /\ UNCHANGED <<fs, disk>>
  BY DEF DeleteAllEntry
<1> DEFINE rest == Rest(e)
           q == e.path
<1>3. PICK o \in Outcomes(EntryOutcome(e)) :
             CASE o = "ok" /\ Descend(e)  ->
                    /\ Continue([rest EXCEPT !.stack = Append(@, Frame(Real(q)))])
                    /\ UNCHANGED <<fs, disk>>
               [] o = "ok" /\ ~Descend(e) ->
                    Continue(rest) /\ Becomes([fs EXCEPT ![q] = None], disk)
               [] o = "NotFound"          -> Continue(rest) /\ UNCHANGED <<fs, disk>>
               [] OTHER -> Return(op.fn, op.path, o, {}) /\ UNCHANGED <<fs, disk>>
  BY <1>2
<1>4. /\ op = RemoveAllFrame(p, s) /\ op # Idle /\ OpenIn(op) = 0
      /\ p \in Paths /\ s \in Stacks(p, RemoveSteps(p))
      /\ Last(s) \in RemoveSteps(p) /\ Last(s).entries \subseteq Listed(p)
  BY <1>1, RemovingIs
<1>5. q \in Below(p) /\ q \in Paths /\ fs \in Trees
  BY <1>2, <1>4 DEF Listed, Below, FsInv, FilesFit
<1>6. /\ o \in Ends
      /\ o = "ok" /\ ~Descend(e) => fs[q].kind # "dir"
  <2>1. EntryOutcome(e) \in {"ok", "NotFound", "IsADirectory"}
    BY DEF EntryOutcome
  <2>2. o \in Ends /\ (o = "ok" => EntryOutcome(e) = "ok")
    BY <1>3, <2>1, EndKinds DEF Outcomes
  <2>3. EntryOutcome(e) = "ok" => e.dir \/ fs[q].kind # "dir"
    BY DEF EntryOutcome
  <2> QED BY <2>2, <2>3 DEF Descend
<1> HIDE DEF q
<1> DEFINE x == [Last(s) EXCEPT !.entries = @ \ {e}]
           s2 == [s EXCEPT ![Len(s)] = x]
<1>7. x \in RemoveSteps(p) /\ x.dir = Last(s).dir
  <2> DEFINE l == Last(s)
  <2>1. l \in RemoveSteps(p)
    BY <1>4
  <2> HIDE DEF l
  <2>2. [l EXCEPT !.entries = @ \ {e}] \in RemoveSteps(p)
        /\ [l EXCEPT !.entries = @ \ {e}].dir = l.dir
    BY <2>1 DEF RemoveSteps
  <2> QED BY <2>2 DEF l
<1>8. s2 \in Stacks(p, RemoveSteps(p))
  <2> HIDE DEF x
  <2> QED BY <1>4, <1>7, StackAgain
<1>9. rest = RemoveAllFrame(p, s2)
  <2>1. rest = [op EXCEPT !.stack = [s EXCEPT ![Len(s)] = [s[Len(s)] EXCEPT !.entries = @ \ {e}]]]
    BY <1>4 DEF RemoveAllFrame
  <2>2. x = [s[Len(s)] EXCEPT !.entries = @ \ {e}]
    BY DEF Last
  <2>3. rest = [op EXCEPT !.stack = s2]
    BY <2>1, <2>2
  <2> HIDE DEF s, s2, p, rest
  <2> QED BY <1>4, <2>3 DEF RemoveAllFrame
<1> HIDE DEF Rest, rest, s2, x
<1>10. CountsFit'
  BY <1>1 DEF FsInv, CountsFit
<1>11. RaceStep
  BY <1>1 DEF RaceStep
<1>12. ASSUME OpenIn(op') = 0, Fits(op'), WriteFits', ResultFits', UNCHANGED <<fs, disk>>,
              op' # Idle \/ ret'.err # "none"
       PROVE  FsInv' /\ StepFits
  <2>1. FilesFit' /\ RemovalStep /\ WriteStep
    BY <1>4, <1>12, IdleFiles DEF FsInv
  <2>2. DoneStep
    BY <1>1, <1>12 DEF DoneStep
  <2> QED BY <1>10, <1>11, <1>12, <2>1, <2>2 DEF FsInv, StepFits
<1>13. CASE o = "ok" /\ Descend(e)
  <2>1. Continue([rest EXCEPT !.stack = Append(@, Frame(Real(q)))]) /\ UNCHANGED <<fs, disk>>
    BY <1>3, <1>13
  <2>2. Real(q) = q
    BY <1>5, <1>13, RealIs DEF Descend, q
  <2> DEFINE f == Frame(Real(q))
             s3 == Append(s2, f)
  <2>3. f \in RemoveSteps(p)
    BY <1>4, <1>5, <2>2, FrameIs
  <2> HIDE DEF f
  <2>4. s3 \in Stacks(p, RemoveSteps(p))
    BY <1>8, <2>3, StackPush
  <2>5. [rest EXCEPT !.stack = Append(@, f)] = RemoveAllFrame(p, s3)
    <3> HIDE DEF p
    <3> QED BY <1>9, SMTT(30) DEF RemoveAllFrame
  <2> HIDE DEF s3
  <2>6. Continue(RemoveAllFrame(p, s3))
    BY <2>1, <2>5 DEF f
  <2>7. op' # Idle /\ OpenIn(op') = 0 /\ Fits(op') /\ WriteFits' /\ ResultFits'
    BY <1>4, <2>4, <2>6, RemoveGoesOn DEF FsInv
  <2> QED BY <1>12, <2>1, <2>7
<1>14. ASSUME Continue(rest)
       PROVE  op' # Idle /\ OpenIn(op') = 0 /\ Fits(op') /\ WriteFits' /\ ResultFits'
  BY <1>4, <1>8, <1>9, <1>14, RemoveGoesOn DEF FsInv
<1>15. CASE o = "ok" /\ ~Descend(e)
  <2> DEFINE t == [fs EXCEPT ![q] = None]
  <2>1. Continue(rest) /\ Becomes(t, disk)
    BY <1>3, <1>15
  <2>2. t \in Trees /\ (\A i \in Inodes : Named(t, i) => Named(fs, i))
        /\ \A r \in Paths : r # q => t[r] = fs[r]
    BY <1>5, <1>6, <1>15, TakenAway
  <2> HIDE DEF t
  <2>3. op' # Idle /\ OpenIn(op') = 0 /\ Fits(op') /\ WriteFits' /\ ResultFits'
    BY <1>14, <2>1
  <2>4. /\ FilesFit' /\ fs' = t
        /\ \A i \in Inodes : Named(t, i) \/ i = OpenIn(op') => disk'[i] = disk[i]
    BY <2>1, <2>2, <2>3, Becoming DEF FsInv
  <2>5. RemovalStep
    BY <1>4, <1>5, <2>2, <2>4 DEF RemovalStep, CallPath
  <2>6. WriteStep /\ DoneStep
    BY <2>3, <2>4 DEF WriteStep, DoneStep
  <2> QED BY <1>10, <1>11, <2>3, <2>4, <2>5, <2>6 DEF FsInv, StepFits
<1>16. CASE o = "NotFound"
  <2>1. Continue(rest) /\ UNCHANGED <<fs, disk>>
    BY <1>3, <1>16
  <2> QED BY <1>12, <1>14, <2>1
<1>17. CASE o # "ok" /\ o # "NotFound"
  <2>1. Return(op.fn, op.path, o, {}) /\ UNCHANGED <<fs, disk>>
    BY <1>3, <1>17
  <2>2. OpenIn(op') = 0 /\ Fits(op') /\ WriteFits' /\ ResultFits' /\ ret'.err = o
    BY <1>1, <1>6, <1>17, <2>1, Returned
  <2>3. o # "none"
    BY <1>6, EndKinds DEF Ends
  <2> QED BY <1>12, <2>1, <2>2, <2>3
<1> QED BY <1>13, <1>15, <1>16, <1>17

LEMMA DeleteAllRmdirStep ==
  ASSUME FsInv, DeleteAllRmdir
  PROVE  FsInv' /\ StepFits
<1> DEFINE p == op.path
           s == op.stack
           d == Last(s).dir
           t == [fs EXCEPT ![d] = None]
<1>1. /\ op.fn = "Dir.delete_all!" /\ UNCHANGED <<disk, disturbed, calls, others>>
  BY DEF DeleteAllRmdir
<1>2. PICK o \in Outcomes(RmdirOutcome(s)) :
       /\ fs' = IF o = "ok" THEN t ELSE fs
       /\ IF o \notin {"ok", "NotFound"} THEN Return(op.fn, op.path, o, {})
          ELSE IF Len(s) > 1 THEN Continue([op EXCEPT !.stack = Front(s)])
                             ELSE Return(op.fn, op.path, "ok", {})
  BY DEF DeleteAllRmdir
<1>3. /\ op = RemoveAllFrame(p, s) /\ op # Idle /\ OpenIn(op) = 0
      /\ p \in Paths /\ s \in Stacks(p, RemoveSteps(p)) /\ Len(s) \in Nat \ {0}
      /\ d \in Below(p) /\ (Len(s) = 1 => d = p)
  BY <1>1, RemovingIs
<1>4. d \in Paths /\ IsPrefix(p, d) /\ fs \in Trees
  BY <1>3 DEF Below, FsInv, FilesFit
<1>5. /\ o \in Ends
      /\ o = "ok" => Lookup(d) = "ok" /\ fs[d].kind = "dir" /\ Children(d) = {}
      /\ o = "NotFound" => fs[d] = None
  <2>1. Rmdir(d) = "NotFound" => fs[d] = None
    <3>1. Rmdir(d) = "NotFound" => Lookup(d) # "ok"
      BY DEF Rmdir
    <3>2. fs[d] # None => Lookup(d) = "ok"
      BY <1>4, TreeNode, Reachable, LookedUp
    <3> QED BY <3>1, <3>2
  <2>2. /\ RmdirOutcome(s) \in Ends
        /\ RmdirOutcome(s) = "ok" => Rmdir(d) = "ok"
        /\ RmdirOutcome(s) = "NotFound" => fs[d] = None
    BY <1>4, <2>1, PathEnds, EndKinds DEF RmdirOutcome
  <2>3. o \in Ends /\ (o \in {"ok", "NotFound"} => RmdirOutcome(s) = o)
    BY <1>2, <2>2, EndKinds DEF Outcomes
  <2> QED BY <1>4, <2>2, <2>3, PathEnds
<1>6. o = "ok" => /\ t \in Trees /\ \A i \in Inodes : Named(t, i) <=> Named(fs, i)
                  /\ t[d] = None /\ \A q \in Paths : q # d => t[q] = fs[q]
  BY <1>4, <1>5, TakenAway
<1> HIDE DEF t
<1>7. fs' \in Trees /\ \A i \in Inodes : Named(fs', i) <=> Named(fs, i)
  BY <1>2, <1>4, <1>6
<1>8. /\ OpenIn(op') = 0 /\ Fits(op') /\ WriteFits' /\ ResultFits'
      /\ op' = Idle /\ ret'.err = "none" => o \in {"ok", "NotFound"} /\ d = p
  <2>1. CASE o \in {"ok", "NotFound"} /\ Len(s) > 1
    <3> DEFINE f == Front(s)
    <3>1. Continue([op EXCEPT !.stack = f])
      BY <1>2, <2>1
    <3>2. f \in Stacks(p, RemoveSteps(p))
      <4>1. ~(1 > 1)
        OBVIOUS
      <4>2. Len(s) # 1
        BY <2>1, <4>1, Zenon
      <4> QED BY <1>3, <4>2, StackPop
    <3>3. [op EXCEPT !.stack = f] = RemoveAllFrame(p, f)
      <4> HIDE DEF p, s, f
      <4> QED BY <1>3 DEF RemoveAllFrame
    <3> HIDE DEF f
    <3>4. op' # Idle /\ OpenIn(op') = 0 /\ Fits(op') /\ WriteFits' /\ ResultFits'
      BY <1>3, <3>1, <3>2, <3>3, RemoveGoesOn DEF FsInv
    <3> QED BY <3>4
  <2>2. CASE o \in {"ok", "NotFound"} /\ ~(Len(s) > 1)
    <3>1. Return(op.fn, op.path, "ok", {})
      BY <1>2, <2>2
    <3>2. OpenIn(op') = 0 /\ Fits(op') /\ WriteFits' /\ ResultFits'
      BY <3>1, EndKinds, Returned
    <3>3. Len(s) = 1
      <4> DEFINE n == Len(s)
      <4>1. n \in Nat \ {0} /\ ~(n > 1)
        BY <1>3, <2>2
      <4> HIDE DEF n
      <4>2. n = 1
        BY <4>1
      <4> QED BY <4>2 DEF n
    <3> QED BY <1>3, <2>2, <3>2, <3>3
  <2>3. CASE o \notin {"ok", "NotFound"}
    <3>1. Return(op.fn, op.path, o, {})
      BY <1>2, <2>3
    <3>2. OpenIn(op') = 0 /\ Fits(op') /\ WriteFits' /\ ResultFits' /\ ret'.err = o
      BY <1>5, <2>3, <3>1, Returned
    <3>3. o # "none"
      BY <1>5, EndKinds DEF Ends
    <3> QED BY <3>2, <3>3
  <2> QED BY <2>1, <2>2, <2>3
<1>9. FilesFit'
  BY <1>1, <1>3, <1>7, <1>8, SameFiles DEF FsInv
<1>10. CountsFit' /\ RaceStep
  BY <1>1 DEF FsInv, CountsFit, RaceStep
<1>11. RemovalStep
  <2>1. ASSUME NEW q \in Paths, fs[q] # None, fs'[q] = None PROVE q = d
    BY <1>2, <1>6, <2>1
  <2> QED BY <1>3, <2>1 DEF RemovalStep, CallPath
<1>12. WriteStep
  BY <1>1 DEF WriteStep
<1>13. DoneStep
  <2>1. SUFFICES ASSUME op' = Idle, ret'.err = "none", NEW q \in Below(p)
                 PROVE  fs'[q] = None
    BY <1>1 DEF DoneStep
  <2>2. o \in {"ok", "NotFound"} /\ d = p /\ fs' = IF o = "ok" THEN t ELSE fs
    BY <1>2, <1>8, <2>1
  <2>3. CASE q = p
    BY <1>5, <1>6, <2>2, <2>3
  <2>4. CASE q # p
    <3>1. Children(d) = {}
      BY <1>4, <1>5, <2>2, NothingBelowNone DEF None
    <3>2. fs[q] = None /\ q \in Paths
      BY <1>4, <2>1, <2>2, <2>4, <3>1, EmptyBelow DEF Below
    <3> QED BY <1>6, <2>2, <2>4, <3>2
  <2> QED BY <2>3, <2>4
<1> QED BY <1>8, <1>9, <1>10, <1>11, <1>12, <1>13 DEF FsInv, StepFits

-----------------------------------------------------------------------------
(* The other process. It may take away the name of the file that a write has
   open, and the write goes on into a file without a name.                   *)
LEMMA ForeignFiles ==
  ASSUME NEW d \in Contents
  PROVE  Stored(d, Foreign) \in Stores /\ Stored(d, Foreign).time # 0
<1>1. d \in Texts /\ Foreign \in [mode : SUBSET {"read", "write", "execute"}, time : Int]
      /\ Foreign.time # 0
  BY FileSystemAssumption DEF Texts
<1> QED BY <1>1 DEF Stored, Stores

LEMMA CreatedFile ==
  ASSUME FsInv, NEW p \in Paths, NEW d \in Contents, Reach(p) = "ok", fs[p] = None,
         op' = op,
         fs' = [fs EXCEPT ![p] = File(NewIno)],
         disk' = [disk EXCEPT ![NewIno] = Stored(d, Foreign)]
  PROVE  /\ FilesFit'
         /\ \A i \in Inodes : i = OpenIn(op) => disk'[i] = disk[i]
<1> DEFINE i == NewIno
           t == [fs EXCEPT ![p] = File(i)]
<1>1. fs \in Trees /\ fs[p].kind = "none" /\ disk \in [Inodes -> Stores]
  BY DEF None, FsInv, FilesFit
<1>2. i \in Inodes /\ ~Named(fs, i) /\ i # OpenIn(op)
  BY <1>1, NewInoIsFree
<1> HIDE DEF i
<1>3. File(i) \in Nodes /\ File(i).kind = "file" /\ File(i).ino = i /\ MayHold(File(i), p)
  BY <1>2, NodesMade DEF MayHold
<1>4. t \in Trees
  BY <1>1, <1>3, PutKeepsTree
<1>5. t[p] = File(i) /\ \A r \in Paths : r # p => t[r] = fs[r]
  BY <1>1 DEF Trees
<1> HIDE DEF t
<1>6. fs' = t
  BY DEF t, i
<1>7. Stored(d, Foreign) \in Stores /\ Stored(d, Foreign).time # 0
  BY ForeignFiles
<1>8. disk' = [disk EXCEPT ![i] = Stored(d, Foreign)]
  BY DEF i
<1>9. /\ disk' \in [Inodes -> Stores] /\ disk'[i] = Stored(d, Foreign)
      /\ \A j \in Inodes : j # i => disk'[j] = disk[j]
  BY <1>1, <1>2, <1>7, <1>8
<1>10. ASSUME NEW j \in Inodes, j # i PROVE Named(t, j) <=> Named(fs, j)
  <2>1. Named(t, j) => Named(fs, j)
    BY <1>3, <1>5, <1>10 DEF Named
  <2>2. Named(fs, j) => Named(t, j)
    BY <1>1, <1>5 DEF Named
  <2> QED BY <2>1, <2>2
<1>11. Named(t, i)
  BY <1>3, <1>5 DEF Named
<1>12. ASSUME NEW j \in Inodes
       PROVE  IF Named(fs', j) \/ j = OpenIn(op') THEN disk'[j].time # 0 ELSE disk'[j] = Blank
  <2>1. CASE j = i
    BY <1>6, <1>7, <1>9, <1>11, <2>1
  <2>2. CASE j # i
    <3>1. IF Named(fs, j) \/ j = OpenIn(op) THEN disk[j].time # 0 ELSE disk[j] = Blank
      BY DEF FsInv, FilesFit
    <3> QED BY <1>6, <1>9, <1>10, <2>2, <3>1
  <2> QED BY <2>1, <2>2
<1>13. FilesFit'
  BY <1>4, <1>6, <1>9, <1>12 DEF FilesFit
<1> QED BY <1>2, <1>9, <1>13

(* Whatever it does, it leaves the call in progress and its file alone. *)
LEMMA DisturbStep ==
  ASSUME FsInv, Disturb, FilesFit',
         \A i \in Inodes : i = OpenIn(op) => disk'[i] = disk[i]
  PROVE  FsInv' /\ StepFits
<1>1. /\ others < MaxOther /\ others' = others + 1
      /\ disturbed' = disturbed \cup {"other"} /\ UNCHANGED <<op, ret, calls>>
  BY DEF Disturb
<1>2. others' # others /\ CountsFit' /\ disturbed' # {}
  <2>1. disturbed' \subseteq {"other", "refused"} /\ disturbed' # {}
    BY <1>1 DEF FsInv, CountsFit
  <2>2. others \in 0..MaxOther /\ MaxOther \in Nat
    BY FileSystemAssumption DEF FsInv, CountsFit
  <2>3. others' \in 0..MaxOther /\ others' # others
    BY <1>1, <2>2
  <2>4. calls' \in 0..MaxCalls
    BY <1>1 DEF FsInv, CountsFit
  <2> QED BY <2>1, <2>3, <2>4 DEF CountsFit
<1>3. RemovalStep /\ WriteStep
  BY <1>2 DEF RemovalStep, WriteStep
<1>4. DoneStep /\ RaceStep
  BY <1>1 DEF DoneStep, RaceStep
<1>5. ResultFits' /\ Fits(op')
  BY <1>1 DEF FsInv, ResultFits
<1>6. WriteFits'
  <2>1. SUFFICES ASSUME op.fn = "File.write!"
                 PROVE  disk'[op.ino].data = First(op.data, op.done)
    BY <1>1, <1>2 DEF WriteFits
  <2>2. op.ino \in Inodes /\ OpenIn(op) = op.ino /\ disk[op.ino].data = First(op.data, op.done)
    BY <2>1, WritingIs DEF WriteFrames
  <2> QED BY <2>2
<1> QED BY <1>2, <1>3, <1>4, <1>5, <1>6 DEF FsInv, StepFits

(* It rearranges the names of the files there are. *)
LEMMA DisturbNames ==
  ASSUME FsInv, Disturb, NEW tree \in Trees, Becomes(tree, disk),
         \A i \in Inodes : Named(tree, i) => Named(fs, i)
  PROVE  FsInv' /\ StepFits
<1>1. OpenIn(op') = OpenIn(op) /\ OpenIn(op') \in {0, OpenIn(op)}
  BY DEF Disturb
<1>2. /\ FilesFit'
      /\ \A i \in Inodes : Named(tree, i) \/ i = OpenIn(op') => disk'[i] = disk[i]
  BY <1>1, Becoming DEF FsInv
<1> QED BY <1>1, <1>2, DisturbStep

LEMMA OtherStep ==
  ASSUME FsInv, NEW p \in Paths, NEW d, NEW node,
         \/ node \in {None, Dir} \cup {Link(t) : t \in Targets}
         \/ node = File(0) /\ d \in Contents,
         Other(p, node, d)
  PROVE  FsInv' /\ StepFits
<1>1. Disturb /\ op' = op /\ MayHold(node, p) /\ Created(p, node, d)
  BY DEF Other, Disturb
<1>2. \/ node # None /\ Reach(p) = "ok" /\ fs[p] = None
      \/ node = None /\ fs[p] # None /\ Children(p) = {}
  BY DEF Other
<1>3. CASE node = File(0) /\ d \in Contents
  <2>1. node.kind = "file" /\ node # None
    BY <1>3 DEF File, None
  <2>2. fs' = [fs EXCEPT ![p] = File(NewIno)]
        /\ disk' = [disk EXCEPT ![NewIno] = Stored(d, Foreign)]
    BY <1>1, <2>1 DEF Created
  <2>3. Reach(p) = "ok" /\ fs[p] = None /\ op' = op /\ d \in Contents
    BY <1>1, <1>2, <1>3, <2>1
  <2>4. FilesFit' /\ \A i \in Inodes : i = OpenIn(op) => disk'[i] = disk[i]
    BY <2>2, <2>3, CreatedFile
  <2> QED BY <1>1, <2>4, DisturbStep
<1>4. CASE node \in {None, Dir} \cup {Link(t) : t \in Targets}
  <2> DEFINE t == [fs EXCEPT ![p] = node]
  <2>1. node \in Nodes /\ node.kind # "file" /\ (node.kind = "none" <=> node = None)
    BY <1>4 DEF Nodes, None, Dir, Link
  <2>2. Becomes(t, disk)
    BY <1>1, <2>1 DEF Created
  <2>3. fs \in Trees /\ None.kind = "none"
    BY NodesMade DEF FsInv, FilesFit
  <2>4. t \in Trees
    BY <1>1, <1>2, <2>1, <2>3, PutKeepsTree
  <2>5. \A i \in Inodes : Named(t, i) => Named(fs, i)
    BY <2>1, <2>3, PutNames
  <2> HIDE DEF t
  <2> QED BY <1>1, <2>2, <2>4, <2>5, DisturbNames
<1> QED BY <1>3, <1>4

LEMMA OtherRenamesStep ==
  ASSUME FsInv, NEW p \in Paths, NEW q \in Paths, OtherRenames(p, q)
  PROVE  FsInv' /\ StepFits
<1> DEFINE t == Renamed(p, q)
<1>1. Disturb /\ fs[p].kind = "file" /\ RenameOutcome(p, q) = "ok" /\ Becomes(t, disk)
  BY DEF OtherRenames
<1>2. fs \in Trees
  BY DEF FsInv, FilesFit
<1>3. ASSUME NEW r \in Below(p), fs[r] # None
      PROVE  Moved(r, p, q) \in Paths /\ MayHold(fs[r], Moved(r, p, q))
  <2>1. r = p
    BY <1>1, <1>2, <1>3, NothingBelowNone, EmptyBelow
  <2>2. Moved(p, p, q) = q
    BY PathShape, MovedHere
  <2> QED BY <1>1, <2>1, <2>2 DEF MayHold
<1>4. /\ t \in Trees
      /\ \A r \in Paths : t[r] = None \/ \E s \in Paths : t[r] = fs[s]
  BY <1>1, <1>2, <1>3, RenamedTree
<1> HIDE DEF t
<1>5. \A i \in Inodes : Named(t, i) => Named(fs, i)
  BY <1>4, SameNames
<1> QED BY <1>1, <1>4, <1>5, DisturbNames

LEMMA OtherLinksStep ==
  ASSUME FsInv, NEW p \in Paths, NEW q \in Paths, OtherLinks(p, q)
  PROVE  FsInv' /\ StepFits
<1> DEFINE t == [fs EXCEPT ![q] = fs[p]]
<1>1. Disturb /\ fs[p].kind = "file" /\ LinkOutcome(p, q) = "ok" /\ Becomes(t, disk)
  BY DEF OtherLinks
<1>2. fs \in Trees /\ fs[p] \in Nodes
  BY TreeNode DEF FsInv, FilesFit
<1>3. Reach(q) = "ok" /\ fs[q].kind = "none" /\ MayHold(fs[p], q)
  BY <1>1, TwoPathEnds, PathEnds DEF MayHold
<1>4. t \in Trees
  BY <1>2, <1>3, PutKeepsTree
<1>5. \A i \in Inodes : Named(t, i) => Named(fs, i)
  BY <1>2, PutNames
<1> HIDE DEF t
<1> QED BY <1>1, <1>4, <1>5, DisturbNames

-----------------------------------------------------------------------------
(* Every step keeps the invariant and does what the action properties say.   *)
LEMMA InitialFiles ==
  Init => FsInv
<1> SUFFICES ASSUME Init PROVE FsInv
  OBVIOUS
<1>1. /\ fs \in Start /\ op = Idle /\ ret = NoResult
      /\ disturbed = {} /\ calls = 0 /\ others = 0
  BY DEF Init
<1>2. PICK d \in Contents :
        disk = [i \in Inodes |-> IF Named(fs, i) THEN Stored(d, Foreign) ELSE Blank]
  BY DEF Init
<1>3. fs \in Trees
  <2>1. IsTree(fs)
    BY <1>1, StartAssumption
  <2>2. \A p \in Paths : Depth(p) \in Nat \ {0}
    BY PathShape
  <2>3. ASSUME NEW p \in Paths, fs[p] # None, Depth(p) # 1 PROVE fs[Front(p)].kind = "dir"
    <3>1. Len(p) > 1
      <4> DEFINE n == Len(p)
      <4>1. n \in Nat \ {0} /\ n # 1
        BY <2>2, <2>3 DEF Depth
      <4> HIDE DEF n
      <4>2. n > 1
        BY <4>1
      <4> QED BY <4>2 DEF n
    <3> QED BY <2>1, <2>3, <3>1, NodesMade DEF IsTree
  <2> QED BY <2>1, <2>3 DEF IsTree, Trees, Nodes
<1>4. op.fn = "none" /\ OpenIn(op) = 0
  BY <1>1 DEF Idle, OpenIn
<1>5. FilesFit
  <2>1. Stored(d, Foreign) \in Stores /\ Stored(d, Foreign).time # 0
    BY <1>2, ForeignFiles
  <2>2. disk \in [Inodes -> Stores]
    BY <1>2, <2>1, BlankIs
  <2>3. ASSUME NEW i \in Inodes
        PROVE  IF Named(fs, i) \/ i = OpenIn(op) THEN disk[i].time # 0 ELSE disk[i] = Blank
    BY <1>2, <1>4, <2>1, InodesAre
  <2> QED BY <1>3, <2>2, <2>3 DEF FilesFit
<1>6. Fits(op) /\ WriteFits
  BY <1>4 DEF Fits, WriteFits
<1>7. ResultFits
  BY <1>1 DEF ResultFits, NoResult
<1>8. CountsFit
  BY <1>1, FileSystemAssumption DEF CountsFit
<1> QED BY <1>5, <1>6, <1>7, <1>8 DEF FsInv

LEMMA EveryStepFits ==
  ASSUME FsInv, [Next]_vars
  PROVE  FsInv' /\ StepFits
<1>1. CASE UNCHANGED vars
  <2>1. UNCHANGED <<fs, disk, op, ret, disturbed, calls, others>>
    BY <1>1 DEF vars
  <2>2. FilesFit' /\ RemovalStep /\ WriteStep
    BY <2>1, IdleFiles DEF FsInv
  <2>3. Fits(op') /\ ResultFits' /\ CountsFit'
    BY <2>1 DEF FsInv, ResultFits, CountsFit
  <2>4. WriteFits'
    BY <2>1 DEF FsInv, WriteFits, Real
  <2>5. DoneStep /\ RaceStep
    BY <2>1 DEF DoneStep, RaceStep
  <2> QED BY <2>2, <2>3, <2>4, <2>5 DEF FsInv, StepFits
<1>2. ASSUME NEW p \in Paths,
             \/ hosted_dir_create(p) \/ hosted_dir_create_all(p)
             \/ hosted_dir_delete_all(p) \/ hosted_dir_delete_empty(p) \/ hosted_dir_list(p)
             \/ hosted_file_delete(p) \/ hosted_file_read_bytes(p) \/ hosted_file_read_utf8(p)
             \/ hosted_path_is_dir(p) \/ hosted_path_is_file(p) \/ hosted_path_is_sym_link(p)
             \/ \E d \in Contents : hosted_file_write(p, d)
             \/ \E n \in {None, Dir} \cup {Link(t) : t \in Targets} : Other(p, n, <<>>)
             \/ \E d \in Contents : Other(p, File(0), d)
             \/ \E q \in Paths : OtherRenames(p, q) \/ OtherLinks(p, q)
             \/ LegacyFile(p) \/ path_type(p) \/ dir_list(p)
             \/ \E q \in Paths : hard_link(p, q)
      PROVE  FsInv' /\ StepFits
  <2>1. CASE hosted_dir_create(p) \/ hosted_dir_delete_empty(p) \/ hosted_file_delete(p)
    BY <2>1, DirCreateStep, DeleteEmptyStep, FileDeleteStep
  <2>2. CASE hosted_dir_create_all(p) \/ hosted_dir_delete_all(p) \/ dir_list(p)
    BY <2>2, CreateAllStep, DeleteAllStep, DirListStep
  <2>3. CASE \/ hosted_dir_list(p)
             \/ hosted_file_read_bytes(p) \/ hosted_file_read_utf8(p)
             \/ hosted_path_is_dir(p) \/ hosted_path_is_file(p) \/ hosted_path_is_sym_link(p)
             \/ path_type(p)
    BY <2>3, LookingSteps
  <2>4. CASE \E d \in Contents : hosted_file_write(p, d)
    BY <2>4, FileWriteStep
  <2>5. CASE \E n \in {None, Dir} \cup {Link(t) : t \in Targets} : Other(p, n, <<>>)
    BY <2>5, OtherStep
  <2>6. CASE \E d \in Contents : Other(p, File(0), d)
    BY <2>6, OtherStep
  <2>7. CASE LegacyFile(p)
    <3>1. CASE \E q \in Paths : file_rename(p, q)
      BY <3>1, RenameStep
    <3>2. CASE file_time(p)
      BY <3>2, FileTimeStep
    <3>3. CASE \/ file_exists(p) \/ file_size_in_bytes(p)
               \/ \E bit \in {"read", "write", "execute"} : file_is(p, bit)
      BY <3>3, LookingSteps
    <3> QED BY <2>7, <3>1, <3>2, <3>3 DEF LegacyFile
  <2>8. CASE \E q \in Paths : hard_link(p, q)
    BY <2>8, HardLinkStep
  <2>9. CASE \E q \in Paths : OtherRenames(p, q) \/ OtherLinks(p, q)
    BY <2>9, OtherRenamesStep, OtherLinksStep
  <2> QED BY <1>2, <2>1, <2>2, <2>3, <2>4, <2>5, <2>6, <2>7, <2>8, <2>9
<1>3. CASE WriteSome \/ WriteFails \/ WriteReturns
  BY <1>3, WriteSomeStep, WriteFailsStep, WriteReturnsStep
<1>4. CASE CreateAllMkdir \/ CreateAllCheck
  BY <1>4, CreateAllMkdirStep, CreateAllCheckStep
<1>5. CASE DeleteAllEntry \/ DeleteAllRmdir
  BY <1>5, DeleteAllEntryStep, DeleteAllRmdirStep
<1>6. CASE DirListReads
  BY <1>6, DirListReadsStep
<1> QED BY <1>1, <1>2, <1>3, <1>4, <1>5, <1>6 DEF Next

(* The invariant: whatever calls the program makes and whatever the other
   process does between the system calls, the paths form a tree, no file is
   lost or shared by mistake, a write has written the beginning of its data
   into the file it opened, and the stack of a recursive call stays above
   (Dir.create_all!) or below (Dir.delete_all!) the path it was given.       *)
THEOREM FileSystemInvariant == Spec => []FsInv
<1>1. FsInv /\ [Next]_vars => FsInv'
  BY EveryStepFits
<1> QED BY <1>1, InitialFiles, PTL DEF Spec

LEMMA InvImpliesTypes ==
  ASSUME FsInv
  PROVE  TypeOK
<1>1. fs \in Trees
  BY DEF FsInv, FilesFit
<1>2. ASSUME NEW p \in Paths, fs[p] # None PROVE Reach(p) = "ok"
  BY <1>1, <1>2, TreeNode, Reachable
<1>3. fs \in [Paths -> [kind : {"none", "file", "dir", "link"}, ino : Inodes \cup {0},
                        target : Targets \cup {<<>>}]]
  <2> DEFINE K == [kind : {"none", "file", "dir", "link"}, ino : Inodes \cup {0},
                   target : Targets \cup {<<>>}]
  <2>1. ASSUME NEW n \in Nodes PROVE n \in K
    <3>1. /\ n.kind \in {"none", "file", "dir", "link"}
          /\ n.ino \in Inodes \cup {0} /\ n.target \in Targets \cup {<<>>}
          /\ n = [kind |-> n.kind, ino |-> n.ino, target |-> n.target]
      BY <2>1, NodeIs
    <3> QED BY <3>1
  <2> HIDE DEF K
  <2>2. fs \in [Paths -> K]
    BY <1>1, <2>1 DEF Trees
  <2> QED BY <2>2 DEF K
<1>4. disk \in [Inodes -> [data : Seq(STRING), mode : SUBSET {"read", "write", "execute"},
                           time : Int]]
  BY DEF FsInv, FilesFit, Stores, Texts
<1>5. ASSUME NEW i \in Inodes PROVE disk[i] # Blank <=> Named(fs, i) \/ i = OpenIn(op)
  BY BlankIs DEF FsInv, FilesFit
<1>6. ret.err \in ErrorKinds \cup {"none"} /\ ret.byte \in 0..7
  BY CommonTagsAreHonest DEF FsInv, ResultFits
<1>7. op.fn \in {"none", "File.write!", "Dir.create_all!", "Dir.delete_all!", "dir_list", "aborted"}
  BY DEF FsInv, Fits
<1> QED BY <1>2, <1>3, <1>4, <1>5, <1>6, <1>7 DEF TypeOK, FsInv, CountsFit

(* TypeOK: the tree is one, and a file exists exactly as long as a path or
   the running write refers to it.                                           *)
THEOREM FileSystemTypeCorrect == Spec => []TypeOK
BY FileSystemInvariant, InvImpliesTypes, PTL

(* ErrorsMeanWhatHappened: the byte that from_io_error leaves in a failed
   File or Path result is decoded to the tag of the error that occurred.     *)
THEOREM FileErrorsAreHonest == Spec => []ErrorsMeanWhatHappened
<1>1. FsInv => ErrorsMeanWhatHappened
  BY CommonTagsAreHonest DEF FsInv, ResultFits, ErrorsMeanWhatHappened
<1> QED BY <1>1, FileSystemInvariant, PTL

(* OkWriteIsComplete: at the moment File.write! returns Ok the file it opened
   holds all the bytes given and nothing more, whatever the other process
   renamed, linked or replaced meanwhile.                                    *)
THEOREM FileWritesAreComplete == Spec => OkWriteIsComplete
<1>1. FsInv /\ [Next]_vars =>
        [op.fn = "File.write!" /\ op' = Idle /\ ret'.err = "none" =>
           /\ disk[op.ino].data = op.data
           /\ \A q \in Paths : fs'[q] = File(op.ino) => disk'[op.ino].data = op.data
           /\ disturbed = {} => fs'[Real(op.path)] = File(op.ino)]_vars
  <2>1. op.fn = "File.write!" => op # Idle
    BY DEF Idle
  <2> QED BY <2>1, EveryStepFits DEF StepFits, DoneStep
<1> QED BY <1>1, FileSystemInvariant, PTL DEF Spec, OkWriteIsComplete

(* RemovesOnlyBelow: Dir.delete_all! and every other call remove only what
   lies at or below their path, whatever links the other process plants.     *)
THEOREM RemovalsStayBelow == Spec => RemovesOnlyBelow
<1>1. FsInv /\ [Next]_vars =>
        [others' = others =>
          \A q \in Paths : fs[q] # None /\ fs'[q] = None => q \in Below(CallPath)]_vars
  BY EveryStepFits DEF StepFits, RemovalStep
<1> QED BY <1>1, FileSystemInvariant, PTL DEF Spec, RemovesOnlyBelow

(* WritesStayInTheirFile: only the file that a File.write! opened changes its
   contents.                                                                 *)
THEOREM WritesKeepToTheirFile == Spec => WritesStayInTheirFile
<1>1. FsInv /\ [Next]_vars =>
        [others' = others =>
           \A i \in Inodes : Named(fs, i) /\ Named(fs', i) /\ disk'[i] # disk[i] =>
             \/ i = OpenIn(op)
             \/ op = Idle /\ op'.fn = "File.write!" /\ i = fs[Real(op'.path)].ino]_vars
  BY EveryStepFits DEF StepFits, WriteStep
<1> QED BY <1>1, FileSystemInvariant, PTL DEF Spec, WritesStayInTheirFile

(* OkMeansDone: at the moment Dir.create_all! returns Ok its path is a
   directory, and when Dir.delete_all! does nothing is left at or below it.  *)
THEOREM OkIsHonest == Spec => OkMeansDone
<1>1. FsInv /\ [Next]_vars =>
        [op # Idle /\ op' = Idle /\ ret'.err = "none" =>
           /\ op.fn = "Dir.create_all!" =>
                \/ fs'[op.path].kind = "dir"
                \/ fs'[op.path].kind = "link" /\ fs'[fs'[op.path].target].kind = "dir"
           /\ op.fn = "Dir.delete_all!" => \A q \in Below(op.path) : fs'[q] = None]_vars
  BY EveryStepFits DEF StepFits, DoneStep
<1> QED BY <1>1, FileSystemInvariant, PTL DEF Spec, OkMeansDone

(* CreateAllToleratesRace: two processes making the same directories do not
   make each other fail with AlreadyExists, as long as a directory that is
   there can be looked at.                                                   *)
THEOREM CreateAllSharesDirectories == Spec => CreateAllToleratesRace
<1>1. FsInv /\ [Next]_vars =>
        [op # Idle /\ op' = Idle /\ op.fn = "Dir.create_all!"
           /\ ret'.err = "AlreadyExists" /\ "refused" \notin disturbed' =>
             \E q \in Paths : IsPrefix(q, op.path) /\ KindOf(q) # "dir"]_vars
  BY EveryStepFits DEF StepFits, RaceStep
<1> QED BY <1>1, FileSystemInvariant, PTL DEF Spec, CreateAllToleratesRace

=============================================================================
