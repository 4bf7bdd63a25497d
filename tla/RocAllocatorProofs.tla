------------------------ MODULE RocAllocatorProofs ------------------------
(***************************************************************************)
(* Proofs about RocAllocator, for every word size, alignment set, memory   *)
(* size and number of objects that satisfy its assumptions.                *)
(***************************************************************************)
EXTENDS RocAllocator, WellFoundedInduction, TLAPS

(* A nonempty set of natural numbers has a least element. *)
LEMMA LeastElement ==
  ASSUME NEW S \in SUBSET Nat, S # {}
  PROVE  \E p \in S : \A q \in S : p <= q
<1>1. IsWellFoundedOn(OpToRel(<, Nat), Nat)
  BY NatLessThanWellFounded
<1>2. PICK p \in S : \A q \in S : ~ (<<q, p>> \in OpToRel(<, Nat))
  BY <1>1, WFMin
<1>3. \A q \in S : ~ (q < p)
  BY <1>2 DEF OpToRel
<1> QED BY <1>3

(* The rounding of roc_alloc_fn gives a power of two, never below the alignment
   and never below align_of::<usize>().                                      *)
LEMMA StorageRounds ==
  ASSUME NEW a \in Alignments
  PROVE  /\ SizeStorage(a) \in PowersOfTwo /\ SizeStorage(a) \in Nat
         /\ a <= SizeStorage(a) /\ WordSize <= SizeStorage(a)
<1> DEFINE n == Max2(Max2(a, 1), WordSize)
           S == {p \in PowersOfTwo : n <= p}
<1>1. a \in Nat /\ WordSize \in Nat /\ WordSize >= 1
  BY SizesAssumption, AlignmentsAssumption
<1>2. n = Max2(a, WordSize) /\ n \in Nat /\ WordSize <= n /\ a <= n
  BY <1>1 DEF Max2
<1>3. S \in SUBSET Nat /\ S # {}
  BY <1>2, SizesAssumption, AlignmentsAssumption
<1>4. PICK p \in S : \A q \in S : p <= q
  BY <1>3, LeastElement
<1> DEFINE M(p0) == n <= p0 /\ \A q \in PowersOfTwo : n <= q => p0 <= q
<1>5. p \in PowersOfTwo /\ M(p)
  BY <1>4
<1>6. SizeStorage(a) = CHOOSE p0 \in PowersOfTwo : M(p0)
  BY DEF SizeStorage, NextPowerOfTwo
<1> HIDE DEF M, n, S
<1>7. SizeStorage(a) \in PowersOfTwo /\ M(SizeStorage(a))
  BY <1>5, <1>6
<1>8. n <= SizeStorage(a)
  BY <1>7 DEF M
<1>9. SizeStorage(a) \in Nat
  BY <1>7, SizesAssumption
<1> QED
  BY <1>1, <1>2, <1>7, <1>8, <1>9

(* The header holds at least the size word, whatever the alignment. *)
LEMMA StorageAtLeastAWord ==
  ASSUME NEW a \in Alignments
  PROVE  SizeStorage(a) \in Nat /\ WordSize <= SizeStorage(a)
  BY StorageRounds

(* A chunk that fits into memory was not cut short by the saturating
   addition: its size is header plus length, exactly.                      *)
LEMMA TotalExact ==
  ASSUME NEW n \in 0..MaxUsize, NEW a \in Alignments, NEW b \in Addr,
         b + TotalSize(n, a) - 1 <= MemTop
  PROVE  TotalSize(n, a) = SizeStorage(a) + n
<1>1. /\ SizeStorage(a) \in Nat
      /\ WordSize \in Nat /\ 1 <= WordSize /\ WordSize <= SizeStorage(a)
  BY StorageAtLeastAWord, SizesAssumption
<1>2. MemTop \in Nat /\ MaxUsize \in Nat /\ MemTop < MaxUsize
  BY SizesAssumption
<1> QED
  BY <1>1, <1>2 DEF TotalSize, Max2, Min2, Addr

-----------------------------------------------------------------------------
(* The inductive invariant. ChunksOwned and MetadataFaithful are not
   inductive alone: a step on one object must be known to stay inside that
   object's chunk, and chunks must be known not to overlap.                *)
LiveAlign == \A i \in live : obj[i].align \in Alignments
Inv == TypeOK /\ LiveAlign /\ ChunksDisjoint /\ ChunksOwned /\ MetadataFaithful

(* Where a live object lies, in numbers the arithmetic prover can use. *)
LEMMA Layout ==
  ASSUME Inv, NEW i \in live
  PROVE  /\ i \in Ids
         /\ obj[i].align \in Alignments
         /\ obj[i].ptr \in Nat /\ obj[i].len \in Nat
         /\ SizeStorage(obj[i].align) \in Nat
         /\ WordSize \in Nat /\ 1 <= WordSize
         /\ WordSize <= SizeStorage(obj[i].align)
         /\ Base(i) = obj[i].ptr - SizeStorage(obj[i].align)
         /\ Base(i) \in Addr /\ Base(i) \in Nat /\ Base(i) \in Chunks
         /\ chunk[Base(i)] = SizeStorage(obj[i].align) + obj[i].len
         /\ Base(i) + chunk[Base(i)] - 1 <= MemTop
<1>1. obj[i].align \in Alignments /\ i \in Ids
  BY DEF Inv, LiveAlign, TypeOK
<1>2. obj[i].ptr \in Nat /\ obj[i].len \in Nat
  BY <1>1, SizesAssumption DEF Inv, TypeOK
<1>3. /\ SizeStorage(obj[i].align) \in Nat /\ WordSize \in Nat
      /\ 1 <= WordSize /\ WordSize <= SizeStorage(obj[i].align)
  BY <1>1, StorageAtLeastAWord, SizesAssumption
<1>4. /\ Base(i) \in Addr
      /\ chunk[Base(i)] = SizeStorage(obj[i].align) + obj[i].len
  BY DEF Inv, ChunksOwned, OwnChunk
<1>5. Base(i) \in Chunks
  BY <1>2, <1>3, <1>4 DEF Chunks
<1>6. Base(i) + chunk[Base(i)] - 1 <= MemTop
  BY <1>5 DEF Inv, ChunksDisjoint
<1> QED
  BY <1>1, <1>2, <1>3, <1>4, <1>5, <1>6, SizesAssumption
     DEF Base, BasePtr, Addr

(* An object whose record, chunk size and header bytes a step leaves alone
   keeps its header.                                                       *)
LEMMA HeaderFrame ==
  ASSUME Inv, NEW i \in live, obj'[i] = obj[i],
         chunk'[Base(i)] = chunk[Base(i)],
         \A x \in Span(Base(i), SizeStorage(obj[i].align)) : mem'[x] = mem[x]
  PROVE  HeaderOf(i)'
<1>1. HeaderOf(i)
  BY DEF Inv, MetadataFaithful
<1>2. Base(i)' = Base(i)
  BY DEF Base
<1>3. /\ Base(i) = obj[i].ptr - SizeStorage(obj[i].align)
      /\ Base(i) \in Nat /\ obj[i].ptr \in Nat
      /\ SizeStorage(obj[i].align) \in Nat
      /\ WordSize \in Nat /\ WordSize <= SizeStorage(obj[i].align)
  BY Layout
<1>4. \A x \in Span(obj[i].ptr - WordSize, WordSize) \cup Span(Base(i), WordSize) :
         mem'[x] = mem[x]
  BY <1>3 DEF Span
<1> QED
  BY <1>1, <1>2, <1>4 DEF HeaderOf, HoldsWord

(* Writing the header keeps memory typed and, inside the chunk, sets exactly
   the words HeaderOf asks for.                                            *)
LEMMA CellTypes ==
  ASSUME NEW m \in [Addr -> Cells], NEW a, NEW n \in 0..MaxUsize
  PROVE  /\ StoreWord(m, a, n) \in [Addr -> Cells]
         /\ Scratch(m, a, n) \in [Addr -> Cells]
<1>1. WordCell(n) \in Cells /\ Junk \in Cells
  BY DEF WordCell, Junk, Cells
<1> QED
  BY <1>1 DEF StoreWord, Scratch

LEMMA HeaderWritten ==
  ASSUME NEW m, NEW b \in Addr, NEW a \in Alignments, NEW n \in Nat,
         b + SizeStorage(a) - 1 <= MemTop
  PROVE  LET st == SizeStorage(a)
             w  == WriteHeader(m, b, st, n)
         IN  /\ \A x \in Span(b + st - WordSize, WordSize) : w[x] = WordCell(n)
             /\ st >= 2 * WordSize =>
                  \A x \in Span(b, WordSize) : w[x] = WordCell(st)
             /\ \A x \in Addr \ Span(b, st) : w[x] = m[x]
<1> DEFINE st == SizeStorage(a)
           w  == WriteHeader(m, b, st, n)
<1>1. st \in Nat /\ WordSize \in Nat /\ 1 <= WordSize /\ WordSize <= st
  BY StorageAtLeastAWord, SizesAssumption
<1>2. MemTop \in Nat /\ b \in Nat /\ 1 <= b
  BY SizesAssumption DEF Addr
<1> HIDE DEF st, w
<1>3. w = IF st >= 2 * WordSize
            THEN StoreWord(StoreWord(m, b + st - WordSize, n), b, st)
            ELSE StoreWord(m, b + st - WordSize, n)
  BY DEF WriteHeader, WriteSize, w
<1>4. \A x \in Span(b + st - WordSize, WordSize) \cup Span(b, WordSize) : x \in Addr
  BY <1>1, <1>2 DEF Span, Addr, st
<1>5. CASE st >= 2 * WordSize
  <2>1. \A x \in Addr : w[x] = IF x \in Span(b, WordSize) THEN WordCell(st)
                               ELSE IF x \in Span(b + st - WordSize, WordSize)
                                      THEN WordCell(n) ELSE m[x]
    BY <1>3, <1>5 DEF StoreWord
  <2>2. \A x \in Span(b + st - WordSize, WordSize) : x \notin Span(b, WordSize)
    BY <1>1, <1>2, <1>5 DEF Span
  <2>3. \A x \in Addr \ Span(b, st) : /\ x \notin Span(b, WordSize)
                                     /\ x \notin Span(b + st - WordSize, WordSize)
    BY <1>1, <1>2 DEF Span, Addr
  <2> QED BY <2>1, <2>2, <2>3, <1>4 DEF st, w
<1>6. CASE ~(st >= 2 * WordSize)
  <2>1. \A x \in Addr : w[x] = IF x \in Span(b + st - WordSize, WordSize)
                                      THEN WordCell(n) ELSE m[x]
    BY <1>3, <1>6 DEF StoreWord
  <2>2. \A x \in Addr \ Span(b, st) : x \notin Span(b + st - WordSize, WordSize)
    BY <1>1, <1>2 DEF Span, Addr
  <2> QED BY <2>1, <2>2, <1>4, <1>6 DEF st, w
<1> QED BY <1>5, <1>6 DEF st, w

-----------------------------------------------------------------------------
(* An exit changes nothing but the flag. *)
LEMMA ExitStep ==
  ASSUME Inv, Exit
  PROVE  Inv'
<1>1. TypeOK'
  BY DEF Inv, Exit, TypeOK
<1>2. LiveAlign'
  BY DEF Inv, Exit, LiveAlign
<1>3. ChunksDisjoint'
  BY DEF Inv, Exit, ChunksDisjoint, Chunks
<1>4. ChunksOwned'
  BY DEF Inv, Exit, ChunksOwned, OwnChunk, Chunks, Base
<1>5. MetadataFaithful'
  BY DEF Inv, Exit, MetadataFaithful, HeaderOf, HoldsWord, Base
<1> QED
  BY <1>1, <1>2, <1>3, <1>4, <1>5 DEF Inv

(* The Roc program writing its own object touches no header. *)
LEMMA StoreStep ==
  ASSUME Inv, NEW i \in Ids, RocStore(i)
  PROVE  Inv'
<1>1. /\ i \in live /\ chunk' = chunk /\ live' = live /\ obj' = obj
      /\ exited' = exited
      /\ mem' = [x \in Addr |-> IF x \in Span(obj[i].ptr, obj[i].len)
                                 THEN UserCell(i, x - obj[i].ptr) ELSE mem[x]]
  BY DEF RocStore
<1>2. TypeOK'
  <2>1. \A x \in Addr : x \in Span(obj[i].ptr, obj[i].len) =>
                           UserCell(i, x - obj[i].ptr) \in Cells
    <3> SUFFICES ASSUME NEW x \in Addr, x \in Span(obj[i].ptr, obj[i].len)
                 PROVE  UserCell(i, x - obj[i].ptr) \in Cells
      OBVIOUS
    <3>1. obj[i].ptr \in Nat /\ obj[i].len \in 0..MaxUsize
      BY SizesAssumption DEF Inv, TypeOK
    <3>2. x - obj[i].ptr \in 0..MaxUsize
      BY <3>1, SizesAssumption DEF Span, Addr
    <3> QED BY <3>2 DEF UserCell, Cells
  <2>2. mem' \in [Addr -> Cells]
    BY <1>1, <2>1 DEF Inv, TypeOK
  <2> QED BY <1>1, <2>2 DEF Inv, TypeOK
<1>3. LiveAlign'
  BY <1>1 DEF Inv, LiveAlign
<1>4. ChunksDisjoint'
  BY <1>1 DEF Inv, ChunksDisjoint, Chunks
<1>5. ChunksOwned'
  BY <1>1 DEF Inv, ChunksOwned, OwnChunk, Chunks, Base
<1>6. MetadataFaithful'
  <2> SUFFICES ASSUME NEW j \in live PROVE HeaderOf(j)'
    BY <1>1 DEF MetadataFaithful
  <2>1. \A x \in Span(Base(j), SizeStorage(obj[j].align)) :
          x \in Addr /\ x \notin Span(obj[i].ptr, obj[i].len)
    <3> SUFFICES ASSUME NEW x \in Span(Base(j), SizeStorage(obj[j].align))
                 PROVE  x \in Addr /\ x \notin Span(obj[i].ptr, obj[i].len)
      OBVIOUS
    <3>1. x \in Addr
      BY Layout, SizesAssumption DEF Span, Addr
    <3>2. CASE Base(i) = Base(j)
      <4>1. i = j
        BY <3>2, <1>1 DEF Inv, ChunksOwned
      <4> QED BY <3>1, <4>1, Layout DEF Span
    <3>3. CASE Base(i) # Base(j)
      <4>1. \/ Base(i) + chunk[Base(i)] <= Base(j)
            \/ Base(j) + chunk[Base(j)] <= Base(i)
        BY <3>3, <1>1, Layout DEF Inv, ChunksDisjoint
      <4>2. /\ Base(i) \in Nat /\ Base(j) \in Nat
            /\ obj[i].ptr \in Nat /\ obj[i].len \in Nat
            /\ SizeStorage(obj[i].align) \in Nat
            /\ Base(i) = obj[i].ptr - SizeStorage(obj[i].align)
            /\ chunk[Base(i)] = SizeStorage(obj[i].align) + obj[i].len
        BY <1>1, Layout
      <4>3. /\ SizeStorage(obj[j].align) \in Nat /\ obj[j].len \in Nat
            /\ chunk[Base(j)] = SizeStorage(obj[j].align) + obj[j].len
        BY Layout
      <4> QED BY <3>1, <4>1, <4>2, <4>3 DEF Span
    <3> QED BY <3>2, <3>3
  <2>2. \A x \in Span(Base(j), SizeStorage(obj[j].align)) : mem'[x] = mem[x]
    BY <1>1, <2>1
  <2> QED BY <1>1, <2>2, HeaderFrame
<1> QED
  BY <1>2, <1>3, <1>4, <1>5, <1>6 DEF Inv

(* A successful allocation. *)
LEMMA AllocStep ==
  ASSUME Inv, NEW i \in Ids, NEW n \in Lengths, NEW a \in Alignments,
         roc_alloc_fn(i, n, a), ~Exit
  PROVE  Inv'
<1> DEFINE st == SizeStorage(a)
           tot == TotalSize(n, a)
<1>1. PICK b \in Places(tot, Chunks) :
        /\ chunk' = [chunk EXCEPT ![b] = tot]
        /\ mem' = WriteHeader(Scratch(mem, b, tot), b, st, tot)
        /\ obj' = [obj EXCEPT ![i] = [ptr |-> b + st, len |-> n, align |-> a]]
  BY DEF roc_alloc_fn
<1>2. i \notin live /\ live' = live \cup {i} /\ exited' = exited
  BY DEF roc_alloc_fn
<1>3. /\ b \in Addr /\ b + tot - 1 <= MemTop
      /\ \A c \in Chunks : c + chunk[c] <= b \/ b + tot <= c
  BY DEF Places, DisjointFrom
<1>4. n \in 0..MaxUsize /\ n \in Nat
  BY SizesAssumption
<1>5. tot = st + n
  BY <1>3, <1>4, TotalExact
<1>6. st \in Nat /\ WordSize \in Nat /\ 1 <= WordSize /\ WordSize <= st
  BY StorageAtLeastAWord, SizesAssumption
<1>7. /\ MemTop \in Nat /\ MaxUsize \in Nat /\ MemTop < MaxUsize
      /\ b \in Nat /\ 1 <= b
  BY <1>3, SizesAssumption DEF Addr
<1>8. tot \in 1..MaxUsize /\ b + st \in 0..(MemTop + 1)
  BY <1>3, <1>4, <1>5, <1>6, <1>7
<1>9. /\ chunk \in [Addr -> 0..MaxUsize] /\ mem \in [Addr -> Cells]
      /\ live \subseteq Ids
      /\ obj \in [Ids -> [ptr : 0..(MemTop + 1), len : 0..MaxUsize,
                          align : Alignments \cup {0}]]
      /\ exited \in BOOLEAN
  BY DEF Inv, TypeOK
<1>10. st \in 0..MaxUsize /\ tot \in 0..MaxUsize /\ tot \in Nat
  BY <1>4, <1>5, <1>6, <1>7, <1>8
<1> HIDE DEF st, tot
<1>11. /\ \A c \in Addr : c # b => chunk'[c] = chunk[c]
       /\ chunk'[b] = tot
       /\ Chunks' = Chunks \cup {b}
  BY <1>1, <1>3, <1>8, <1>9 DEF Chunks
<1>12. b \notin Chunks
  <2> SUFFICES ASSUME b \in Chunks PROVE FALSE
    OBVIOUS
  <2>1. chunk[b] \in Nat /\ chunk[b] # 0
    BY <1>7, <1>9 DEF Chunks
  <2> QED BY <1>3, <1>7, <1>8, <2>1
<1>13. /\ \A j \in live : obj'[j] = obj[j] /\ Base(j)' = Base(j)
       /\ obj'[i] = [ptr |-> b + st, len |-> n, align |-> a]
  BY <1>1, <1>2, <1>9 DEF Base
<1>14. Base(i)' = b
  BY <1>6, <1>7, <1>13 DEF Base, BasePtr, st
<1>15. TypeOK'
  <2>1. chunk' \in [Addr -> 0..MaxUsize]
    BY <1>1, <1>9, <1>10
  <2>2. mem' \in [Addr -> Cells]
    <3>1. Scratch(mem, b, tot) \in [Addr -> Cells]
      BY <1>8, <1>9, CellTypes
    <3>2. WriteSize(Scratch(mem, b, tot), b, st, tot) \in [Addr -> Cells]
      BY <1>8, <3>1, CellTypes DEF WriteSize
    <3> QED BY <1>1, <1>10, <3>2, CellTypes DEF WriteHeader
  <2>3. obj' \in [Ids -> [ptr : 0..(MemTop + 1), len : 0..MaxUsize,
                         align : Alignments \cup {0}]]
    BY <1>1, <1>4, <1>8, <1>9
  <2> QED BY <1>2, <1>9, <2>1, <2>2, <2>3 DEF TypeOK
<1>16. LiveAlign'
  BY <1>2, <1>13 DEF Inv, LiveAlign
<1>17. ChunksDisjoint'
  BY <1>3, <1>7, <1>8, <1>11, <1>12 DEF Inv, ChunksDisjoint, Chunks
<1>18. ChunksOwned'
  <2>1. \A j \in live : OwnChunk(j)' /\ Base(j) \in Chunks
    BY <1>11, <1>12, <1>13, Layout DEF OwnChunk
  <2>2. OwnChunk(i)'
    BY <1>3, <1>5, <1>11, <1>13, <1>14 DEF OwnChunk, st
  <2> QED
    BY <1>2, <1>11, <1>12, <1>13, <1>14, <2>1, <2>2 DEF Inv, ChunksOwned
<1>19. MetadataFaithful'
  <2> DEFINE m == Scratch(mem, b, tot)
  <2>1. b + st - 1 <= MemTop
    BY <1>3, <1>4, <1>5, <1>6, <1>7
  <2>2. /\ \A x \in Span(b + st - WordSize, WordSize) : mem'[x] = WordCell(tot)
        /\ st >= 2 * WordSize => \A x \in Span(b, WordSize) : mem'[x] = WordCell(st)
        /\ \A x \in Addr \ Span(b, st) : mem'[x] = m[x]
    <3> DEFINE w == WriteHeader(m, b, st, tot)
    <3>1. /\ \A x \in Span(b + st - WordSize, WordSize) : w[x] = WordCell(tot)
          /\ st >= 2 * WordSize => \A x \in Span(b, WordSize) : w[x] = WordCell(st)
          /\ \A x \in Addr \ Span(b, st) : w[x] = m[x]
      <4>1. b \in Addr /\ tot \in Nat
        BY <1>3, <1>10
      <4> HIDE DEF m, tot
      <4>2. b + SizeStorage(a) - 1 <= MemTop
        BY <2>1 DEF st
      <4> HIDE DEF w
      <4>3. LET s == SizeStorage(a)
                h == WriteHeader(m, b, s, tot)
            IN  /\ \A x \in Span(b + s - WordSize, WordSize) : h[x] = WordCell(tot)
                /\ s >= 2 * WordSize => \A x \in Span(b, WordSize) : h[x] = WordCell(s)
                /\ \A x \in Addr \ Span(b, s) : h[x] = m[x]
        BY <4>1, <4>2, HeaderWritten, ZenonT(40)
      <4> QED BY <4>3 DEF st, w
    <3>2. mem' = w
      BY <1>1
    <3> HIDE DEF m, w
    <3> QED BY <3>1, <3>2
  <2>3. HeaderOf(i)'
    <3>1. obj'[i].ptr = b + st /\ SizeStorage(obj'[i].align) = st
      BY <1>13 DEF st
    <3>2. chunk'[Base(i)'] = tot
      BY <1>11, <1>14
    <3>3. HoldsWord(obj[i].ptr - WordSize, chunk[Base(i)])'
      <4> HIDE DEF m
      <4>1. obj'[i].ptr - WordSize = b + st - WordSize
        BY <1>6, <1>7, <3>1
      <4> QED BY <2>2, <3>2, <4>1 DEF HoldsWord
    <3>4. st >= 2 * WordSize => HoldsWord(Base(i), SizeStorage(obj[i].align))'
      BY <1>14, <2>2, <3>1 DEF HoldsWord
    <3> QED BY <3>1, <3>3, <3>4 DEF HeaderOf
  <2>4. ASSUME NEW j \in live PROVE HeaderOf(j)'
    <3>1. \A x \in Span(Base(j), SizeStorage(obj[j].align)) :
            x \in Addr /\ x \notin Span(b, tot) /\ x \notin Span(b, st)
      <4>1. /\ Base(j) \in Nat /\ 1 <= Base(j)
            /\ SizeStorage(obj[j].align) \in Nat /\ obj[j].len \in Nat
            /\ chunk[Base(j)] = SizeStorage(obj[j].align) + obj[j].len
            /\ Base(j) + chunk[Base(j)] - 1 <= MemTop
            /\ Base(j) \in Chunks
        BY Layout DEF Addr
      <4>2. Base(j) + chunk[Base(j)] <= b \/ b + tot <= Base(j)
        BY <1>3, <4>1
      <4> QED
        BY <1>4, <1>5, <1>6, <1>7, <4>1, <4>2 DEF Span, Addr
    <3>2. \A x \in Span(Base(j), SizeStorage(obj[j].align)) : mem'[x] = mem[x]
      BY <2>2, <3>1 DEF Scratch
    <3>3. Base(j) \in Addr /\ Base(j) # b
      BY <1>12, Layout
    <3> QED BY <1>11, <1>13, <3>2, <3>3, HeaderFrame
  <2> QED BY <1>2, <2>3, <2>4 DEF MetadataFaithful
<1> QED
  BY <1>15, <1>16, <1>17, <1>18, <1>19 DEF Inv

(* A deallocation frees exactly the chunk of the object. *)
LEMMA DeallocStep ==
  ASSUME Inv, NEW i \in Ids, roc_dealloc_fn(i)
  PROVE  Inv'
<1>1. /\ i \in live /\ live' = live \ {i} /\ exited' = exited
      /\ chunk' = [chunk EXCEPT ![Base(i)] = 0]
      /\ mem' = Scratch(mem, Base(i), chunk[Base(i)])
      /\ obj' = [obj EXCEPT ![i] = NoObj]
  BY DEF roc_dealloc_fn, Base
<1>2. /\ chunk \in [Addr -> 0..MaxUsize] /\ mem \in [Addr -> Cells]
      /\ live \subseteq Ids
      /\ obj \in [Ids -> [ptr : 0..(MemTop + 1), len : 0..MaxUsize,
                          align : Alignments \cup {0}]]
      /\ exited \in BOOLEAN
  BY DEF Inv, TypeOK
<1>3. Base(i) \in Addr /\ chunk[Base(i)] \in 0..MaxUsize
  BY <1>1, <1>2, Layout
<1>4. /\ \A c \in Addr : c # Base(i) => chunk'[c] = chunk[c]
      /\ Chunks' = Chunks \ {Base(i)}
  BY <1>1, <1>2, <1>3 DEF Chunks
<1>5. \A j \in live' : /\ j \in live /\ obj'[j] = obj[j] /\ Base(j)' = Base(j)
                       /\ Base(j) # Base(i) /\ Base(j) \in Addr
  <2> SUFFICES ASSUME NEW j \in live'
               PROVE  /\ j \in live /\ obj'[j] = obj[j] /\ Base(j)' = Base(j)
                      /\ Base(j) # Base(i) /\ Base(j) \in Addr
    OBVIOUS
  <2>1. j \in live /\ j # i
    BY <1>1
  <2>2. obj'[j] = obj[j]
    BY <1>1, <1>2, <2>1
  <2> QED
    BY <1>1, <2>1, <2>2, Layout DEF Inv, ChunksOwned, Base
<1>6. TypeOK'
  <2>1. NoObj \in [ptr : 0..(MemTop + 1), len : 0..MaxUsize,
                   align : Alignments \cup {0}]
    BY SizesAssumption DEF NoObj
  <2>2. mem' \in [Addr -> Cells]
    BY <1>1, <1>2, <1>3, CellTypes
  <2>3. chunk' \in [Addr -> 0..MaxUsize]
    <3>1. 0 \in 0..MaxUsize
      BY SizesAssumption
    <3> QED BY <1>1, <1>2, <3>1
  <2> QED BY <1>1, <1>2, <2>1, <2>2, <2>3 DEF TypeOK
<1>7. LiveAlign'
  BY <1>5 DEF Inv, LiveAlign
<1>8. ChunksDisjoint'
  BY <1>4 DEF Inv, ChunksDisjoint, Chunks
<1>9. ChunksOwned'
  <2>1. \A j \in live' : OwnChunk(j)'
    BY <1>4, <1>5, Layout DEF OwnChunk
  <2>2. \A c \in Chunks' : \E j \in live' : Base(j)' = c
    <3> SUFFICES ASSUME NEW c \in Chunks' PROVE \E j \in live' : Base(j)' = c
      OBVIOUS
    <3>1. c \in Chunks /\ c # Base(i)
      BY <1>4
    <3>2. PICK j \in live : Base(j) = c
      BY <3>1 DEF Inv, ChunksOwned
    <3>3. j \in live'
      BY <1>1, <3>1, <3>2
    <3> QED BY <1>5, <3>2, <3>3
  <2>3. \A j, k \in live' : Base(j)' = Base(k)' => j = k
    BY <1>5 DEF Inv, ChunksOwned
  <2> QED BY <2>1, <2>2, <2>3 DEF ChunksOwned
<1>10. MetadataFaithful'
  <2> SUFFICES ASSUME NEW j \in live' PROVE HeaderOf(j)'
    BY DEF MetadataFaithful
  <2>1. \A x \in Span(Base(j), SizeStorage(obj[j].align)) :
          x \in Addr /\ x \notin Span(Base(i), chunk[Base(i)])
    <3>1. /\ Base(j) \in Nat /\ 1 <= Base(j)
          /\ SizeStorage(obj[j].align) \in Nat /\ obj[j].len \in Nat
          /\ chunk[Base(j)] = SizeStorage(obj[j].align) + obj[j].len
          /\ Base(j) + chunk[Base(j)] - 1 <= MemTop
          /\ Base(j) \in Chunks
      BY <1>5, Layout DEF Addr
    <3>2. Base(i) \in Nat /\ Base(i) \in Chunks /\ chunk[Base(i)] \in Nat
      BY <1>1, <1>3, Layout
    <3>3. \/ Base(j) + chunk[Base(j)] <= Base(i)
          \/ Base(i) + chunk[Base(i)] <= Base(j)
      BY <1>5, <3>1, <3>2 DEF Inv, ChunksDisjoint
    <3> QED BY <3>1, <3>2, <3>3, SizesAssumption DEF Span, Addr
  <2>2. \A x \in Span(Base(j), SizeStorage(obj[j].align)) : mem'[x] = mem[x]
    BY <1>1, <2>1 DEF Scratch
  <2> QED BY <1>4, <1>5, <2>2, HeaderFrame
<1> QED
  BY <1>6, <1>7, <1>8, <1>9, <1>10 DEF Inv

(* A successful reallocation: the chunk stays or moves clear of all others,
   the copied prefix includes the alignment word, the size word is new.     *)
LEMMA ReallocStep ==
  ASSUME Inv, NEW i \in Ids, NEW n \in Lengths, roc_realloc_fn(i, n), ~Exit
  PROVE  Inv'
<1> DEFINE a == obj[i].align
           st == SizeStorage(a)
           tot == TotalSize(n, a)
           old == Base(i)
<1>1. i \in live /\ live' = live /\ exited' = exited
  BY DEF roc_realloc_fn
<1>2. PICK b \in Places(tot, Chunks \ {old}) :
        /\ b = old \/ DisjointFrom(b, tot, {old})
        /\ chunk' = [chunk EXCEPT ![old] = 0, ![b] = tot]
        /\ mem' = WriteSize(MoveChunk(mem, old, chunk[old], b, tot), b, st, tot)
        /\ obj' = [obj EXCEPT ![i] = [ptr |-> b + st, len |-> n, align |-> a]]
  BY DEF roc_realloc_fn, Base
<1>3. /\ b \in Addr /\ b + tot - 1 <= MemTop
      /\ \A c \in Chunks \ {old} : c + chunk[c] <= b \/ b + tot <= c
      /\ b = old \/ old + chunk[old] <= b \/ b + tot <= old
  BY <1>2 DEF Places, DisjointFrom
<1>4. n \in 0..MaxUsize /\ n \in Nat /\ a \in Alignments
  BY <1>1, SizesAssumption, Layout
<1>5. tot = st + n
  BY <1>3, <1>4, TotalExact
<1>6. st \in Nat /\ WordSize \in Nat /\ 1 <= WordSize /\ WordSize <= st
  BY <1>4, StorageAtLeastAWord, SizesAssumption
<1>7. /\ MemTop \in Nat /\ MaxUsize \in Nat /\ MemTop < MaxUsize
      /\ b \in Nat /\ 1 <= b
  BY <1>3, SizesAssumption DEF Addr
<1>8. /\ tot \in 0..MaxUsize /\ tot \in Nat /\ 1 <= tot
      /\ b + st \in 0..(MemTop + 1)
  BY <1>3, <1>4, <1>5, <1>6, <1>7
<1>9. /\ chunk \in [Addr -> 0..MaxUsize] /\ mem \in [Addr -> Cells]
      /\ live \subseteq Ids
      /\ obj \in [Ids -> [ptr : 0..(MemTop + 1), len : 0..MaxUsize,
                          align : Alignments \cup {0}]]
      /\ exited \in BOOLEAN
  BY DEF Inv, TypeOK
<1>10. /\ old \in Addr /\ old \in Nat /\ 1 <= old /\ old \in Chunks
       /\ obj[i].len \in Nat /\ chunk[old] = st + obj[i].len
       /\ old + chunk[old] - 1 <= MemTop
  BY <1>1, Layout DEF Addr
<1>11. HeaderOf(i)
  BY <1>1 DEF Inv, MetadataFaithful
<1> DEFINE m == MoveChunk(mem, old, chunk[old], b, tot)
<1> HIDE DEF a, st, tot, old, m
<1>12. /\ \A c \in Addr : c # b /\ c # old => chunk'[c] = chunk[c]
       /\ chunk'[b] = tot
       /\ b # old => chunk'[old] = 0
       /\ Chunks' = (Chunks \ {old}) \cup {b}
  <2>1. \A c \in Addr : chunk'[c] = IF c = b THEN tot
                                    ELSE IF c = old THEN 0 ELSE chunk[c]
    BY <1>2, <1>3, <1>9, <1>10
  <2>2. tot # 0
    BY <1>8
  <2>3. \A c : c \in Chunks' <=> c \in (Chunks \ {old}) \cup {b}
    BY <1>3, <1>10, <2>1, <2>2 DEF Chunks
  <2> QED BY <1>3, <1>10, <2>1, <2>3
<1>13. b \notin Chunks \ {old}
  <2> SUFFICES ASSUME b \in Chunks \ {old} PROVE FALSE
    OBVIOUS
  <2>1. chunk[b] \in Nat /\ chunk[b] # 0
    BY <1>7, <1>9 DEF Chunks
  <2> QED BY <1>3, <1>7, <1>8, <2>1
<1>14. /\ \A j \in live : j # i => obj'[j] = obj[j] /\ Base(j)' = Base(j)
       /\ obj'[i] = [ptr |-> b + st, len |-> n, align |-> a]
  BY <1>1, <1>2, <1>9 DEF Base
<1>15. Base(i)' = b
  BY <1>6, <1>7, <1>14 DEF Base, BasePtr, st
<1>16. \A j \in live : j # i => Base(j) \in Chunks \ {old}
  BY <1>1, Layout DEF Inv, ChunksOwned, old
<1>17. TypeOK'
  <2>1. chunk' \in [Addr -> 0..MaxUsize]
    <3>1. 0 \in 0..MaxUsize
      BY <1>7
    <3> QED BY <1>2, <1>8, <1>9, <3>1
  <2>2. m \in [Addr -> Cells]
    <3>1. \A x \in Span(b, tot) : x - b < chunk[old] => old + (x - b) \in Addr
      BY <1>7, <1>8, <1>10, <1>6 DEF Span, Addr
    <3>2. Junk \in Cells
      BY DEF Cells
    <3> QED BY <1>9, <3>1, <3>2 DEF m, MoveChunk
  <2>3. mem' \in [Addr -> Cells]
    BY <1>2, <1>8, <2>2, CellTypes DEF WriteSize, m
  <2>4. obj' \in [Ids -> [ptr : 0..(MemTop + 1), len : 0..MaxUsize,
                         align : Alignments \cup {0}]]
    BY <1>2, <1>4, <1>8, <1>9
  <2> QED BY <1>1, <1>9, <2>1, <2>3, <2>4 DEF TypeOK
<1>18. LiveAlign'
  BY <1>1, <1>4, <1>14 DEF Inv, LiveAlign
<1>19. ChunksDisjoint'
  <2>1. \A c \in Chunks' : c = b \/ (c \in Chunks /\ c # old /\ c # b
                                     /\ c \in Addr /\ chunk'[c] = chunk[c])
    BY <1>12, <1>13 DEF Chunks
  <2> QED
    BY <1>3, <1>7, <1>8, <1>12, <2>1 DEF Inv, ChunksDisjoint, Addr
<1>20. ChunksOwned'
  <2>1. \A j \in live : j # i => OwnChunk(j)'
    BY <1>12, <1>13, <1>14, <1>16, Layout DEF OwnChunk
  <2>2. OwnChunk(i)'
    BY <1>3, <1>5, <1>12, <1>14, <1>15 DEF OwnChunk, st
  <2>3. \A j, k \in live : Base(j)' = Base(k)' => j = k
    BY <1>13, <1>14, <1>15, <1>16 DEF Inv, ChunksOwned
  <2>4. \A c \in Chunks' : \E j \in live : Base(j)' = c
    <3> SUFFICES ASSUME NEW c \in Chunks', c # b PROVE \E j \in live : Base(j)' = c
      BY <1>1, <1>15
    <3>1. c \in Chunks /\ c # old
      BY <1>12
    <3>2. PICK j \in live : Base(j) = c
      BY <3>1 DEF Inv, ChunksOwned
    <3> QED BY <1>14, <3>1, <3>2 DEF old
  <2> QED BY <1>1, <2>1, <2>2, <2>3, <2>4 DEF ChunksOwned
<1>21. MetadataFaithful'
  <2>1. \A x \in Addr : mem'[x] = IF x \in Span(b + st - WordSize, WordSize)
                                  THEN WordCell(tot) ELSE m[x]
    BY <1>2 DEF WriteSize, StoreWord, m
  <2>2. \A x \in Addr : m[x] =
          IF x \in Span(b, tot)
            THEN IF x - b < chunk[old] THEN mem[old + (x - b)] ELSE Junk
            ELSE IF x \in Span(old, chunk[old]) THEN Junk ELSE mem[x]
    BY DEF m, MoveChunk
  <2>3. HeaderOf(i)'
    <3>1. obj'[i].ptr = b + st /\ SizeStorage(obj'[i].align) = st
      BY <1>14 DEF st
    <3>2. chunk'[Base(i)'] = tot
      BY <1>12, <1>15
    <3>3. HoldsWord(obj[i].ptr - WordSize, chunk[Base(i)])'
      <4>1. obj'[i].ptr - WordSize = b + st - WordSize
        BY <1>6, <1>7, <3>1
      <4>2. \A x \in Span(b + st - WordSize, WordSize) : x \in Addr
        BY <1>3, <1>4, <1>5, <1>6, <1>7 DEF Span, Addr
      <4> QED BY <2>1, <3>2, <4>1, <4>2 DEF HoldsWord
    <3>4. st >= 2 * WordSize => HoldsWord(Base(i), SizeStorage(obj[i].align))'
      <4> SUFFICES ASSUME st >= 2 * WordSize, NEW x \in Span(b, WordSize)
                   PROVE  mem'[x] = WordCell(st)
        BY <1>15, <3>1 DEF HoldsWord
      <4>1. x \in Addr /\ x \notin Span(b + st - WordSize, WordSize)
        BY <1>3, <1>4, <1>5, <1>6, <1>7 DEF Span, Addr
      <4>2. /\ x \in Span(b, tot) /\ x - b < chunk[old]
            /\ old + (x - b) \in Span(old, WordSize)
        BY <1>4, <1>5, <1>6, <1>7, <1>10 DEF Span
      <4>3. HoldsWord(old, st)
        BY <1>11 DEF HeaderOf, old, st, a
      <4>4. mem[old + (x - b)] = WordCell(st)
        BY <4>2, <4>3 DEF HoldsWord
      <4> QED BY <2>1, <2>2, <4>1, <4>2, <4>4
    <3> QED BY <3>1, <3>3, <3>4 DEF HeaderOf
  <2>4. ASSUME NEW j \in live, j # i PROVE HeaderOf(j)'
    <3>1. /\ Base(j) \in Nat /\ 1 <= Base(j) /\ Base(j) \in Addr
          /\ SizeStorage(obj[j].align) \in Nat /\ obj[j].len \in Nat
          /\ chunk[Base(j)] = SizeStorage(obj[j].align) + obj[j].len
          /\ Base(j) + chunk[Base(j)] - 1 <= MemTop
      BY Layout DEF Addr
    <3>2. Base(j) \in Chunks \ {old}
      BY <1>16, <2>4
    <3>3. Base(j) + chunk[Base(j)] <= b \/ b + tot <= Base(j)
      BY <1>3, <3>2
    <3>4. Base(j) + chunk[Base(j)] <= old \/ old + chunk[old] <= Base(j)
      BY <1>10, <3>2 DEF Inv, ChunksDisjoint
    <3>5. \A x \in Span(Base(j), SizeStorage(obj[j].align)) :
            /\ x \in Addr /\ x \notin Span(b, tot) /\ x \notin Span(old, chunk[old])
            /\ x \notin Span(b + st - WordSize, WordSize)
      BY <1>4, <1>5, <1>6, <1>7, <1>8, <1>10, <3>1, <3>3, <3>4 DEF Span, Addr
    <3>6. \A x \in Span(Base(j), SizeStorage(obj[j].align)) : mem'[x] = mem[x]
      BY <2>1, <2>2, <3>5
    <3>7. Base(j) # b /\ Base(j) # old
      BY <1>13, <3>2
    <3> QED BY <1>12, <1>14, <2>4, <3>1, <3>6, <3>7, HeaderFrame
  <2> QED BY <1>1, <2>3, <2>4 DEF MetadataFaithful
<1> QED
  BY <1>17, <1>18, <1>19, <1>20, <1>21 DEF Inv

-----------------------------------------------------------------------------
(* Inv is an invariant of the allocator, for every size of the constants. *)
THEOREM AllocatorInvariant == Spec => []Inv
<1>1. Init => Inv
  <2> SUFFICES ASSUME Init PROVE Inv
    OBVIOUS
  <2>1. Chunks = {} /\ live = {}
    BY DEF Init, Chunks
  <2>2. TypeOK
    <3>1. NoObj \in [ptr : 0..(MemTop + 1), len : 0..MaxUsize,
                     align : Alignments \cup {0}]
      BY SizesAssumption DEF NoObj
    <3>2. 0 \in 0..MaxUsize /\ Junk \in Cells
      BY SizesAssumption DEF Cells
    <3> QED BY <3>1, <3>2 DEF Init, TypeOK
  <2> QED
    BY <2>1, <2>2 DEF Inv, LiveAlign, ChunksDisjoint, ChunksOwned,
                      MetadataFaithful
<1>2. Inv /\ [Next]_vars => Inv'
  <2> SUFFICES ASSUME Inv, [Next]_vars PROVE Inv'
    OBVIOUS
  <2>1. CASE Exit
    BY <2>1, ExitStep
  <2>2. CASE ~Exit /\ Next
    <3>1. ASSUME NEW i \in Ids, NEW n \in Lengths, NEW a \in Alignments,
                 roc_alloc_fn(i, n, a)
          PROVE  Inv'
      BY <2>2, <3>1, AllocStep
    <3>2. ASSUME NEW i \in Ids, roc_dealloc_fn(i) PROVE Inv'
      BY <3>2, DeallocStep
    <3>3. ASSUME NEW i \in Ids, NEW n \in Lengths, roc_realloc_fn(i, n)
          PROVE  Inv'
      BY <2>2, <3>3, ReallocStep
    <3>4. ASSUME NEW i \in Ids, RocStore(i) PROVE Inv'
      BY <3>4, StoreStep
    <3> QED BY <2>2, <3>1, <3>2, <3>3, <3>4 DEF Next
  <2>3. CASE UNCHANGED vars
    BY <2>3 DEF vars, Inv, TypeOK, LiveAlign, ChunksDisjoint, ChunksOwned,
                OwnChunk, Chunks, Base, MetadataFaithful, HeaderOf, HoldsWord
  <2> QED BY <2>1, <2>2, <2>3
<1> QED
  BY <1>1, <1>2, PTL DEF Spec

(* Type correctness of the allocator. *)
THEOREM AllocatorTypeCorrect == Spec => []TypeOK
  BY AllocatorInvariant, PTL DEF Inv

(* The base pointer recomputed by roc_dealloc_fn and roc_realloc_fn is always
   the start of that object's own chunk, and no chunk is lost.              *)
THEOREM AllocatorChunksOwned == Spec => []ChunksOwned
  BY AllocatorInvariant, PTL DEF Inv

(* The size and alignment words of every live chunk stay what roc_alloc_fn
   and roc_realloc_fn wrote, whatever Roc stores in its objects.            *)
THEOREM AllocatorMetadataFaithful == Spec => []MetadataFaithful
  BY AllocatorInvariant, PTL DEF Inv

-----------------------------------------------------------------------------
(* Alignment: what the header adds to a chunk of malloc's keeps its alignment. *)

LEMMA MultiplesDivide ==
  ASSUME NEW a \in Nat \ {0}, NEW k \in Nat
  PROVE  (a * k) % a = 0
  OBVIOUS

LEMMA Quotient ==
  ASSUME NEW a \in Nat \ {0}, NEW n \in Nat, n % a = 0
  PROVE  \E k \in Nat : n = a * k
<1>1. n = a * (n \div a) + (n % a) /\ n \div a \in Nat
  OBVIOUS
<1> QED BY <1>1

LEMMA DividesSum ==
  ASSUME NEW a \in Nat \ {0}, NEW x \in Nat, NEW y \in Nat,
         x % a = 0, y % a = 0
  PROVE  (x + y) % a = 0
<1>1. PICK j \in Nat : x = a * j
  BY Quotient
<1>2. PICK k \in Nat : y = a * k
  BY Quotient
<1>3. x + y = a * (j + k) /\ j + k \in Nat
  BY <1>1, <1>2
<1> QED BY <1>3, MultiplesDivide

LEMMA DividesChain ==
  ASSUME NEW a \in Nat \ {0}, NEW m \in Nat \ {0}, NEW x \in Nat,
         m % a = 0, x % m = 0
  PROVE  x % a = 0
<1>1. PICK j \in Nat : m = a * j
  BY Quotient
<1>2. PICK k \in Nat : x = m * k
  BY Quotient
<1>3. x = a * (j * k) /\ j * k \in Nat
  BY <1>1, <1>2
<1> QED BY <1>3, MultiplesDivide

(* Of two powers of two the smaller divides the larger: so does the alignment
   the header.                                                               *)
LEMMA StorageKeepsAlignment ==
  ASSUME NEW a \in Alignments, a # 0
  PROVE  a \in Nat \ {0} /\ SizeStorage(a) % a = 0
<1>1. a \in Nat \ {0} /\ a \in PowersOfTwo
  BY AlignmentsAssumption, LayoutsAssumption
<1> QED BY <1>1, StorageRounds, LayoutsAssumption

(* Every chunk starts where malloc or realloc put it. *)
BasesAligned == \A b \in Chunks : b % MallocAlign = 0

LEMMA BasesAlignedStep ==
  ASSUME Inv, BasesAligned, Next
  PROVE  BasesAligned'
<1>1. chunk \in [Addr -> 0..MaxUsize]
  BY DEF Inv, TypeOK
<1>2. ASSUME chunk' = chunk PROVE BasesAligned'
  BY <1>2 DEF BasesAligned, Chunks
<1>3. ASSUME NEW b \in Addr, NEW t, b % MallocAlign = 0,
             chunk' = [chunk EXCEPT ![b] = t]
      PROVE  BasesAligned'
  BY <1>1, <1>3 DEF BasesAligned, Chunks
<1>4. ASSUME NEW i \in Ids, NEW n \in Lengths, NEW a \in Alignments,
             roc_alloc_fn(i, n, a)
      PROVE  BasesAligned'
  BY <1>2, <1>3, <1>4 DEF roc_alloc_fn, Exit, Places
<1>5. ASSUME NEW i \in Ids, roc_dealloc_fn(i) PROVE BasesAligned'
  <2>1. Base(i) \in Addr /\ Base(i) \in Chunks
    BY <1>5, Layout DEF roc_dealloc_fn
  <2>2. chunk' = [chunk EXCEPT ![Base(i)] = 0]
    BY <1>5 DEF roc_dealloc_fn, Base
  <2> QED BY <1>3, <2>1, <2>2 DEF BasesAligned
<1>6. ASSUME NEW i \in Ids, NEW n \in Lengths, roc_realloc_fn(i, n)
      PROVE  BasesAligned'
  <2>1. CASE chunk' = chunk
    BY <1>2, <2>1
  <2>2. CASE chunk' # chunk
    <3>1. PICK b \in Places(TotalSize(n, obj[i].align), Chunks \ {Base(i)}) :
            chunk' = [chunk EXCEPT ![Base(i)] = 0,
                                   ![b] = TotalSize(n, obj[i].align)]
      BY <1>6, <2>2 DEF roc_realloc_fn, Exit, Base
    <3> DEFINE o == Base(i)
               t == TotalSize(n, obj[i].align)
    <3> HIDE DEF o, t
    <3>2. b \in Addr /\ b % MallocAlign = 0 /\ chunk' = [chunk EXCEPT ![o] = 0, ![b] = t]
      BY <3>1 DEF Places, o, t
    <3>3. \A c \in Addr : c # b => chunk'[c] = 0 \/ chunk'[c] = chunk[c]
      BY <1>1, <3>2
    <3> QED BY <3>2, <3>3 DEF BasesAligned, Chunks
  <2> QED BY <2>1, <2>2
<1>7. ASSUME NEW i \in Ids, RocStore(i) PROVE BasesAligned'
  BY <1>2, <1>7 DEF RocStore
<1> QED BY <1>4, <1>5, <1>6, <1>7 DEF Next

(* Roc's pointers have the alignment Roc asked for wherever malloc's does. *)
THEOREM AllocatorPointersAligned == Spec => []PointersAligned
<1>1. Init => BasesAligned
  BY DEF Init, BasesAligned, Chunks
<1>2. Inv /\ BasesAligned /\ [Next]_vars => BasesAligned'
  <2>1. ASSUME UNCHANGED vars, BasesAligned PROVE BasesAligned'
    BY <2>1 DEF vars, BasesAligned, Chunks
  <2> QED BY <2>1, BasesAlignedStep
<1>3. Inv /\ BasesAligned => PointersAligned
  <2> SUFFICES ASSUME Inv, BasesAligned, NEW i \in live, obj[i].align > 0,
                      MallocAlign % obj[i].align = 0
               PROVE  obj[i].ptr % obj[i].align = 0
    BY DEF PointersAligned
  <2> DEFINE a == obj[i].align
  <2>1. /\ a \in Alignments /\ Base(i) \in Nat /\ Base(i) \in Chunks
        /\ obj[i].ptr \in Nat /\ SizeStorage(a) \in Nat
        /\ Base(i) = obj[i].ptr - SizeStorage(a)
    BY Layout
  <2> HIDE DEF a
  <2>2. a \in Nat \ {0} /\ SizeStorage(a) % a = 0
    <3>1. a # 0 /\ a \in Alignments
      BY <2>1, AlignmentsAssumption DEF a
    <3> QED BY <3>1, StorageKeepsAlignment
  <2>3. Base(i) % MallocAlign = 0
    BY <2>1 DEF BasesAligned
  <2>4. Base(i) % a = 0
    BY <2>1, <2>2, <2>3, DividesChain, SizesAssumption DEF a
  <2>5. obj[i].ptr = Base(i) + SizeStorage(a)
    BY <2>1
  <2> QED BY <2>1, <2>2, <2>4, <2>5, DividesSum DEF a
<1> QED BY <1>1, <1>2, <1>3, AllocatorInvariant, PTL DEF Spec

-----------------------------------------------------------------------------
(* The refinement. Contents is what Abstract takes for RocHeap's content.   *)
ContentOf(i) ==
  IF i \in live THEN [k \in 0..(obj[i].len - 1) |-> mem[obj[i].ptr + k]]
                ELSE [k \in {} |-> {}]
Contents == [i \in Ids |-> ContentOf(i)]

(* A step that leaves an object's record and its chunk's bytes alone leaves
   its content alone.                                                       *)
LEMMA ContentFrame ==
  ASSUME Inv, NEW j \in live, j \in live', obj'[j] = obj[j],
         \A x \in Addr : x \in Span(Base(j), chunk[Base(j)]) => mem'[x] = mem[x]
  PROVE  ContentOf(j)' = ContentOf(j)
<1> DEFINE p == obj[j].ptr
           n == obj[j].len
<1>1. /\ p \in Nat /\ n \in Nat
      /\ Base(j) \in Nat /\ 1 <= Base(j)
      /\ SizeStorage(obj[j].align) \in Nat
      /\ Base(j) = p - SizeStorage(obj[j].align)
      /\ chunk[Base(j)] = SizeStorage(obj[j].align) + n
      /\ Base(j) + chunk[Base(j)] - 1 <= MemTop
  BY Layout DEF Addr
<1> HIDE DEF p, n
<1>2. \A k \in 0..(n - 1) : p + k \in Addr /\ p + k \in Span(Base(j), chunk[Base(j)])
  BY <1>1, SizesAssumption DEF Addr, Span
<1>3. \A k \in 0..(n - 1) : mem'[p + k] = mem[p + k]
  BY <1>2
<1>4. ContentOf(j) = [k \in 0..(n - 1) |-> mem[p + k]]
  BY DEF ContentOf, p, n
<1>5. ContentOf(j)' = [k \in 0..(n - 1) |-> mem'[p + k]]
  BY DEF ContentOf, p, n
<1> QED BY <1>3, <1>4, <1>5

(* The bytes of two objects' chunks are apart. *)
LEMMA ChunksApart ==
  ASSUME Inv, NEW i \in live, NEW j \in live, i # j
  PROVE  \A x \in Span(Base(j), chunk[Base(j)]) : x \notin Span(Base(i), chunk[Base(i)])
<1>1. /\ Base(i) \in Nat /\ Base(i) \in Chunks /\ Base(j) \in Nat /\ Base(j) \in Chunks
  BY Layout
<1>2. chunk[Base(i)] \in Nat /\ chunk[Base(j)] \in Nat
  BY Layout
<1>3. Base(i) # Base(j)
  BY DEF Inv, ChunksOwned
<1>4. Base(i) + chunk[Base(i)] <= Base(j) \/ Base(j) + chunk[Base(j)] <= Base(i)
  BY <1>1, <1>3 DEF Inv, ChunksDisjoint
<1> QED BY <1>1, <1>2, <1>4 DEF Span

(* One object changed, and nothing else of what Roc can see. *)
LEMMA OnlyContent ==
  ASSUME NEW i \in Ids, \A j \in Ids : j # i => ContentOf(j)' = ContentOf(j)
  PROVE  /\ Contents' = [Contents EXCEPT ![i] = Contents'[i]]
         /\ Contents'[i] = ContentOf(i)'
         /\ Contents[i] = ContentOf(i)
<1>1. \A j \in Ids : Contents'[j] = ContentOf(j)' /\ Contents[j] = ContentOf(j)
  BY DEF Contents
<1> DEFINE A == Contents
           B == Contents'
<1>2. A \in [Ids -> {ContentOf(j) : j \in Ids}] /\ DOMAIN A = Ids /\ DOMAIN B = Ids
  BY DEF Contents
<1>3. A = [j \in Ids |-> A[j]] /\ B = [j \in Ids |-> B[j]]
  BY DEF Contents
<1> HIDE DEF A, B
<1>4. \A j \in Ids : j # i => A[j] = B[j]
  BY <1>1 DEF A, B
<1>5. B = [A EXCEPT ![i] = B[i]]
  BY <1>2, <1>3, <1>4
<1> QED BY <1>1, <1>5 DEF A, B

(* Reading the content of a live object. *)
LEMMA ContentIs ==
  ASSUME Inv, NEW i \in live
  PROVE  /\ ContentOf(i) = [k \in 0..(obj[i].len - 1) |-> mem[obj[i].ptr + k]]
         /\ ContentOf(i) \in [0..(obj[i].len - 1) -> Cells]
<1>1. ContentOf(i) = [k \in 0..(obj[i].len - 1) |-> mem[obj[i].ptr + k]]
  BY DEF ContentOf
<1>2. \A k \in 0..(obj[i].len - 1) : obj[i].ptr + k \in Addr
  BY Layout, SizesAssumption DEF Addr
<1>3. mem \in [Addr -> Cells]
  BY DEF Inv, TypeOK
<1> QED BY <1>1, <1>2, <1>3

(* Dead objects have no content, before and after. *)
LEMMA DeadContent ==
  ASSUME NEW j \in Ids, j \notin live, j \notin live'
  PROVE  ContentOf(j)' = ContentOf(j)
  BY DEF ContentOf

(* A deallocation takes the object away and nothing else. *)
LEMMA DeallocReleases ==
  ASSUME Inv, NEW i \in Ids, roc_dealloc_fn(i)
  PROVE  Abstract!Release(i)
<1>1. /\ i \in live /\ live' = live \ {i} /\ exited' = exited
      /\ mem' = Scratch(mem, Base(i), chunk[Base(i)])
      /\ obj' = [obj EXCEPT ![i] = NoObj]
  BY DEF roc_dealloc_fn, Base
<1>2. ASSUME NEW j \in Ids, j # i PROVE ContentOf(j)' = ContentOf(j)
  <2>1. CASE j \in live
    <3>1. j \in live' /\ obj'[j] = obj[j]
      BY <1>1, <1>2, <2>1 DEF Inv, TypeOK
    <3>2. \A x \in Addr : x \in Span(Base(j), chunk[Base(j)]) => mem'[x] = mem[x]
      BY <1>1, <1>2, <2>1, ChunksApart DEF Scratch
    <3> QED BY <2>1, <3>1, <3>2, ContentFrame
  <2>2. CASE j \notin live
    BY <1>1, <2>2, DeadContent
  <2> QED BY <2>1, <2>2
<1>3. ContentOf(i)' = [k \in {} |-> {}]
  BY <1>1 DEF ContentOf
<1>4. Contents' = [Contents EXCEPT ![i] = [k \in {} |-> {}]]
  BY <1>2, <1>3, OnlyContent
<1> QED BY <1>1, <1>4 DEF Abstract!Release, Abstract!Empty, Contents, ContentOf

(* Roc's own store changes the bytes of one object and not its length. *)
LEMMA StoreStores ==
  ASSUME Inv, Inv', NEW i \in Ids, RocStore(i)
  PROVE  Abstract!Store(i)
<1>1. /\ i \in live /\ live' = live /\ exited' = exited
      /\ chunk' = chunk /\ obj' = obj
      /\ \A x \in Addr : x \notin Span(obj[i].ptr, obj[i].len) => mem'[x] = mem[x]
  BY DEF RocStore
<1>2. ASSUME NEW j \in Ids, j # i PROVE ContentOf(j)' = ContentOf(j)
  <2>1. CASE j \in live
    <3>1. \A x \in Span(obj[i].ptr, obj[i].len) : x \in Span(Base(i), chunk[Base(i)])
      BY <1>1, Layout DEF Span
    <3>2. \A x \in Addr : x \in Span(Base(j), chunk[Base(j)]) => mem'[x] = mem[x]
      BY <1>1, <1>2, <2>1, <3>1, ChunksApart
    <3> QED BY <1>1, <2>1, <3>2, ContentFrame
  <2>2. CASE j \notin live
    BY <1>1, <2>2, DeadContent
  <2> QED BY <2>1, <2>2
<1>3. /\ DOMAIN ContentOf(i) = 0..(obj[i].len - 1)
      /\ ContentOf(i)' \in [0..(obj[i].len - 1) -> Cells]
  <2>1. DOMAIN ContentOf(i) = 0..(obj[i].len - 1)
    BY <1>1, ContentIs
  <2>2. ContentOf(i)' = [k \in 0..(obj[i].len - 1) |-> mem'[obj[i].ptr + k]]
    BY <1>1 DEF ContentOf
  <2>3. \A k \in 0..(obj[i].len - 1) : obj[i].ptr + k \in Addr
    BY <1>1, Layout, SizesAssumption DEF Addr
  <2>4. mem' \in [Addr -> Cells]
    BY DEF Inv, TypeOK
  <2> QED BY <2>1, <2>2, <2>3, <2>4
<1>4. /\ Contents' = [Contents EXCEPT ![i] = Contents'[i]]
      /\ Contents'[i] \in [DOMAIN Contents[i] -> Cells]
  BY <1>2, <1>3, OnlyContent
<1> QED BY <1>1, <1>4 DEF Abstract!Store, Contents, ContentOf

(* An allocation makes one new object of the length asked for; it lies clear
   of every byte of the others.                                              *)
LEMMA AllocAllocates ==
  ASSUME Inv, Inv', NEW i \in Ids, NEW n \in Lengths, NEW a \in Alignments,
         roc_alloc_fn(i, n, a), ~Exit
  PROVE  Abstract!Allocate(i, n)
<1> DEFINE st == SizeStorage(a)
           tot == TotalSize(n, a)
<1>1. PICK b \in Places(tot, Chunks) :
        /\ i \notin live /\ live' = live \cup {i} /\ exited' = exited
        /\ mem' = WriteHeader(Scratch(mem, b, tot), b, st, tot)
        /\ obj' = [obj EXCEPT ![i] = [ptr |-> b + st, len |-> n, align |-> a]]
  BY DEF roc_alloc_fn
<1>2. /\ b \in Addr /\ b \in Nat /\ b + tot - 1 <= MemTop
      /\ \A c \in Chunks : c + chunk[c] <= b \/ b + tot <= c
  BY SizesAssumption DEF Places, DisjointFrom, Addr
<1>3. n \in 0..MaxUsize /\ n \in Nat /\ tot = st + n
  BY <1>2, TotalExact, SizesAssumption
<1>4. st \in Nat /\ tot \in Nat
  BY <1>3, StorageAtLeastAWord
<1>5. \A x \in Addr : x \notin Span(b, tot) => mem'[x] = mem[x]
  <2> DEFINE m == Scratch(mem, b, tot)
  <2>1. b + SizeStorage(a) - 1 <= MemTop /\ mem' = WriteHeader(m, b, st, tot)
    BY <1>1, <1>2, <1>3, <1>4, SizesAssumption
  <2> HIDE DEF m, tot
  <2>4. b \in Addr /\ tot \in Nat
    BY <1>2, <1>4
  <2>5. \A x \in Addr \ Span(b, SizeStorage(a)) :
          WriteHeader(m, b, SizeStorage(a), tot)[x] = m[x]
    BY <2>1, <2>4, HeaderWritten
  <2>2. \A x \in Addr \ Span(b, st) : mem'[x] = m[x]
    BY <2>1, <2>5
  <2>3. \A x \in Addr : x \notin Span(b, tot) => x \notin Span(b, st)
    BY <1>2, <1>3, <1>4 DEF Span, tot
  <2> QED BY <2>2, <2>3 DEF Scratch, m
<1>6. ASSUME NEW j \in Ids, j # i PROVE ContentOf(j)' = ContentOf(j)
  <2>1. CASE j \in live
    <3>1. j \in live' /\ obj'[j] = obj[j]
      BY <1>1, <1>6, <2>1 DEF Inv, TypeOK
    <3>2. Base(j) \in Nat /\ Base(j) \in Chunks /\ chunk[Base(j)] \in Nat
      BY <2>1, Layout
    <3>3. \A x \in Span(Base(j), chunk[Base(j)]) : x \notin Span(b, tot)
      BY <1>2, <1>4, <3>2 DEF Span
    <3> QED BY <1>5, <2>1, <3>1, <3>3, ContentFrame
  <2>2. CASE j \notin live
    BY <1>1, <1>6, <2>2, DeadContent
  <2> QED BY <2>1, <2>2
<1>7. ContentOf(i)' \in [0..(n - 1) -> Cells]
  <2>1. i \in live' /\ obj'[i].len = n /\ obj'[i].ptr = b + st
    BY <1>1 DEF Inv, TypeOK
  <2>2. ContentOf(i)' = [k \in 0..(n - 1) |-> mem'[b + st + k]]
    BY <2>1 DEF ContentOf
  <2>3. \A k \in 0..(n - 1) : b + st + k \in Addr
    BY <1>2, <1>3, <1>4, SizesAssumption DEF Addr
  <2>4. mem' \in [Addr -> Cells]
    BY DEF Inv, TypeOK
  <2> QED BY <2>2, <2>3, <2>4
<1>8. /\ Contents' = [Contents EXCEPT ![i] = Contents'[i]]
      /\ Contents'[i] \in [0..(n - 1) -> Cells]
  BY <1>6, <1>7, OnlyContent
<1> QED BY <1>1, <1>8 DEF Abstract!Allocate, Abstract!Strings, Contents, ContentOf

(* A reallocation keeps the bytes below both lengths, wherever the chunk moves. *)
LEMMA ReallocResizes ==
  ASSUME Inv, Inv', NEW i \in Ids, NEW n \in Lengths, roc_realloc_fn(i, n), ~Exit
  PROVE  Abstract!Resize(i, n)
<1> DEFINE a == obj[i].align
           st == SizeStorage(a)
           tot == TotalSize(n, a)
           old == Base(i)
<1>1. i \in live /\ live' = live /\ exited' = exited
  BY DEF roc_realloc_fn
<1>2. PICK b \in Places(tot, Chunks \ {old}) :
        /\ b = old \/ DisjointFrom(b, tot, {old})
        /\ mem' = WriteSize(MoveChunk(mem, old, chunk[old], b, tot), b, st, tot)
        /\ obj' = [obj EXCEPT ![i] = [ptr |-> b + st, len |-> n, align |-> a]]
  BY DEF roc_realloc_fn, Base
<1>3. /\ b \in Addr /\ b \in Nat /\ b + tot - 1 <= MemTop
      /\ \A c \in Chunks \ {old} : c + chunk[c] <= b \/ b + tot <= c
  BY <1>2, SizesAssumption DEF Places, DisjointFrom, Addr
<1>4. n \in 0..MaxUsize /\ n \in Nat /\ a \in Alignments
  BY <1>1, SizesAssumption, Layout
<1>5. tot = st + n
  BY <1>3, <1>4, TotalExact
<1>6. /\ st \in Nat /\ WordSize \in Nat /\ 1 <= WordSize /\ WordSize <= st
      /\ tot \in Nat
  BY <1>4, <1>5, StorageAtLeastAWord, SizesAssumption
<1>7. /\ old \in Nat /\ obj[i].ptr \in Nat /\ obj[i].len \in Nat
      /\ chunk[old] = st + obj[i].len /\ old = obj[i].ptr - st
  BY <1>1, Layout
<1>8. \A x \in Addr :
        mem'[x] = IF x \in Span(b + st - WordSize, WordSize) THEN WordCell(tot)
                  ELSE IF x \in Span(b, tot)
                    THEN IF x - b < chunk[old] THEN mem[old + (x - b)] ELSE Junk
                    ELSE IF x \in Span(old, chunk[old]) THEN Junk ELSE mem[x]
  BY <1>2 DEF WriteSize, StoreWord, MoveChunk
<1> HIDE DEF a, st, tot, old
<1>9. \A x \in Addr : x \notin Span(b, tot) /\ x \notin Span(old, chunk[old])
                        => mem'[x] = mem[x]
  <2>1. \A x \in Addr : x \notin Span(b, tot) => x \notin Span(b + st - WordSize, WordSize)
    BY <1>3, <1>4, <1>5, <1>6 DEF Span, Addr
  <2> QED BY <1>8, <2>1
<1>10. ASSUME NEW j \in Ids, j # i PROVE ContentOf(j)' = ContentOf(j)
  <2>1. CASE j \in live
    <3>1. j \in live' /\ obj'[j] = obj[j]
      BY <1>1, <1>2, <1>10, <2>1 DEF Inv, TypeOK
    <3>2. Base(j) \in Nat /\ Base(j) \in Chunks /\ chunk[Base(j)] \in Nat
      BY <2>1, Layout
    <3>3. Base(j) # old
      BY <1>1, <1>10, <2>1 DEF Inv, ChunksOwned, old
    <3>4. \A x \in Span(Base(j), chunk[Base(j)]) : x \notin Span(b, tot)
      BY <1>3, <1>6, <3>2, <3>3 DEF Span
    <3>5. \A x \in Span(Base(j), chunk[Base(j)]) : x \notin Span(old, chunk[old])
      BY <1>1, <1>10, <2>1, ChunksApart DEF old
    <3> QED BY <1>9, <2>1, <3>1, <3>4, <3>5, ContentFrame
  <2>2. CASE j \notin live
    BY <1>1, <2>2, DeadContent
  <2> QED BY <2>1, <2>2
<1>11. /\ ContentOf(i)' \in [0..(n - 1) -> Cells]
       /\ \A k \in (DOMAIN ContentOf(i)) \cap (0..(n - 1)) :
            ContentOf(i)'[k] = ContentOf(i)[k]
  <2>1. obj'[i].len = n /\ obj'[i].ptr = b + st
    BY <1>2 DEF Inv, TypeOK
  <2>2. ContentOf(i)' = [k \in 0..(n - 1) |-> mem'[b + st + k]]
    BY <1>1, <2>1 DEF ContentOf
  <2>3. \A k \in 0..(n - 1) : b + st + k \in Addr
    BY <1>3, <1>4, <1>5, <1>6, SizesAssumption DEF Addr
  <2>4. mem' \in [Addr -> Cells]
    BY DEF Inv, TypeOK
  <2>5. ContentOf(i) = [k \in 0..(obj[i].len - 1) |-> mem[obj[i].ptr + k]]
    BY <1>1, ContentIs
  <2>6. ASSUME NEW k \in 0..(n - 1), k \in 0..(obj[i].len - 1)
        PROVE  mem'[b + st + k] = mem[obj[i].ptr + k]
    <3> DEFINE x == b + st + k
    <3>1. /\ x \in Addr /\ x \notin Span(b + st - WordSize, WordSize)
          /\ x \in Span(b, tot) /\ x - b < chunk[old]
          /\ old + (x - b) = obj[i].ptr + k
      BY <1>3, <1>4, <1>5, <1>6, <1>7, <2>3, <2>6 DEF Span
    <3> HIDE DEF x
    <3>2. mem'[x] = mem[obj[i].ptr + k]
      BY <1>8, <3>1
    <3> QED BY <3>2 DEF x
  <2>7. ContentOf(i)' \in [0..(n - 1) -> Cells]
    BY <2>2, <2>3, <2>4
  <2>8. \A k \in (DOMAIN ContentOf(i)) \cap (0..(n - 1)) :
            ContentOf(i)'[k] = ContentOf(i)[k]
    BY <2>2, <2>5, <2>6
  <2> QED BY <2>7, <2>8
<1>12. /\ Contents' = [Contents EXCEPT ![i] = Contents'[i]]
       /\ Contents'[i] \in [0..(n - 1) -> Cells]
       /\ \A k \in (DOMAIN Contents[i]) \cap (0..(n - 1)) :
            Contents'[i][k] = Contents[i][k]
  BY <1>10, <1>11, OnlyContent
<1> QED BY <1>1, <1>12 DEF Abstract!Resize, Abstract!Strings, Contents, ContentOf

(* Every step of the callbacks is a step of RocHeap. *)
LEMMA StepIsHeapStep ==
  ASSUME Inv, Inv', Next
  PROVE  Abstract!Next
<1>1. CASE Exit
  BY <1>1 DEF Next, Exit, Abstract!Next, Abstract!Halt
<1>2. CASE ~Exit
  <2>1. ASSUME NEW i \in Ids, NEW n \in Lengths, NEW a \in Alignments,
               roc_alloc_fn(i, n, a)
        PROVE  Abstract!Next
    BY <1>2, <2>1, AllocAllocates DEF Next, Abstract!Next
  <2>2. ASSUME NEW i \in Ids, roc_dealloc_fn(i) PROVE Abstract!Next
    BY <2>2, DeallocReleases DEF Next, Abstract!Next
  <2>3. ASSUME NEW i \in Ids, NEW n \in Lengths, roc_realloc_fn(i, n)
        PROVE  Abstract!Next
    BY <1>2, <2>3, ReallocResizes DEF Next, Abstract!Next
  <2>4. ASSUME NEW i \in Ids, RocStore(i) PROVE Abstract!Next
    BY <2>4, StoreStores DEF Next, Abstract!Next
  <2> QED BY <2>1, <2>2, <2>3, <2>4 DEF Next
<1> QED BY <1>1, <1>2

(* Seen from Roc, the callbacks implement a heap of private byte strings: no
   call changes the bytes of another object, and a resize keeps the prefix.  *)
THEOREM AllocatorImplementsRocHeap == Spec => ImplementsRocHeap
<1>1. Init => Abstract!Init
  BY DEF Init, Abstract!Init, Abstract!Empty
<1>2. Inv /\ Inv' /\ [Next]_vars => [Abstract!Next]_(Abstract!heapVars)
  <2>1. ASSUME Inv, Inv', Next PROVE Abstract!Next
    BY <2>1, StepIsHeapStep
  <2>2. ASSUME UNCHANGED vars PROVE UNCHANGED Abstract!heapVars
    BY <2>2 DEF vars, Abstract!heapVars
  <2> QED BY <2>1, <2>2
<1> QED BY <1>1, <1>2, AllocatorInvariant, PTL
        DEF Spec, ImplementsRocHeap, Abstract!Spec
=============================================================================
