---------------------------- MODULE RocAllocator ----------------------------
(***************************************************************************)
(* The allocator callbacks of the host (src/src/lib.rs): roc_alloc_fn,     *)
(* roc_dealloc_fn and roc_realloc_fn on top of libc's malloc, realloc and  *)
(* free. Each chunk obtained from libc starts with a header whose size is  *)
(* computed from the requested alignment; the last word of the header      *)
(* holds the chunk's total size, the first word the alignment when there   *)
(* is room for both, and the pointer given to Roc is the byte after it.    *)
(* Nothing is looked up at deallocation: the base pointer is recovered by  *)
(* repeating the header computation.                                       *)
(***************************************************************************)
EXTENDS Integers, FiniteSets

CONSTANTS Ids,          \* names for the allocations the Roc program holds
          UsizeBits,    \* width of usize
          WordSize,     \* size_of::<usize>() = align_of::<usize>()
          MallocAlign,  \* alignment of what libc's malloc returns
          MemTop,       \* addresses 1..MemTop exist; 0 is the null pointer
          MaxLength,    \* the sanity limit of roc_alloc_fn (1 GiB)
          Alignments,   \* alignments of Roc's layouts
          Lengths       \* byte lengths the Roc program asks for

MaxUsize == 2^UsizeBits - 1
PowersOfTwo == {2^k : k \in 0..(UsizeBits - 1)}

Max2(a, b) == IF a >= b THEN a ELSE b
Min2(a, b) == IF a <= b THEN a ELSE b

ASSUME SizesAssumption ==
  /\ UsizeBits \in Nat \ {0}
  /\ MaxUsize \in Nat
  /\ PowersOfTwo \subseteq Nat \ {0}
  /\ WordSize \in PowersOfTwo
  /\ MallocAlign \in Nat \ {0}
  /\ MemTop \in Nat
  /\ MemTop < MaxUsize
  /\ MaxLength \in Nat
  /\ Lengths \subseteq 0..MaxUsize

(* next_power_of_two does not overflow on the alignments Roc uses. *)
ASSUME AlignmentsAssumption ==
  /\ Alignments \subseteq Nat
  /\ \A a \in Alignments : \E p \in PowersOfTwo : Max2(a, WordSize) <= p

(* Roc's layouts are aligned to powers of two, or to nothing at all; of two
   powers of two the smaller divides the larger.                            *)
ASSUME LayoutsAssumption ==
  /\ \A a \in Alignments : a = 0 \/ a \in PowersOfTwo
  /\ \A p, q \in PowersOfTwo : p <= q => q % p = 0

VARIABLES chunk,   \* chunk[b]: size of the libc chunk starting at b, 0 if none
          mem,     \* what every byte of memory holds
          live,    \* the allocations the Roc program holds
          obj,     \* obj[i]: the pointer, length and alignment Roc knows
          exited   \* the process has ended

vars == <<chunk, mem, live, obj, exited>>

Addr == 1..MemTop

(* A byte is unspecified, part of a word the host wrote, or Roc's data. *)
Junk == [kind |-> "junk"]
WordCell(n) == [kind |-> "word", val |-> n]
UserCell(i, k) == [kind |-> "user", id |-> i, off |-> k]
Cells == {Junk} \cup [kind : {"word"}, val : 0..MaxUsize]
                \cup [kind : {"user"}, id : Ids, off : 0..MaxUsize]

NoObj == [ptr |-> 0, len |-> 0, align |-> 0]

-----------------------------------------------------------------------------
(* The header computation shared by the three callbacks.                   *)

NextPowerOfTwo(n) ==
  CHOOSE p \in PowersOfTwo : /\ n <= p
                             /\ \A q \in PowersOfTwo : n <= q => p <= q

(* `size_storage_bytes`: alignment.max(1).max(align_of usize), rounded up. *)
StorageOneWord(align) == WordSize
SizeStorage(align) == NextPowerOfTwo(Max2(Max2(align, 1), WordSize))

(* `length.saturating_add(size_storage_bytes).max(1)` *)
TotalSizeWrapping(length, align) ==
  Max2((length + SizeStorage(align)) % (MaxUsize + 1), 1)
TotalSizeNoHeader(length, align) == Max2(length, 1)
TotalSize(length, align) ==
  Max2(Min2(length + SizeStorage(align), MaxUsize), 1)

-----------------------------------------------------------------------------
(* libc, known only by its contract.                                       *)

Span(b, n) == b..(b + n - 1)

DisjointFrom(b, n, others) ==
  \A c \in others : c + chunk[c] <= b \/ b + n <= c

Chunks == {c \in Addr : chunk[c] # 0}

(* Places where a chunk of n bytes may be put, given the chunks to avoid. *)
Places(n, others) ==
  {b \in Addr : /\ b % MallocAlign = 0
                /\ b + n - 1 <= MemTop
                /\ DisjointFrom(b, n, others)}

(* `m` with the word n stored at address a. *)
StoreWord(m, a, n) ==
  [x \in Addr |-> IF x \in Span(a, WordSize) THEN WordCell(n) ELSE m[x]]

(* `m` with the n bytes at b unspecified. *)
Scratch(m, b, n) == [x \in Addr |-> IF x \in Span(b, n) THEN Junk ELSE m[x]]

(* Contents after realloc moved (or kept) a chunk: the common prefix.      *)
MoveChunk(m, old, oldSize, new, newSize) ==
  [x \in Addr |->
     IF x \in Span(new, newSize)
       THEN IF x - new < oldSize THEN m[old + (x - new)] ELSE Junk
       ELSE IF x \in Span(old, oldSize) THEN Junk ELSE m[x]]

-----------------------------------------------------------------------------
Init ==
  /\ chunk = [a \in Addr |-> 0]
  /\ mem = [a \in Addr |-> Junk]
  /\ live = {}
  /\ obj = [i \in Ids |-> NoObj]
  /\ exited = FALSE

(* std::process::exit(1) out of a callback. *)
Exit ==
  /\ exited' = TRUE
  /\ UNCHANGED <<chunk, mem, live, obj>>

(* The total size goes into the header's last word, right before the data. *)
WriteSizeSecondSlot(m, base, storage, total) ==
  StoreWord(m, base + WordSize, total)
WriteSize(m, base, storage, total) ==
  StoreWord(m, base + storage - WordSize, total)

(* The alignment goes into the first word, when there is room for both.    *)
WriteHeader(m, base, storage, total) ==
  LET sized == WriteSize(m, base, storage, total)
  IN  IF storage >= 2 * WordSize THEN StoreWord(sized, base, storage) ELSE sized

roc_alloc_fn(i, length, align) ==
  LET storage == SizeStorage(align)
      total   == TotalSize(length, align)
  IN  /\ i \notin live
      /\ \/ Exit            \* length > MaxLength, or malloc returned null
         \/ /\ length <= MaxLength
            /\ \E base \in Places(total, Chunks) :
                 /\ chunk' = [chunk EXCEPT ![base] = total]
                 /\ mem' = WriteHeader(Scratch(mem, base, total),
                                       base, storage, total)
                 /\ obj' = [obj EXCEPT ![i] = [ptr   |-> base + storage,
                                               len   |-> length,
                                               align |-> align]]
            /\ live' = live \cup {i}
            /\ UNCHANGED exited

(* Roc passes the pointer and the alignment it allocated with. *)
BasePtr(ptr, align) == ptr - SizeStorage(align)

roc_dealloc_fn(i) ==
  LET base == BasePtr(obj[i].ptr, obj[i].align)
  IN  /\ i \in live
      /\ chunk' = [chunk EXCEPT ![base] = 0]
      /\ mem' = Scratch(mem, base, chunk[base])
      /\ live' = live \ {i}
      /\ obj' = [obj EXCEPT ![i] = NoObj]
      /\ UNCHANGED exited

(* libc keeps the chunk where it is or moves it clear of every other chunk;
   there is no MaxLength test here, only the saturating addition.          *)
roc_realloc_fn(i, newLength) ==
  LET align   == obj[i].align
      storage == SizeStorage(align)
      total   == TotalSize(newLength, align)
      old     == BasePtr(obj[i].ptr, align)
  IN  /\ i \in live
      /\ \/ Exit                             \* realloc returned null
         \/ /\ \E base \in Places(total, Chunks \ {old}) :
                 /\ base = old \/ DisjointFrom(base, total, {old})
                 /\ chunk' = [chunk EXCEPT ![old] = 0, ![base] = total]
                 /\ mem' = WriteSize(MoveChunk(mem, old, chunk[old], base, total),
                                     base, storage, total)
                 /\ obj' = [obj EXCEPT ![i] = [ptr   |-> base + storage,
                                               len   |-> newLength,
                                               align |-> align]]
            /\ UNCHANGED <<live, exited>>

(* The Roc program fills an object it holds; this is its own code.         *)
RocStore(i) ==
  LET ptr == obj[i].ptr
  IN  /\ i \in live
      /\ mem' = [x \in Addr |-> IF x \in Span(ptr, obj[i].len)
                                 THEN UserCell(i, x - ptr) ELSE mem[x]]
      /\ UNCHANGED <<chunk, live, obj, exited>>

Next ==
  /\ ~exited
  /\ \/ \E i \in Ids, n \in Lengths, a \in Alignments : roc_alloc_fn(i, n, a)
     \/ \E i \in Ids : roc_dealloc_fn(i)
     \/ \E i \in Ids, n \in Lengths : roc_realloc_fn(i, n)
     \/ \E i \in Ids : RocStore(i)

Spec == Init /\ [][Next]_vars

-----------------------------------------------------------------------------
Base(i) == BasePtr(obj[i].ptr, obj[i].align)

(* Type correctness. *)
TypeOK ==
  /\ chunk \in [Addr -> 0..MaxUsize]
  /\ mem \in [Addr -> Cells]
  /\ live \subseteq Ids
  /\ obj \in [Ids -> [ptr : 0..(MemTop + 1), len : 0..MaxUsize,
                      align : Alignments \cup {0}]]
  /\ exited \in BOOLEAN

(* The base pointer that roc_dealloc_fn and roc_realloc_fn compute from Roc's
   pointer is the start of a chunk libc handed out, that chunk ends exactly
   where Roc's object ends, no two objects share a chunk, and no chunk is
   without an object (nothing leaks across alloc, realloc and dealloc).     *)
OwnChunk(i) ==
  /\ Base(i) \in Addr
  /\ chunk[Base(i)] = SizeStorage(obj[i].align) + obj[i].len
ChunksOwned ==
  /\ \A i \in live : OwnChunk(i)
  /\ \A i, j \in live : Base(i) = Base(j) => i = j
  /\ \A b \in Chunks : \E i \in live : Base(i) = b

(* The chunks lie in memory and do not overlap: what libc's contract gives. *)
ChunksDisjoint ==
  /\ \A c \in Chunks : c + chunk[c] - 1 <= MemTop
  /\ \A c, d \in Chunks : c # d => c + chunk[c] <= d \/ d + chunk[d] <= c

(* The word in front of Roc's pointer holds the chunk's size, and the first
   word of a header of two words or more holds the alignment: whatever Roc
   stores, and through every realloc that moves, grows or shrinks the chunk. *)
HoldsWord(a, n) == \A x \in Span(a, WordSize) : mem[x] = WordCell(n)
HeaderOf(i) ==
  LET storage == SizeStorage(obj[i].align)
  IN  /\ HoldsWord(obj[i].ptr - WordSize, chunk[Base(i)])
      /\ storage >= 2 * WordSize => HoldsWord(Base(i), storage)
MetadataFaithful == \A i \in live : HeaderOf(i)

(* Roc's pointer has the alignment Roc asked for, as long as that divides
   what malloc guarantees.                                                  *)
PointersAligned ==
  \A i \in live :
    LET a == obj[i].align
    IN  (a > 0 /\ MallocAlign % a = 0) => obj[i].ptr % a = 0

(* Seen from Roc, the objects are private byte strings: no callback changes
   the bytes of another object, and realloc keeps the common prefix.        *)
Abstract == INSTANCE RocHeap WITH
  Bytes   <- Cells,
  content <- [i \in Ids |->
                IF i \in live
                  THEN [k \in 0..(obj[i].len - 1) |-> mem[obj[i].ptr + k]]
                  ELSE [k \in {} |-> {}]],
  halted  <- exited
ImplementsRocHeap == Abstract!Spec
=============================================================================
