------------------------ MODULE BufferedReaderProofs ------------------------
(***************************************************************************)
(* Proofs about BufferedReader: for every capacity, every number of bytes, *)
(* signals and calls, and however the system calls cut the stream.         *)
(***************************************************************************)
EXTENDS BufferedReader, SequenceTheorems, WellFoundedInduction, TLAPS

-----------------------------------------------------------------------------
(* Numbers.                                                                  *)

LEMMA MinIs ==
  ASSUME NEW S \in SUBSET Nat, S # {}
  PROVE  Min(S) \in S /\ \A y \in S : Min(S) <= y
<1>1. IsWellFoundedOn(OpToRel(<, Nat), Nat)
  BY NatLessThanWellFounded
<1>2. PICK p \in S : \A q \in S : ~ (<<q, p>> \in OpToRel(<, Nat))
  BY <1>1, WFMin
<1>3. \A q \in S : ~ (q < p)
  BY <1>2 DEF OpToRel
<1> DEFINE P(x) == \A y \in S : x <= y
<1>4. p \in S /\ P(p)
  BY <1>3
<1>5. Min(S) = CHOOSE x \in S : P(x)
  BY DEF Min
<1> HIDE DEF P
<1>6. Min(S) \in S /\ P(Min(S))
  BY <1>4, <1>5
<1> QED BY <1>6 DEF P

LEMMA MinOfTwo ==
  ASSUME NEW a \in Nat, NEW b \in Nat
  PROVE  Min({a, b}) = IF a <= b THEN a ELSE b
<1>1. Min({a, b}) \in {a, b} /\ \A y \in {a, b} : Min({a, b}) <= y
  BY MinIs
<1> QED BY <1>1

-----------------------------------------------------------------------------
(* Byte strings: what is collected, what is buffered, and what follows. The
   operators below stand for the ones of the model, so that a proof about the
   stream sees these facts about them and nothing else.                      *)
LEMMA Dropped ==
  ASSUME NEW S, NEW s \in Seq(S), NEW k \in 0..Len(s)
  PROVE  /\ DropFirst(s, k) \in Seq(S)
         /\ Len(DropFirst(s, k)) = Len(s) - k
         /\ \A i \in 1..(Len(s) - k) : DropFirst(s, k)[i] = s[k + i]
         /\ SubSeq(s, 1, k) \in Seq(S)
         /\ Len(SubSeq(s, 1, k)) = k
         /\ \A i \in 1..k : SubSeq(s, 1, k)[i] = s[i]
<1>1. Len(s) \in Nat /\ k \in Nat /\ k <= Len(s)
  BY LenProperties
<1>2. \A i \in 1..Len(s) : s[i] \in S
  BY ElementOfSeq
<1>3. \A i \in k + 1..Len(s) : s[i] \in S
  BY <1>1, <1>2
<1>4. /\ SubSeq(s, k + 1, Len(s)) \in Seq(S)
      /\ Len(SubSeq(s, k + 1, Len(s))) = IF k + 1 <= Len(s) THEN Len(s) - (k + 1) + 1 ELSE 0
      /\ \A i \in 1..Len(s) - (k + 1) + 1 : SubSeq(s, k + 1, Len(s))[i] = s[(k + 1) + i - 1]
  BY <1>1, <1>3, SubSeqProperties
<1>5. \A i \in 1..k : s[i] \in S
  BY <1>1, <1>2
<1>6. /\ SubSeq(s, 1, k) \in Seq(S)
      /\ Len(SubSeq(s, 1, k)) = IF 1 <= k THEN k - 1 + 1 ELSE 0
      /\ \A i \in 1..k - 1 + 1 : SubSeq(s, 1, k)[i] = s[1 + i - 1]
  BY <1>1, <1>5, SubSeqProperties
<1> DEFINE d == SubSeq(s, k + 1, Len(s))
           f == SubSeq(s, 1, k)
<1>7. DropFirst(s, k) = d
  BY DEF DropFirst
<1> HIDE DEF d, f
<1>8. Len(d) = Len(s) - k /\ \A i \in 1..(Len(s) - k) : d[i] = s[k + i]
  BY <1>1, <1>4 DEF d
<1>9. Len(f) = k /\ \A i \in 1..k : f[i] = s[i]
  BY <1>1, <1>6 DEF f
<1> QED BY <1>4, <1>6, <1>7, <1>8, <1>9 DEF d, f

LEMMA Rejoined ==
  ASSUME NEW S, NEW s \in Seq(S), NEW k \in 0..Len(s)
  PROVE  SubSeq(s, 1, k) \o DropFirst(s, k) = s
<1>1. Len(s) \in Nat /\ k \in Nat /\ k <= Len(s)
  BY LenProperties
<1>2. SubSeq(s, 1, k) \o SubSeq(s, k + 1, Len(s)) = SubSeq(s, 1, Len(s))
  <2>1. 1 \in 1..Len(s) + 1 /\ k \in 1 - 1..Len(s) /\ Len(s) \in k..Len(s)
    BY <1>1
  <2> QED BY <2>1, ConcatAdjacentSubSeq
<1>3. SubSeq(s, 1, Len(s)) = s
  BY SubSeqFull
<1> QED BY <1>2, <1>3 DEF DropFirst

Strings == Seq(Bytes)
Size(s) == Len(s)
Both(s, t) == s \o t
FirstOf(s, k) == SubSeq(s, 1, k)

LEMMA Sizes ==
  /\ \A s \in Strings : Size(s) \in Nat /\ (Size(s) = 0 <=> s = <<>>)
  /\ <<>> \in Strings /\ Size(<<>>) = 0
<1>1. <<>> \in Strings /\ Size(<<>>) = 0
  BY EmptySeq DEF Strings, Size
<1>2. ASSUME NEW s \in Strings PROVE Size(s) \in Nat /\ (Size(s) = 0 => s = <<>>)
  BY LenProperties, EmptySeq DEF Strings, Size
<1> QED BY <1>1, <1>2

LEMMA Cut ==
  ASSUME NEW s \in Strings, NEW k \in 0..Size(s)
  PROVE  /\ DropFirst(s, k) \in Strings /\ Size(DropFirst(s, k)) = Size(s) - k
         /\ FirstOf(s, k) \in Strings /\ Size(FirstOf(s, k)) = k
         /\ \A i \in 1..k : FirstOf(s, k)[i] = s[i]
         /\ \A i \in 1..(Size(s) - k) : DropFirst(s, k)[i] = s[k + i]
         /\ Both(FirstOf(s, k), DropFirst(s, k)) = s
<1>1. s \in Seq(Bytes) /\ k \in 0..Len(s)
  BY DEF Strings, Size
<1>2. /\ DropFirst(s, k) \in Seq(Bytes) /\ Len(DropFirst(s, k)) = Len(s) - k
      /\ SubSeq(s, 1, k) \in Seq(Bytes) /\ Len(SubSeq(s, 1, k)) = k
      /\ \A i \in 1..k : SubSeq(s, 1, k)[i] = s[i]
      /\ \A i \in 1..(Len(s) - k) : DropFirst(s, k)[i] = s[k + i]
  BY <1>1, Dropped
<1>3. SubSeq(s, 1, k) \o DropFirst(s, k) = s
  BY <1>1, Rejoined
<1> QED BY <1>2, <1>3, Zenon DEF Strings, Size, FirstOf, Both

LEMMA BothIs ==
  ASSUME NEW s \in Strings, NEW t \in Strings
  PROVE  /\ Both(s, t) \in Strings /\ Size(Both(s, t)) = Size(s) + Size(t)
         /\ \A i \in 1..Size(s) : Both(s, t)[i] = s[i]
         /\ \A i \in 1..Size(t) : Both(s, t)[Size(s) + i] = t[i]
         /\ Both(s, <<>>) = s /\ Both(<<>>, t) = t
<1>1. s \in Seq(Bytes) /\ t \in Seq(Bytes)
  BY DEF Strings
<1>2. /\ s \o t \in Seq(Bytes) /\ Len(s \o t) = Len(s) + Len(t)
      /\ \A i \in 1..Len(s) + Len(t) : (s \o t)[i] =
                     IF i <= Len(s) THEN s[i] ELSE t[i - Len(s)]
  BY <1>1, ConcatProperties
<1>3. s \o <<>> = s /\ <<>> \o t = t
  BY <1>1, ConcatEmptySeq
<1>4. Len(s) \in Nat /\ Len(t) \in Nat
  BY <1>1, LenProperties
<1> DEFINE u == s \o t
<1>5. u \in Seq(Bytes) /\ Len(u) = Len(s) + Len(t)
  BY <1>2
<1>6. \A i \in 1..Len(s) + Len(t) : u[i] = IF i <= Len(s) THEN s[i] ELSE t[i - Len(s)]
  BY <1>2
<1> HIDE DEF u
<1>7. \A i \in 1..Len(s) : u[i] = s[i]
  BY <1>4, <1>6
<1>8. ASSUME NEW i \in 1..Len(t) PROVE u[Len(s) + i] = t[i]
  <2>1. /\ Len(s) + i \in 1..Len(s) + Len(t) /\ ~ (Len(s) + i <= Len(s))
        /\ (Len(s) + i) - Len(s) = i
    BY <1>4
  <2> QED BY <1>6, <2>1
<1>9. u = Both(s, t)
  BY DEF u, Both
<1> QED BY <1>3, <1>5, <1>7, <1>8, <1>9, Zenon DEF Strings, Size, Both

LEMMA SameString ==
  ASSUME NEW s \in Strings, NEW t \in Strings, Size(s) = Size(t),
         \A i \in 1..Size(s) : s[i] = t[i]
  PROVE  s = t
  BY SeqEqual DEF Strings, Size

LEMMA Associative ==
  ASSUME NEW s \in Strings, NEW t \in Strings, NEW u \in Strings
  PROVE  Both(Both(s, t), u) = Both(s, Both(t, u))
<1>1. s \in Seq(Bytes) /\ t \in Seq(Bytes) /\ u \in Seq(Bytes)
  BY DEF Strings
<1>2. (s \o t) \o u = s \o (t \o u)
  BY <1>1, ConcatAssociative
<1> QED BY <1>2, Zenon DEF Both

LEMMA Parted ==
  ASSUME NEW s \in Strings, NEW t \in Strings
  PROVE  FirstOf(Both(s, t), Size(s)) = s /\ DropFirst(Both(s, t), Size(s)) = t
<1> DEFINE w == Both(s, t)
           k == Size(s)
<1>1. /\ w \in Strings /\ Size(w) = k + Size(t)
      /\ \A i \in 1..k : w[i] = s[i]
      /\ k \in Nat /\ Size(t) \in Nat
  BY BothIs, Sizes
<1>2. \A i \in 1..Size(t) : w[k + i] = t[i]
  BY BothIs
<1> HIDE DEF w
<1>3. k \in 0..Size(w)
  BY <1>1
<1>4. /\ FirstOf(w, k) \in Strings /\ Size(FirstOf(w, k)) = k
      /\ \A i \in 1..k : FirstOf(w, k)[i] = w[i]
  BY <1>1, <1>3, Cut
<1>5. FirstOf(w, k) = s
  BY <1>1, <1>4, SameString
<1>6. /\ DropFirst(w, k) \in Strings /\ Size(DropFirst(w, k)) = Size(w) - k
      /\ \A i \in 1..(Size(w) - k) : DropFirst(w, k)[i] = w[k + i]
  BY <1>1, <1>3, Cut
<1>7. DropFirst(w, k) = t
  BY <1>1, <1>2, <1>6, SameString
<1> QED BY <1>5, <1>7 DEF w

(* The three parts of the stream, as one. *)
Whole(a, s, t) == Both(Both(a, s), t)

LEMMA WholeIs ==
  ASSUME NEW a \in Strings, NEW s \in Strings, NEW t \in Strings
  PROVE  /\ Whole(a, s, t) \in Strings
         /\ Size(Whole(a, s, t)) = Size(a) + Size(s) + Size(t)
  BY BothIs, Sizes DEF Whole

(* Taking a and k bytes of s off the front. *)
LEMMA FrontTaken ==
  ASSUME NEW a \in Strings, NEW s \in Strings, NEW t \in Strings, NEW k \in 0..Size(s)
  PROVE  /\ FirstOf(Whole(a, s, t), Size(a) + k) = Both(a, FirstOf(s, k))
         /\ DropFirst(Whole(a, s, t), Size(a) + k) = Whole(<<>>, DropFirst(s, k), t)
<1> DEFINE f == FirstOf(s, k)
           d == DropFirst(s, k)
           x == Both(a, f)
           y == Both(d, t)
<1>1. /\ f \in Strings /\ d \in Strings /\ Size(f) = k /\ Both(f, d) = s
  BY Cut
<1> HIDE DEF f, d
<1>2. /\ x \in Strings /\ Size(x) = Size(a) + k /\ y \in Strings
  BY <1>1, BothIs
<1>3. Whole(a, s, t) = Both(x, y)
  <2>1. Both(a, s) = Both(x, d)
    BY <1>1, Associative
  <2> HIDE DEF x
  <2>2. Both(Both(x, d), t) = Both(x, y)
    BY <1>1, <1>2, Associative
  <2> QED BY <2>1, <2>2 DEF Whole
<1>4. Whole(<<>>, d, t) = y
  BY <1>1, BothIs DEF Whole
<1> HIDE DEF x, y
<1>5. FirstOf(Both(x, y), Size(x)) = x /\ DropFirst(Both(x, y), Size(x)) = y
  BY <1>2, Parted
<1> QED BY <1>2, <1>3, <1>4, <1>5 DEF x, f, d

(* Moving k bytes of s to what was collected leaves the stream as it is. *)
LEMMA FrontMoved ==
  ASSUME NEW a \in Strings, NEW s \in Strings, NEW t \in Strings, NEW k \in 0..Size(s)
  PROVE  Whole(Both(a, FirstOf(s, k)), DropFirst(s, k), t) = Whole(a, s, t)
<1> DEFINE f == FirstOf(s, k)
           d == DropFirst(s, k)
<1>1. /\ f \in Strings /\ d \in Strings /\ Both(f, d) = s
  BY Cut
<1> HIDE DEF f, d
<1>2. Both(Both(a, f), d) = Both(a, s)
  BY <1>1, Associative
<1> QED BY <1>2 DEF Whole, f, d

(* So does cutting what follows elsewhere. *)
LEMMA SameStream ==
  ASSUME NEW a \in Strings, NEW s \in Strings, NEW t \in Strings,
         NEW u \in Strings, NEW v \in Strings, Both(s, t) = Both(u, v)
  PROVE  Whole(a, s, t) = Whole(a, u, v)
<1>1. Both(Both(a, s), t) = Both(a, Both(s, t)) /\ Both(Both(a, u), v) = Both(a, Both(u, v))
  BY Associative
<1> QED BY <1>1 DEF Whole

LEMMA ByteOf ==
  ASSUME NEW s \in Strings, NEW i \in 1..Size(s)
  PROVE  s[i] \in Bytes
  BY ElementOfSeq DEF Strings, Size

(* memchr finds the first byte equal to the delimiter, and 0 when there is none. *)
LEMMA FindIs ==
  ASSUME NEW s \in Strings, NEW d
  PROVE  /\ Find(s, d) \in 0..Size(s)
         /\ Find(s, d) = 0 => \A i \in 1..Size(s) : s[i] # d
         /\ Find(s, d) # 0 => /\ s[Find(s, d)] = d
                              /\ \A i \in 1..(Find(s, d) - 1) : s[i] # d
<1> DEFINE at == {i \in 1..Len(s) : s[i] = d}
           p == Find(s, d)
<1>1. Len(s) \in Nat /\ Len(s) = Size(s)
  BY Sizes DEF Size
<1>2. p = IF at # {} THEN Min(at) ELSE 0
  BY DEF Find, SelectInSeq
<1>3. at \in SUBSET Nat
  BY <1>1
<1>4. at # {} => Min(at) \in at /\ \A y \in at : Min(at) <= y
  BY <1>3, MinIs
<1> HIDE DEF p
<1>5. CASE at = {}
  BY <1>1, <1>2, <1>5 DEF p
<1>6. CASE at # {}
  <2>1. p \in at /\ \A y \in at : p <= y
    BY <1>2, <1>4, <1>6
  <2>2. p \in 1..Size(s) /\ s[p] = d
    BY <1>1, <2>1
  <2>3. \A i \in 1..(p - 1) : s[i] # d
    BY <1>1, <2>1
  <2> QED BY <2>2, <2>3 DEF p
<1> QED BY <1>5, <1>6

-----------------------------------------------------------------------------
(* The inductive invariant: what the call in progress has collected, how much
   there can be of it, and that a line has no delimiter yet.                  *)
Fns == {"none", "read_until", "stdin_line", "Stdin.line!", "read_exactly",
        "read_to_end", "read_up_to", "stdin_bytes"}
Tags == {"Ok", "Err", "UnexpectedEof", "EndOfFile"}

ReaderTypes ==
  /\ incoming \in Strings /\ buf \in Strings
  /\ op \in [fn : Fns, delim : Bytes, n : Nat, acc : Strings]
  /\ Size(buf) <= Capacity
  /\ closed \in BOOLEAN /\ waits \in BOOLEAN
  /\ ret.tag \in Tags
  /\ sent \in 0..MaxBytes /\ signals \in 0..MaxSignals /\ calls \in 0..MaxCalls

Pending == Whole(op.acc, buf, incoming)

NothingExtra == Size(Pending) <= sent

CallFits ==
  /\ op.fn = "none" => op = Idle
  /\ op.fn \in LineCalls => \A i \in 1..Size(op.acc) : op.acc[i] # op.delim
  /\ op.fn \in {"stdin_line", "Stdin.line!"} => op.delim = NL
  /\ op.fn = "read_exactly" => op.n \in Counts /\ Size(op.acc) <= op.n
  /\ op.fn = "read_to_end" => op.n = MaxBytes + 1
  /\ op.fn = "read_up_to" => op.n \in Counts /\ op.acc = <<>>
  /\ op.fn = "stdin_bytes" => op.n = Chunk /\ op.acc = <<>>

ReaderInv == ReaderTypes /\ NothingExtra /\ CallFits

(* fill_buf shows the front f of what is to be read, and g follows; it shows
   nothing only at the end of the stream.                                    *)
Shown(f, g) ==
  /\ f \in Strings /\ g \in Strings
  /\ Both(f, g) = Both(buf, incoming)
  /\ Size(f) + Size(g) = Size(buf) + Size(incoming)
  /\ Size(f) <= Capacity

LEMMA Filled ==
  ASSUME ReaderTypes, NEW filled \in FillBuf
  PROVE  /\ Shown(filled[1], filled[2])
         /\ Size(filled[1]) = 0 => AtEnd /\ filled[1] = <<>> /\ filled[2] = <<>>
<1>1. /\ incoming \in Strings /\ buf \in Strings /\ Size(buf) <= Capacity
      /\ Size(incoming) \in Nat /\ Size(buf) \in Nat /\ Capacity \in Nat
  BY Sizes, ReaderAssumption DEF ReaderTypes
<1>2. ASSUME filled = <<buf, incoming>>, buf = <<>> => AtEnd /\ incoming = <<>>
      PROVE  /\ Shown(filled[1], filled[2])
             /\ Size(filled[1]) = 0 => AtEnd /\ filled[1] = <<>> /\ filled[2] = <<>>
  <2>1. filled[1] = buf /\ filled[2] = incoming
    BY <1>2
  <2> QED BY <1>1, <1>2, <2>1, Sizes DEF Shown
<1>3. ASSUME NEW k \in 1..Min({Capacity, Len(incoming)}), buf = <<>>,
             filled = <<SubSeq(incoming, 1, k), DropFirst(incoming, k)>>
      PROVE  Shown(filled[1], filled[2]) /\ Size(filled[1]) # 0
  <2>1. k \in 0..Size(incoming) /\ k <= Capacity /\ k # 0 /\ k \in Nat
    BY <1>1, MinOfTwo DEF Size
  <2>2. filled[1] = FirstOf(incoming, k) /\ filled[2] = DropFirst(incoming, k)
    BY <1>3 DEF FirstOf
  <2> DEFINE f == FirstOf(incoming, k)
             d == DropFirst(incoming, k)
  <2>3. /\ d \in Strings /\ Size(d) = Size(incoming) - k
        /\ f \in Strings /\ Size(f) = k /\ Both(f, d) = incoming
    BY <1>1, <2>1, Cut
  <2>4. Both(buf, incoming) = incoming /\ Size(buf) = 0
    BY <1>1, <1>3, BothIs, Sizes
  <2> HIDE DEF f, d
  <2>5. Shown(f, d) /\ Size(f) # 0
    BY <1>1, <2>1, <2>3, <2>4 DEF Shown
  <2> QED BY <2>2, <2>5 DEF f, d
<1>4. CASE buf # <<>>
  <2>1. filled = <<buf, incoming>>
    BY <1>4 DEF FillBuf, GivesNothing
  <2> QED BY <1>2, <1>4, <2>1
<1>5. CASE buf = <<>>
  <2>1. \/ \E k \in 1..Min({Capacity, Len(incoming)}) :
             filled = <<SubSeq(incoming, 1, k), DropFirst(incoming, k)>>
        \/ filled = <<buf, incoming>> /\ AtEnd /\ incoming = <<>>
    BY <1>5 DEF FillBuf, GivesNothing
  <2>2. CASE \E k \in 1..Min({Capacity, Len(incoming)}) :
               filled = <<SubSeq(incoming, 1, k), DropFirst(incoming, k)>>
    BY <1>3, <1>5, <2>2
  <2>3. CASE filled = <<buf, incoming>> /\ AtEnd /\ incoming = <<>>
    BY <1>2, <2>3
  <2> QED BY <2>1, <2>2, <2>3
<1> QED BY <1>4, <1>5

(* A round of a loop consumes k bytes of what fill_buf showed. *)
Advance(f, g, k) ==
  /\ Shown(f, g) /\ k \in 0..Size(f)
  /\ buf' = DropFirst(f, k) /\ incoming' = g

LEMMA AdvanceTypes ==
  ASSUME ReaderTypes, NEW f, NEW g, NEW k, Advance(f, g, k)
  PROVE  /\ buf' \in Strings /\ incoming' \in Strings /\ Size(buf') <= Capacity
         /\ FirstOf(f, k) \in Strings /\ Size(FirstOf(f, k)) = k /\ k \in Nat
         /\ k + Size(buf') + Size(incoming') = Size(buf) + Size(incoming)
<1>1. /\ f \in Strings /\ g \in Strings /\ k \in 0..Size(f) /\ Size(f) <= Capacity
      /\ Size(f) + Size(g) = Size(buf) + Size(incoming)
      /\ buf' = DropFirst(f, k) /\ incoming' = g
  BY DEF Advance, Shown
<1>2. Size(f) \in Nat /\ Size(g) \in Nat /\ Capacity \in Nat
  BY <1>1, Sizes, ReaderAssumption
<1>3. /\ DropFirst(f, k) \in Strings /\ Size(DropFirst(f, k)) = Size(f) - k
      /\ FirstOf(f, k) \in Strings /\ Size(FirstOf(f, k)) = k
  BY <1>1, Cut
<1> QED BY <1>1, <1>2, <1>3

(* One that ends no call moves them to what is collected ... *)
LEMMA RoundOn ==
  ASSUME ReaderTypes, NEW f, NEW g, NEW k, Advance(f, g, k),
         op'.acc = Both(op.acc, FirstOf(f, k))
  PROVE  Pending' = Pending
<1>1. /\ f \in Strings /\ g \in Strings /\ k \in 0..Size(f)
      /\ Both(f, g) = Both(buf, incoming)
      /\ buf' = DropFirst(f, k) /\ incoming' = g
  BY DEF Advance, Shown
<1>2. op.acc \in Strings /\ buf \in Strings /\ incoming \in Strings
  BY DEF ReaderTypes
<1>3. Whole(Both(op.acc, FirstOf(f, k)), DropFirst(f, k), g) = Whole(op.acc, f, g)
  BY <1>1, <1>2, FrontMoved
<1>4. Whole(op.acc, f, g) = Whole(op.acc, buf, incoming)
  BY <1>1, <1>2, SameStream
<1> QED BY <1>1, <1>3, <1>4 DEF Pending

(* ... and one that ends a call takes them, with what was collected, off the
   front of the stream.                                                      *)
LEMMA RoundOff ==
  ASSUME ReaderTypes, NEW f, NEW g, NEW k, Advance(f, g, k), op' = Idle
  PROVE  LET n == Size(op.acc) + k
         IN  /\ n \in Nat /\ n <= Size(Pending)
             /\ Pending' = DropFirst(Pending, n)
             /\ FirstOf(Pending, n) = Both(op.acc, FirstOf(f, k))
             /\ Size(Pending) = Size(op.acc) + Size(f) + Size(g)
<1> DEFINE n == Size(op.acc) + k
<1>1. /\ f \in Strings /\ g \in Strings /\ k \in 0..Size(f)
      /\ Both(f, g) = Both(buf, incoming)
      /\ buf' = DropFirst(f, k) /\ incoming' = g
  BY DEF Advance, Shown
<1>2. op.acc \in Strings /\ buf \in Strings /\ incoming \in Strings
  BY DEF ReaderTypes
<1>3. Pending = Whole(op.acc, f, g)
  BY <1>1, <1>2, SameStream DEF Pending
<1>4. /\ FirstOf(Whole(op.acc, f, g), n) = Both(op.acc, FirstOf(f, k))
      /\ DropFirst(Whole(op.acc, f, g), n) = Whole(<<>>, DropFirst(f, k), g)
  BY <1>1, <1>2, FrontTaken
<1>5. Pending' = Whole(<<>>, DropFirst(f, k), g)
  BY <1>1 DEF Pending, Idle
<1>6. Size(Pending) = Size(op.acc) + Size(f) + Size(g)
  BY <1>1, <1>2, <1>3, WholeIs
<1>7. Size(op.acc) \in Nat /\ Size(f) \in Nat /\ Size(g) \in Nat
  BY <1>1, <1>2, Sizes
<1>8. n \in Nat /\ n <= Size(Pending)
  BY <1>1, <1>6, <1>7
<1> HIDE DEF n
<1> QED BY <1>3, <1>4, <1>5, <1>6, <1>8 DEF n

(* So does one that reads nothing more. *)
LEMMA NothingMore ==
  ASSUME ReaderTypes, op' = Idle, buf' = buf, incoming' = incoming
  PROVE  LET n == Size(op.acc)
         IN  /\ n \in Nat /\ n <= Size(Pending)
             /\ Pending' = DropFirst(Pending, n)
             /\ FirstOf(Pending, n) = op.acc
<1>1. op.acc \in Strings /\ buf \in Strings /\ incoming \in Strings /\ Size(buf) <= Capacity
  BY DEF ReaderTypes
<1>2. Size(op.acc) \in Nat /\ Size(buf) \in Nat /\ Size(incoming) \in Nat
  BY <1>1, Sizes
<1>3. Both(op.acc, Both(buf, incoming)) = Pending
  BY <1>1, Associative DEF Pending, Whole
<1>4. Both(buf, incoming) \in Strings
  BY <1>1, BothIs
<1>5. FirstOf(Pending, Size(op.acc)) = op.acc /\ DropFirst(Pending, Size(op.acc)) = Both(buf, incoming)
  BY <1>1, <1>3, <1>4, Parted
<1>6. Pending' = Both(buf, incoming)
  BY <1>1, BothIs DEF Pending, Whole, Idle
<1>7. Size(Pending) = Size(op.acc) + Size(buf) + Size(incoming)
  BY <1>1, WholeIs DEF Pending
<1> QED BY <1>2, <1>5, <1>6, <1>7

-----------------------------------------------------------------------------
(* Lines.                                                                    *)

(* What a call that ends with `line` has taken: all of it is off the front of
   the stream, and it reaches to its delimiter or to the end.                *)
LineTaken(line) ==
  LET n == Size(line)
  IN  /\ n <= Size(Pending) /\ FirstOf(Pending, n) = line
      /\ Pending' = DropFirst(Pending, n)
      /\ \A i \in 1..(n - 1) : line[i] # op.delim
      /\ \/ n # 0 /\ line[n] = op.delim
         \/ /\ AtEnd /\ n = Size(Pending) /\ buf' = <<>> /\ incoming' = <<>>
            /\ \A i \in 1..n : line[i] # op.delim

(* One round of read_until ends the call with such a line, or goes on. *)
LEMMA LineRound ==
  ASSUME ReaderTypes, read_until
  PROVE  \E f, g, k :
           LET line == Both(op.acc, FirstOf(f, k))
           IN  /\ Advance(f, g, k)
               /\ \/ /\ k # 0 /\ f[k] = op.delim
                     /\ \A i \in 1..(k - 1) : f[i] # op.delim
                     /\ Collected(line)
                  \/ /\ k = 0 /\ AtEnd /\ f = <<>> /\ g = <<>>
                     /\ Collected(line)
                  \/ /\ k # 0 /\ \A i \in 1..k : f[i] # op.delim
                     /\ op' = [op EXCEPT !.acc = line] /\ UNCHANGED ret
<1>1. PICK filled \in FillBuf :
        LET i    == Find(filled[1], op.delim)
            used == IF i # 0 THEN i ELSE Len(filled[1])
            line == op.acc \o SubSeq(filled[1], 1, used)
        IN  /\ Consume(filled, used)
            /\ IF i # 0 \/ used = 0 THEN Collected(line)
                 ELSE op' = [op EXCEPT !.acc = line] /\ UNCHANGED ret
  BY DEF read_until, ReadUntilOk
<1> DEFINE f == filled[1]
           g == filled[2]
           i == Find(f, op.delim)
           k == IF i # 0 THEN i ELSE Size(f)
           line == Both(op.acc, FirstOf(f, k))
<1>2. /\ Consume(filled, k)
      /\ IF i # 0 \/ k = 0 THEN Collected(line)
           ELSE op' = [op EXCEPT !.acc = line] /\ UNCHANGED ret
  BY <1>1 DEF Both, FirstOf, Size
<1>3. Shown(f, g) /\ (Size(f) = 0 => AtEnd /\ f = <<>> /\ g = <<>>)
  BY Filled
<1>4. /\ i \in 0..Size(f)
      /\ i = 0 => \A j \in 1..Size(f) : f[j] # op.delim
      /\ i # 0 => f[i] = op.delim /\ \A j \in 1..(i - 1) : f[j] # op.delim
  BY <1>3, FindIs DEF Shown
<1>5. Size(f) \in Nat
  BY <1>3, Sizes DEF Shown
<1>6. k \in 0..Size(f)
  BY <1>4, <1>5
<1>7. buf' = DropFirst(f, k) /\ incoming' = g
  BY <1>2 DEF Consume
<1> HIDE DEF f, g, i
<1>8. Advance(f, g, k)
  BY <1>3, <1>6, <1>7 DEF Advance
<1> SUFFICES
      \/ /\ k # 0 /\ f[k] = op.delim
         /\ \A j \in 1..(k - 1) : f[j] # op.delim
         /\ Collected(line)
      \/ /\ k = 0 /\ AtEnd /\ f = <<>> /\ g = <<>>
         /\ Collected(line)
      \/ /\ k # 0 /\ \A j \in 1..k : f[j] # op.delim
         /\ op' = [op EXCEPT !.acc = line] /\ UNCHANGED ret
  BY <1>8
<1>9. CASE i # 0
  <2>1. k = i
    BY <1>9
  <2> QED BY <1>2, <1>4, <1>9, <2>1
<1>10. CASE i = 0
  <2>1. k = Size(f) /\ \A j \in 1..Size(f) : f[j] # op.delim
    BY <1>4, <1>10
  <2>2. CASE k = 0
    BY <1>2, <1>3, <2>1, <2>2
  <2>3. CASE k # 0
    BY <1>2, <1>10, <2>1, <2>3
  <2> QED BY <2>2, <2>3
<1> QED BY <1>9, <1>10

LEMMA CollectedEnds ==
  ASSUME NEW line, Collected(line)
  PROVE  op' = Idle
  BY DEF Collected, Return

LEMMA LineEnds ==
  ASSUME ReaderInv, read_until
  PROVE  \/ \E line \in Strings : LineTaken(line) /\ Collected(line)
         \/ /\ Pending' = Pending /\ UNCHANGED ret
            /\ \E line \in Strings : /\ op' = [op EXCEPT !.acc = line]
                                    /\ \A i \in 1..Size(line) : line[i] # op.delim
<1>1. PICK f, g, k :
        LET line == Both(op.acc, FirstOf(f, k))
        IN  /\ Advance(f, g, k)
            /\ \/ /\ k # 0 /\ f[k] = op.delim
                  /\ \A i \in 1..(k - 1) : f[i] # op.delim
                  /\ Collected(line)
               \/ /\ k = 0 /\ AtEnd /\ f = <<>> /\ g = <<>>
                  /\ Collected(line)
               \/ /\ k # 0 /\ \A i \in 1..k : f[i] # op.delim
                  /\ op' = [op EXCEPT !.acc = line] /\ UNCHANGED ret
  BY LineRound DEF ReaderInv
<1> DEFINE a == op.acc
           d == op.delim
           line == Both(a, FirstOf(f, k))
           n == Size(line)
<1>2. /\ a \in Strings /\ f \in Strings /\ g \in Strings /\ k \in 0..Size(f)
      /\ buf' = DropFirst(f, k) /\ incoming' = g
      /\ \A i \in 1..Size(a) : a[i] # d
  BY <1>1 DEF ReaderInv, ReaderTypes, CallFits, read_until, Advance, Shown
<1>3. Size(a) \in Nat /\ Size(f) \in Nat /\ k \in Nat
  BY <1>2, Sizes
<1>4. /\ FirstOf(f, k) \in Strings /\ Size(FirstOf(f, k)) = k
      /\ \A i \in 1..k : FirstOf(f, k)[i] = f[i]
  BY <1>2, Cut
<1>5. /\ line \in Strings /\ n = Size(a) + k
      /\ \A i \in 1..Size(a) : line[i] = a[i]
      /\ \A i \in 1..k : line[Size(a) + i] = f[i]
  <2>1. line \in Strings /\ n = Size(a) + k
    BY <1>2, <1>4, BothIs
  <2>2. \A i \in 1..Size(a) : line[i] = a[i]
    BY <1>2, <1>4, BothIs
  <2>3. \A i \in 1..k : line[Size(a) + i] = FirstOf(f, k)[i]
    BY <1>2, <1>4, BothIs
  <2> QED BY <1>4, <2>1, <2>2, <2>3
<1>6. ReaderTypes
  BY DEF ReaderInv
<1>7. CASE /\ \A i \in 1..k : f[i] # d
           /\ op' = [op EXCEPT !.acc = line] /\ UNCHANGED ret
  <2>2. \A i \in 1..n : line[i] # d
    <3> SUFFICES ASSUME NEW i \in 1..n PROVE line[i] # d
      OBVIOUS
    <3> HIDE DEF line
    <3>1. CASE i <= Size(a)
      BY <1>2, <1>3, <1>5, <3>1
    <3>2. CASE ~ (i <= Size(a))
      <4>1. i - Size(a) \in 1..k /\ Size(a) + (i - Size(a)) = i
        BY <1>3, <1>5, <3>2
      <4> QED BY <1>5, <1>7, <4>1
    <3> QED BY <3>1, <3>2
  <2>1. op'.acc = line
    <3>1. op \in [fn : Fns, delim : Bytes, n : Nat, acc : Strings]
      BY <1>6 DEF ReaderTypes
    <3> HIDE DEF line
    <3> QED BY <1>7, <3>1
  <2>3. Pending' = Pending
    BY <1>1, <1>6, <2>1, RoundOn
  <2> HIDE DEF line
  <2> QED BY <1>5, <1>7, <2>2, <2>3
<1>8. CASE Collected(line)
  <2>1. op' = Idle
    BY <1>8, CollectedEnds
  <2>2. /\ n <= Size(Pending)
        /\ Pending' = DropFirst(Pending, n)
        /\ FirstOf(Pending, n) = line
        /\ Size(Pending) = Size(a) + Size(f) + Size(g)
    BY <1>1, <1>5, <1>6, <2>1, RoundOff
  <2> HIDE DEF line
  <2>3. CASE k # 0 /\ f[k] = d /\ \A i \in 1..(k - 1) : f[i] # d
    <3>1. \A i \in 1..(n - 1) : line[i] # d
      <4> SUFFICES ASSUME NEW i \in 1..(n - 1) PROVE line[i] # d
        OBVIOUS
      <4>1. CASE i <= Size(a)
        BY <1>2, <1>3, <1>5, <4>1
      <4>2. CASE ~ (i <= Size(a))
        <5>1. i - Size(a) \in 1..(k - 1) /\ i - Size(a) \in 1..k /\ Size(a) + (i - Size(a)) = i
          BY <1>3, <1>5, <4>2
        <5> QED BY <1>5, <2>3, <5>1
      <4> QED BY <4>1, <4>2
    <3>2. n # 0 /\ line[n] = d
      <4>1. k \in 1..k
        BY <1>3, <2>3
      <4> QED BY <1>3, <1>5, <2>3, <4>1
    <3> QED BY <1>5, <1>8, <2>2, <3>1, <3>2 DEF LineTaken
  <2>4. CASE k = 0 /\ AtEnd /\ f = <<>> /\ g = <<>>
    <3>1. Size(f) = 0 /\ Size(g) = 0
      BY <2>4, Sizes
    <3>2. n = Size(Pending) /\ n = Size(a)
      BY <1>3, <1>5, <2>2, <2>4, <3>1
    <3>3. \A i \in 1..n : line[i] # d
      BY <1>2, <1>5, <3>2
    <3>4. \A i \in 1..(n - 1) : line[i] # d
      BY <1>3, <3>2, <3>3
    <3>5. buf' = <<>> /\ incoming' = <<>>
      <4>1. buf' \in Strings /\ Size(buf') = 0
        BY <1>2, <2>4, <3>1, Cut
      <4> QED BY <1>2, <2>4, <4>1, Sizes
    <3> QED BY <1>5, <1>8, <2>2, <2>4, <3>2, <3>3, <3>4, <3>5 DEF LineTaken
  <2>5. \/ k # 0 /\ f[k] = d /\ \A i \in 1..(k - 1) : f[i] # d
        \/ k = 0 /\ AtEnd /\ f = <<>> /\ g = <<>>
        \/ op' = [op EXCEPT !.acc = line]
    BY <1>1 DEF line
  <2>6. CASE op' = [op EXCEPT !.acc = line]
    <3>1. op'.fn = op.fn
      BY <2>6
    <3> QED BY <2>1, <3>1 DEF read_until, LineCalls, Idle
  <2> QED BY <2>3, <2>4, <2>5, <2>6
<1> QED BY <1>1, <1>7, <1>8

-----------------------------------------------------------------------------
(* What ByteStream says of the bytes not yet taken, in the terms used here.  *)

LEMMA TakeIs ==
  ASSUME NEW fn, NEW k, NEW tag, NEW bytes,
         Pending' = DropFirst(Pending, k), UNCHANGED <<closed, waits>>,
         ret' = [fn |-> fn, tag |-> tag, bytes |-> bytes]
  PROVE  Stream!Take(fn, k, tag, bytes)
  BY Zenon DEF Stream!Take, Pending, Whole, Both, DropFirst

LEMMA FirstIs ==
  ASSUME NEW k
  PROVE  Stream!First(k) = FirstOf(Pending, k)
  BY Zenon DEF Stream!First, Pending, Whole, Both, FirstOf

LEMMA PendingIs ==
  /\ (op.acc \o buf) \o incoming = Pending
  /\ ReaderTypes => Pending \in Strings /\ Size(Pending) \in Nat
<1>1. (op.acc \o buf) \o incoming = Pending
  BY Zenon DEF Pending, Whole, Both
<1>2. ASSUME ReaderTypes PROVE Pending \in Strings /\ Size(Pending) \in Nat
  <2>1. op.acc \in Strings /\ buf \in Strings /\ incoming \in Strings
    BY <1>2 DEF ReaderTypes
  <2> QED BY <2>1, WholeIs, Sizes DEF Pending
<1> QED BY <1>1, <1>2

LEMMA UpToDelimiterIs ==
  ASSUME NEW d
  PROVE  LET at == {k \in 1..Size(Pending) : Pending[k] = d}
         IN  Stream!UpToDelimiter(d) =
               IF at # {} THEN {Min(at)} ELSE IF AtEnd THEN {Size(Pending)} ELSE {}
<1>1. (op.acc \o buf) \o incoming = Pending
  BY PendingIs
<1> HIDE DEF Pending
<1> QED BY <1>1 DEF Stream!UpToDelimiter, Stream!Min, Min, Size, Stream!AtEnd, AtEnd

LEMMA ReachesDelimiter ==
  ASSUME ReaderTypes, NEW line \in Strings, LineTaken(line)
  PROVE  Size(line) \in Stream!UpToDelimiter(op.delim)
<1> DEFINE n == Size(line)
           p == Pending
           at == {k \in 1..Size(p) : p[k] = op.delim}
<1>1. p \in Strings /\ Size(p) \in Nat /\ n \in Nat
  BY PendingIs, Sizes
<1>2. /\ n <= Size(p) /\ FirstOf(p, n) = line
      /\ \A i \in 1..(n - 1) : line[i] # op.delim
      /\ \/ n # 0 /\ line[n] = op.delim
         \/ /\ AtEnd /\ n = Size(p)
            /\ \A i \in 1..n : line[i] # op.delim
  BY DEF LineTaken
<1>3. \A i \in 1..n : line[i] = p[i]
  <2>1. n \in 0..Size(p)
    BY <1>1, <1>2
  <2>2. \A i \in 1..n : FirstOf(p, n)[i] = p[i]
    BY <1>1, <2>1, Cut
  <2> QED BY <1>2, <2>2
<1>4. Stream!UpToDelimiter(op.delim) =
        IF at # {} THEN {Min(at)} ELSE IF AtEnd THEN {Size(p)} ELSE {}
  BY UpToDelimiterIs
<1> HIDE DEF p, n
<1>5. CASE n # 0 /\ line[n] = op.delim
  <2>1. n \in at
    BY <1>1, <1>2, <1>3, <1>5
  <2>2. at \in SUBSET Nat
    BY <1>1
  <2>3. Min(at) \in at /\ Min(at) <= n
    BY <2>1, <2>2, MinIs
  <2>4. ~ (Min(at) < n)
    <3> SUFFICES ASSUME Min(at) < n PROVE FALSE
      OBVIOUS
    <3> DEFINE i == Min(at)
    <3>1. i \in 1..Size(p) /\ p[i] = op.delim /\ i < n
      BY <2>3
    <3> HIDE DEF i
    <3>2. i \in 1..(n - 1) /\ i \in 1..n
      BY <1>1, <3>1
    <3> QED BY <1>2, <1>3, <3>1, <3>2
  <2>5. Min(at) = n
    BY <1>1, <2>2, <2>3, <2>4
  <2> QED BY <1>4, <2>1, <2>5 DEF n
<1>6. CASE AtEnd /\ n = Size(p) /\ \A i \in 1..n : line[i] # op.delim
  <2>1. at = {}
    BY <1>3, <1>6
  <2> QED BY <1>4, <1>6, <2>1 DEF n
<1> QED BY <1>2, <1>5, <1>6

(* How the three line calls end. *)
Result(tag, bytes) == [fn |-> op.fn, tag |-> tag, bytes |-> bytes]

LEMMA CollectedIs ==
  ASSUME NEW line, Collected(line), op.fn \in LineCalls
  PROVE  /\ op.fn = "read_until" => ret' = Result("Ok", line)
         /\ op.fn = "stdin_line" =>
              ret' = IF line = <<>> THEN Result("EndOfFile", <<>>)
                     ELSE IF Contains(line, Bad) THEN Result("Err", <<>>)
                     ELSE Result("Ok", Trim(line))
         /\ op.fn = "Stdin.line!" =>
              ret' = IF Contains(line, Bad) THEN Result("Ok", <<>>) ELSE Result("Ok", Trim(line))
<1>1. ASSUME NEW tag, NEW bytes, Return(tag, bytes) PROVE ret' = Result(tag, bytes)
  BY <1>1 DEF Return, Result
<1>2. CASE op.fn = "read_until"
  <2>1. Return("Ok", line)
    BY <1>2 DEF Collected
  <2> QED BY <1>1, <1>2, <2>1
<1>3. CASE op.fn = "stdin_line"
  <2>1. line = <<>> => Return("EndOfFile", <<>>)
    <3>1. ~ Contains(<<>>, Bad)
      BY EmptySeq DEF Contains
    <3> QED BY <1>3, <3>1 DEF Collected
  <2>2. line # <<>> /\ Contains(line, Bad) => Return("Err", <<>>)
    BY <1>3 DEF Collected
  <2>3. line # <<>> /\ ~ Contains(line, Bad) => Return("Ok", Trim(line))
    BY <1>3 DEF Collected
  <2> QED BY <1>1, <1>3, <2>1, <2>2, <2>3
<1>4. CASE op.fn = "Stdin.line!"
  <2>1. Contains(line, Bad) => Return("Ok", <<>>)
    BY <1>4 DEF Collected
  <2>2. ~ Contains(line, Bad) => Return("Ok", Trim(line))
    BY <1>4 DEF Collected
  <2> QED BY <1>1, <1>4, <2>1, <2>2
<1> QED BY <1>2, <1>3, <1>4 DEF LineCalls

LEMMA LineReturned ==
  ASSUME ReaderInv, UNCHANGED <<closed, waits>>, op.fn \in LineCalls,
         NEW line \in Strings, LineTaken(line), Collected(line)
  PROVE  \/ Stream!Until(op.delim)
         \/ Stream!Line("stdin_line") \/ Stream!Line("Stdin.line!")
<1> DEFINE n == Size(line)
<1>1. ReaderTypes
  BY DEF ReaderInv
<1>2. n \in Stream!UpToDelimiter(op.delim)
  BY <1>1, ReachesDelimiter
<1>3. /\ n \in Nat /\ n <= Size(Pending) /\ Pending' = DropFirst(Pending, n)
      /\ Stream!First(n) = line
  BY Sizes, FirstIs DEF LineTaken
<1>4. Contains(line, Bad) <=> \E j \in 1..n : Pending[j] = Bad
  <2>1. Pending \in Strings /\ n \in 0..Size(Pending) /\ FirstOf(Pending, n) = line
    BY <1>1, <1>3, PendingIs DEF LineTaken
  <2>2. \A j \in 1..n : line[j] = Pending[j]
    BY <2>1, Cut
  <2> QED BY <2>2 DEF Contains, Size
<1>5. (op.acc \o buf) \o incoming = Pending
  BY PendingIs
<1>6. n = 0 <=> line = <<>>
  BY Sizes
<1>7. Stream!Text(line) = Trim(line)
  BY DEF Stream!Text, Stream!Last, Stream!Front, Trim, Last, Front
<1>8. ASSUME NEW tag, NEW bytes, ret' = Result(tag, bytes)
      PROVE  Stream!Take(op.fn, n, tag, bytes)
  BY <1>3, <1>8, TakeIs DEF Result
<1>9. CASE op.fn = "read_until"
  <2>1. Stream!Take("read_until", n, "Ok", Stream!First(n))
    BY <1>3, <1>8, <1>9, CollectedIs
  <2> QED BY <1>2, <2>1 DEF Stream!Until
<1>10. CASE op.fn = "stdin_line"
  <2>1. n \in Stream!UpToDelimiter(NL)
    BY <1>2, <1>10 DEF ReaderInv, CallFits
  <2>2. CASE n = 0
    <3>1. Stream!Take("stdin_line", 0, "EndOfFile", <<>>)
      BY <1>6, <1>8, <1>10, <2>2, CollectedIs
    <3> QED BY <2>1, <2>2, <3>1 DEF Stream!Line
  <2>3. CASE n # 0 /\ Contains(line, Bad)
    <3>1. Stream!Take("stdin_line", n, "Err", <<>>)
      BY <1>6, <1>8, <1>10, <2>3, CollectedIs
    <3> QED BY <1>4, <1>5, <2>1, <2>3, <3>1 DEF Stream!Line
  <2>4. CASE n # 0 /\ ~ Contains(line, Bad)
    <3>1. Stream!Take("stdin_line", n, "Ok", Stream!Text(Stream!First(n)))
      BY <1>3, <1>6, <1>7, <1>8, <1>10, <2>4, CollectedIs
    <3> QED BY <1>4, <1>5, <2>1, <2>4, <3>1 DEF Stream!Line
  <2> QED BY <2>2, <2>3, <2>4
<1>11. CASE op.fn = "Stdin.line!"
  <2>1. n \in Stream!UpToDelimiter(NL)
    BY <1>2, <1>11 DEF ReaderInv, CallFits
  <2>2. Stream!Take("Stdin.line!", n, "Ok",
                    IF Contains(line, Bad) THEN <<>> ELSE Stream!Text(Stream!First(n)))
    BY <1>3, <1>7, <1>8, <1>11, CollectedIs
  <2> QED BY <1>4, <1>5, <2>1, <2>2 DEF Stream!Line
<1> QED BY <1>9, <1>10, <1>11 DEF LineCalls

-----------------------------------------------------------------------------
(* Each step keeps the invariant and is a step of ByteStream or none of its
   business.                                                                 *)

Stutter == Pending' = Pending /\ UNCHANGED <<closed, waits, ret>>

LEMMA PendingSize ==
  ASSUME ReaderTypes
  PROVE  /\ Size(Pending) = Size(op.acc) + Size(buf) + Size(incoming)
         /\ Size(op.acc) \in Nat /\ Size(buf) \in Nat /\ Size(incoming) \in Nat
<1>1. op.acc \in Strings /\ buf \in Strings /\ incoming \in Strings
  BY DEF ReaderTypes
<1> QED BY <1>1, WholeIs, Sizes DEF Pending

LEMMA CallOver ==
  ASSUME ReaderInv, op' = Idle, UNCHANGED <<closed, waits, sent, calls>>,
         signals' \in 0..MaxSignals, ret'.tag \in Tags,
         buf' \in Strings, incoming' \in Strings, Size(buf') <= Capacity,
         NEW n \in Nat, n <= Size(Pending), Pending' = DropFirst(Pending, n)
  PROVE  ReaderInv'
<1>1. Size(Pending) \in Nat /\ Pending \in Strings /\ Size(Pending) <= sent /\ sent \in Nat
  BY PendingIs DEF ReaderInv, ReaderTypes, NothingExtra
<1>2. Size(DropFirst(Pending, n)) = Size(Pending) - n
  <2>1. n \in 0..Size(Pending)
    BY <1>1
  <2> QED BY <1>1, <2>1, Cut
<1>3. NothingExtra'
  BY <1>1, <1>2 DEF NothingExtra
<1>4. Idle \in [fn : Fns, delim : Bytes, n : Nat, acc : Strings]
  BY ReaderAssumption, Sizes DEF Idle, Fns
<1>5. ReaderTypes'
  BY <1>4 DEF ReaderInv, ReaderTypes
<1>6. CallFits'
  BY DEF CallFits, Idle, LineCalls
<1> QED BY <1>3, <1>5, <1>6 DEF ReaderInv

LEMMA CallGoesOn ==
  ASSUME ReaderInv, UNCHANGED <<closed, waits, sent, signals, calls, ret>>,
         NEW line \in Strings, op' = [op EXCEPT !.acc = line], Pending' = Pending,
         buf' \in Strings, incoming' \in Strings, Size(buf') <= Capacity,
         op.fn \in LineCalls \cup {"read_exactly", "read_to_end"},
         op.fn \in LineCalls => \A i \in 1..Size(line) : line[i] # op.delim,
         op.fn = "read_exactly" => Size(line) <= op.n
  PROVE  ReaderInv'
<1>1. op \in [fn : Fns, delim : Bytes, n : Nat, acc : Strings]
  BY DEF ReaderInv, ReaderTypes
<1>2. /\ op' \in [fn : Fns, delim : Bytes, n : Nat, acc : Strings]
      /\ op'.fn = op.fn /\ op'.delim = op.delim /\ op'.n = op.n /\ op'.acc = line
  BY <1>1
<1>3. ReaderTypes'
  BY <1>2 DEF ReaderInv, ReaderTypes
<1>4. NothingExtra'
  BY DEF ReaderInv, NothingExtra
<1>5. CallFits'
  BY <1>2 DEF ReaderInv, CallFits, LineCalls
<1> QED BY <1>3, <1>4, <1>5 DEF ReaderInv

LEMMA ReturnIs ==
  ASSUME NEW tag, NEW bytes, Return(tag, bytes)
  PROVE  op' = Idle /\ ret' = Result(tag, bytes) /\ ret'.tag = tag /\ ret'.bytes = bytes
  BY DEF Return, Result

(* The sender. *)
LEMMA SenderSendsStep ==
  ASSUME ReaderInv, NEW b \in Bytes, SenderSends(b)
  PROVE  ReaderInv' /\ Stream!Arrive(b)
<1>1. /\ ~ closed /\ sent < MaxBytes
      /\ incoming' = Append(incoming, b)
      /\ sent' = sent + 1
      /\ UNCHANGED <<closed, waits, buf, op, ret, signals, calls>>
  BY DEF SenderSends
<1>2. op.acc \in Strings /\ buf \in Strings /\ incoming \in Strings
  BY DEF ReaderInv, ReaderTypes
<1>3. <<b>> \in Strings /\ Size(<<b>>) = 1
  BY DEF Strings, Size
<1>4. ASSUME NEW s \in Strings PROVE Append(s, b) = Both(s, <<b>>)
  BY AppendIsConcat DEF Strings, Both
<1>5. incoming' = Both(incoming, <<b>>) /\ incoming' \in Strings
  BY <1>1, <1>2, <1>3, <1>4, BothIs, ZenonT(40)
<1>6. Pending \in Strings /\ Size(Pending) \in Nat
  BY PendingIs DEF ReaderInv
<1>7. Pending' = Both(Pending, <<b>>)
  <2>1. Both(op.acc, buf) \in Strings
    BY <1>2, BothIs
  <2> DEFINE x == Both(op.acc, buf)
             y == <<b>>
  <2>2. x \in Strings /\ y \in Strings
    BY <1>3, <2>1
  <2> HIDE DEF x, y
  <2>3. Both(Both(x, incoming), y) = Both(x, Both(incoming, y))
    BY <1>2, <2>2, Associative
  <2> QED BY <1>1, <1>5, <2>3 DEF Pending, Whole, x, y
<1>8. Size(Pending') = Size(Pending) + 1
  BY <1>3, <1>6, <1>7, BothIs
<1>9. ReaderTypes' /\ CallFits'
  <2>1. sent' \in 0..MaxBytes
    BY <1>1, ReaderAssumption DEF ReaderInv, ReaderTypes
  <2> QED BY <1>1, <1>5, <2>1 DEF ReaderInv, ReaderTypes, CallFits
<1>10. NothingExtra'
  BY <1>1, <1>6, <1>8, ReaderAssumption DEF ReaderInv, ReaderTypes, NothingExtra
<1>11. Stream!Arrive(b)
  <2>1. Pending' = Append(Pending, b)
    BY <1>4, <1>6, <1>7
  <2> QED BY <1>1, <2>1, Zenon DEF Stream!Arrive, Pending, Whole, Both
<1> QED BY <1>9, <1>10, <1>11 DEF ReaderInv

LEMMA SenderClosesStep ==
  ASSUME ReaderInv, SenderCloses
  PROVE  ReaderInv' /\ Stream!Close
<1>1. Stream!Close
  BY Zenon DEF SenderCloses, Stream!Close
<1> QED
  BY <1>1 DEF SenderCloses, ReaderInv, ReaderTypes, NothingExtra, Pending, CallFits

(* A call begins. *)
LEMMA BeginStep ==
  ASSUME ReaderInv, NEW fn \in Fns \ {"none"}, NEW d \in Bytes, NEW n \in Nat,
         Begin(fn, d, n),
         fn \in {"stdin_line", "Stdin.line!"} => d = NL,
         fn \in {"read_exactly", "read_up_to"} => n \in Counts,
         fn = "read_to_end" => n = MaxBytes + 1,
         fn = "stdin_bytes" => n = Chunk
  PROVE  ReaderInv' /\ Stutter
<1>1. /\ op = Idle /\ calls < MaxCalls /\ calls' = calls + 1
      /\ op' = [fn |-> fn, delim |-> d, n |-> n, acc |-> <<>>]
      /\ UNCHANGED <<incoming, closed, waits, buf, ret, sent, signals>>
  BY DEF Begin
<1>2. op.acc = <<>> /\ op'.acc = <<>>
  BY <1>1 DEF Idle
<1>3. Pending' = Pending
  BY <1>1, <1>2 DEF Pending
<1>4. op' \in [fn : Fns, delim : Bytes, n : Nat, acc : Strings]
  BY <1>1, Sizes
<1>5. calls' \in 0..MaxCalls
  BY <1>1, ReaderAssumption DEF ReaderInv, ReaderTypes
<1>6. ReaderTypes'
  BY <1>1, <1>4, <1>5 DEF ReaderInv, ReaderTypes
<1>7. NothingExtra'
  BY <1>1, <1>3 DEF ReaderInv, NothingExtra
<1>8. CallFits'
  BY <1>1, Sizes DEF CallFits
<1> QED BY <1>1, <1>3, <1>6, <1>7, <1>8 DEF ReaderInv, Stutter

(* read_until, read_line and lines. *)
LEMMA ReadUntilStep ==
  ASSUME ReaderInv, read_until
  PROVE  /\ ReaderInv'
         /\ \/ Stutter
            \/ Stream!Until(op.delim)
            \/ Stream!Line("stdin_line") \/ Stream!Line("Stdin.line!")
<1>1. op.fn \in LineCalls /\ UNCHANGED <<closed, waits, sent, signals, calls>> /\ ReaderTypes
  BY DEF read_until, ReaderInv
<1>2. buf' \in Strings /\ incoming' \in Strings /\ Size(buf') <= Capacity
  <2>1. PICK f, g, k : Advance(f, g, k)
    BY <1>1, LineRound
  <2> QED BY <1>1, <2>1, AdvanceTypes
<1>3. CASE /\ Pending' = Pending /\ UNCHANGED ret
           /\ \E line \in Strings : /\ op' = [op EXCEPT !.acc = line]
                                    /\ \A i \in 1..Size(line) : line[i] # op.delim
  <2>1. op.fn # "read_exactly"
    BY <1>1 DEF LineCalls
  <2> QED BY <1>1, <1>2, <1>3, <2>1, CallGoesOn DEF Stutter
<1>4. CASE \E line \in Strings : LineTaken(line) /\ Collected(line)
  <2>1. PICK line \in Strings : LineTaken(line) /\ Collected(line)
    BY <1>4
  <2>2. /\ Stream!Until(op.delim) \/ Stream!Line("stdin_line") \/ Stream!Line("Stdin.line!")
    BY <1>1, <2>1, LineReturned
  <2>3. op' = Idle /\ ret'.tag \in Tags
    BY <1>1, <2>1, CollectedEnds, CollectedIs DEF Result, Tags, LineCalls
  <2>4. Size(line) \in Nat /\ Size(line) <= Size(Pending)
        /\ Pending' = DropFirst(Pending, Size(line))
    BY <2>1, Sizes DEF LineTaken
  <2>5. signals' \in 0..MaxSignals
    BY <1>1 DEF ReaderTypes
  <2>6. ReaderInv'
    BY <1>1, <1>2, <2>3, <2>4, <2>5, CallOver
  <2> QED BY <2>2, <2>6
<1> QED BY <1>3, <1>4, LineEnds

(* read_to_end over take(n). *)
LEMMA FirstOfAll ==
  ASSUME NEW s \in Strings
  PROVE  FirstOf(s, Size(s)) = s
  BY SubSeqFull DEF Strings, Size, FirstOf

LEMMA CompleteIs ==
  ASSUME NEW got \in Strings, Complete(got), op.n \in Nat
  PROVE  /\ op' = Idle /\ ret'.tag \in Tags
         /\ op.fn = "read_exactly" /\ Size(got) < op.n => ret' = Result("UnexpectedEof", <<>>)
         /\ ~ (op.fn = "read_exactly" /\ Size(got) < op.n) => ret' = Result("Ok", got)
<1>1. CASE op.fn = "read_exactly" /\ Size(got) < op.n
  <2>1. Return("UnexpectedEof", <<>>)
    BY <1>1 DEF Complete, Size
  <2> QED BY <1>1, <2>1, ReturnIs DEF Tags
<1>2. CASE ~ (op.fn = "read_exactly" /\ Size(got) < op.n)
  <2>1. Return("Ok", got)
    BY <1>2 DEF Complete, Size
  <2> QED BY <1>2, <2>1, ReturnIs DEF Tags
<1> QED BY <1>1, <1>2

LEMMA ToEndRound ==
  ASSUME ReaderInv, ReadToEndOk, op.fn \in {"read_exactly", "read_to_end"},
         Size(op.acc) < op.n
  PROVE  \E f, g, k :
           LET got == Both(op.acc, FirstOf(f, k))
           IN  /\ Advance(f, g, k) /\ Size(op.acc) + k <= op.n
               /\ \/ /\ k = 0 /\ AtEnd /\ f = <<>> /\ g = <<>> /\ Complete(got)
                  \/ /\ k # 0 /\ op' = [op EXCEPT !.acc = got] /\ UNCHANGED ret
<1>1. PICK filled \in FillBuf :
        LET left == Min({op.n - Len(op.acc), Len(filled[1])})
        IN  \E k \in Min({1, left})..left :
              LET got == op.acc \o SubSeq(filled[1], 1, k)
              IN  /\ Consume(filled, k)
                  /\ IF k = 0 THEN Complete(got)
                              ELSE op' = [op EXCEPT !.acc = got] /\ UNCHANGED ret
  BY DEF ReadToEndOk
<1> DEFINE f == filled[1]
           g == filled[2]
           left == Min({op.n - Size(op.acc), Size(f)})
<1>2. PICK k \in Min({1, left})..left :
        LET got == Both(op.acc, FirstOf(f, k))
        IN  /\ Consume(filled, k)
            /\ IF k = 0 THEN Complete(got)
                        ELSE op' = [op EXCEPT !.acc = got] /\ UNCHANGED ret
  BY <1>1 DEF Both, FirstOf, Size
<1>10. k \in Min({1, left})..left
  BY <1>2
<1>3. Shown(f, g) /\ (Size(f) = 0 => AtEnd /\ f = <<>> /\ g = <<>>)
  BY Filled DEF ReaderInv
<1>4. op.acc \in Strings /\ op.n \in Nat
  BY DEF ReaderInv, ReaderTypes
<1>5. Size(f) \in Nat /\ Size(op.acc) \in Nat /\ op.n - Size(op.acc) \in Nat
      /\ op.n - Size(op.acc) # 0
  BY <1>3, <1>4, Sizes DEF Shown
<1> HIDE DEF f, g
<1>6. left \in Nat /\ left <= op.n - Size(op.acc) /\ left <= Size(f) /\ (left = 0 => Size(f) = 0)
  BY <1>5, MinOfTwo
<1> HIDE DEF left
<1>7. Min({1, left}) = IF 1 <= left THEN 1 ELSE left
  BY <1>6, MinOfTwo
<1>8. k \in 0..Size(f) /\ Size(op.acc) + k <= op.n /\ (k = 0 => Size(f) = 0)
  BY <1>4, <1>5, <1>6, <1>7, <1>10
<1>9. Advance(f, g, k)
  BY <1>2, <1>3, <1>8 DEF Advance, Consume, f, g
<1> QED BY <1>2, <1>3, <1>8, <1>9

LEMMA ReadToEndStep ==
  ASSUME ReaderInv, read_to_end
  PROVE  /\ ReaderInv'
         /\ \/ Stutter
            \/ op.n \in Counts /\ Stream!Exactly(op.n)
            \/ Stream!ToEnd
<1>1. /\ op.fn \in {"read_exactly", "read_to_end"} /\ UNCHANGED <<closed, waits, sent, signals, calls>>
      /\ ReaderTypes
  BY DEF read_to_end, ReaderInv
<1>2. /\ op.acc \in Strings /\ buf \in Strings /\ incoming \in Strings /\ op.n \in Nat
      /\ Size(buf) <= Capacity /\ signals' \in 0..MaxSignals
      /\ op.fn = "read_exactly" => op.n \in Counts /\ Size(op.acc) <= op.n
      /\ op.fn = "read_to_end" => op.n = MaxBytes + 1
  BY <1>1 DEF ReaderInv, ReaderTypes, CallFits
<1>3. /\ Size(Pending) = Size(op.acc) + Size(buf) + Size(incoming)
      /\ Size(op.acc) \in Nat /\ Size(buf) \in Nat /\ Size(incoming) \in Nat
      /\ Size(Pending) <= MaxBytes /\ MaxBytes \in Nat
      /\ Pending \in Strings
  BY <1>1, PendingSize, PendingIs, ReaderAssumption DEF ReaderInv, ReaderTypes, NothingExtra
<1>4. Size(op.acc) <= op.n /\ (op.fn = "read_to_end" => Size(op.acc) < op.n)
  BY <1>1, <1>2, <1>3
<1>5. (op.acc \o buf) \o incoming = Pending
  BY PendingIs
<1>6. CASE Size(op.acc) = op.n
  <2>1. op.fn = "read_exactly" /\ op.n \in Counts
    BY <1>1, <1>2, <1>3, <1>4, <1>6
  <2>2. Complete(op.acc) /\ UNCHANGED <<incoming, buf>>
    BY <1>6 DEF read_to_end, Size
  <2>3. op' = Idle /\ ret'.tag \in Tags /\ ret' = Result("Ok", op.acc)
    BY <1>2, <1>6, <2>2, CompleteIs
  <2>4. op.n <= Size(Pending) /\ Pending' = DropFirst(Pending, op.n)
        /\ FirstOf(Pending, op.n) = op.acc
    BY <1>1, <1>6, <2>2, <2>3, NothingMore
  <2>5. ReaderInv'
    BY <1>1, <1>2, <2>2, <2>3, <2>4, CallOver
  <2>6. Stream!Take("read_exactly", op.n, "Ok", op.acc)
    BY <1>1, <2>1, <2>3, <2>4, TakeIs DEF Result
  <2>7. Stream!First(op.n) = op.acc
    BY <2>4, FirstIs
  <2>8. Size(Pending) >= op.n
    BY <1>2, <1>3, <2>4
  <2>9. Stream!Exactly(op.n)
    BY <1>5, <2>6, <2>7, <2>8 DEF Stream!Exactly, Stream!AtEnd, AtEnd, Size
  <2> QED BY <2>1, <2>5, <2>9
<1>7. CASE Size(op.acc) # op.n
  <2>1. ReadToEndOk /\ Size(op.acc) < op.n
    BY <1>2, <1>3, <1>4, <1>7 DEF read_to_end, Size
  <2>2. PICK f, g, k :
           LET got == Both(op.acc, FirstOf(f, k))
           IN  /\ Advance(f, g, k) /\ Size(op.acc) + k <= op.n
               /\ \/ /\ k = 0 /\ AtEnd /\ f = <<>> /\ g = <<>> /\ Complete(got)
                  \/ /\ k # 0 /\ op' = [op EXCEPT !.acc = got] /\ UNCHANGED ret
    BY <1>1, <2>1, ToEndRound
  <2> DEFINE got == Both(op.acc, FirstOf(f, k))
  <2>3. /\ buf' \in Strings /\ incoming' \in Strings /\ Size(buf') <= Capacity
        /\ FirstOf(f, k) \in Strings /\ Size(FirstOf(f, k)) = k /\ k \in Nat
    BY <1>1, <2>2, AdvanceTypes
  <2>4. got \in Strings /\ Size(got) = Size(op.acc) + k
    BY <1>2, <2>3, BothIs
  <2>5. CASE k # 0 /\ op' = [op EXCEPT !.acc = got] /\ UNCHANGED ret
    <3>1. op'.acc = got
      <4> HIDE DEF got
      <4> QED BY <1>1, <2>5 DEF ReaderTypes
    <3>2. Pending' = Pending
      BY <1>1, <2>2, <3>1, RoundOn
    <3>3. op.fn \notin LineCalls /\ (op.fn = "read_exactly" => Size(got) <= op.n)
      BY <1>1, <2>2, <2>4 DEF LineCalls
    <3> HIDE DEF got
    <3>4. ReaderInv'
      BY <1>1, <2>3, <2>4, <2>5, <3>2, <3>3, CallGoesOn
    <3> QED BY <1>1, <2>5, <3>2, <3>4 DEF Stutter
  <2>6. CASE k = 0 /\ AtEnd /\ f = <<>> /\ g = <<>> /\ Complete(got)
    <3>1. /\ op' = Idle /\ ret'.tag \in Tags
          /\ op.fn = "read_exactly" /\ Size(got) < op.n => ret' = Result("UnexpectedEof", <<>>)
          /\ ~ (op.fn = "read_exactly" /\ Size(got) < op.n) => ret' = Result("Ok", got)
      BY <1>2, <2>4, <2>6, CompleteIs
    <3>2. /\ Size(op.acc) + k <= Size(Pending)
          /\ Pending' = DropFirst(Pending, Size(op.acc) + k)
          /\ FirstOf(Pending, Size(op.acc) + k) = got
          /\ Size(Pending) = Size(op.acc) + Size(f) + Size(g)
      BY <1>1, <2>2, <3>1, RoundOff
    <3> HIDE DEF got
    <3>3. Size(Pending) = Size(op.acc) /\ Size(got) = Size(Pending) /\ Size(op.acc) + k = Size(Pending)
      BY <1>3, <2>4, <2>6, <3>2, Sizes
    <3>4. Pending' = DropFirst(Pending, Size(Pending)) /\ got = Pending
      BY <1>3, <3>2, <3>3, FirstOfAll
    <3>5. ReaderInv'
      BY <1>1, <1>2, <1>3, <2>3, <3>1, <3>3, <3>4, CallOver
    <3>6. CASE op.fn = "read_exactly"
      <4>1. ret' = Result("UnexpectedEof", <<>>) /\ Size(Pending) < op.n /\ op.n \in Counts
        BY <1>2, <2>1, <3>1, <3>3, <3>6
      <4>2. Stream!Take("read_exactly", Size(Pending), "UnexpectedEof", <<>>)
        BY <1>1, <3>4, <3>6, <4>1, TakeIs DEF Result
      <4>3. Stream!Exactly(op.n)
        BY <1>5, <2>6, <4>1, <4>2 DEF Stream!Exactly, Stream!AtEnd, AtEnd, Size
      <4> QED BY <3>5, <4>1, <4>3
    <3>7. CASE op.fn = "read_to_end"
      <4>1. ret' = Result("Ok", Pending)
        BY <3>1, <3>4, <3>7
      <4>2. Stream!Take("read_to_end", Size(Pending), "Ok", Pending)
        BY <1>1, <3>4, <3>7, <4>1, TakeIs DEF Result
      <4>3. Stream!ToEnd
        BY <1>5, <2>6, <4>2 DEF Stream!ToEnd, Stream!AtEnd, AtEnd, Size
      <4> QED BY <3>5, <4>3
    <3> QED BY <1>1, <3>6, <3>7
  <2> QED BY <2>2, <2>5, <2>6
<1> QED BY <1>6, <1>7

(* take(n).fill_buf. *)
LEMMA ReadUpToStep ==
  ASSUME ReaderInv, read_up_to
  PROVE  ReaderInv' /\ op.n \in Counts /\ Stream!UpTo("read_up_to", op.n)
<1>1. /\ op.fn = "read_up_to" /\ UNCHANGED <<closed, waits, sent, signals, calls>>
      /\ ReaderTypes
  BY DEF read_up_to, ReaderInv
<1>2. /\ op.acc = <<>> /\ Size(op.acc) = 0 /\ op.n \in Counts /\ op.n \in Nat
      /\ buf \in Strings /\ incoming \in Strings /\ Size(buf) <= Capacity
      /\ signals' \in 0..MaxSignals
  BY <1>1, Sizes DEF ReaderInv, ReaderTypes, CallFits
<1>3. Pending \in Strings /\ Size(Pending) \in Nat
  BY <1>1, PendingIs
<1>4. (op.acc \o buf) \o incoming = Pending
  BY PendingIs
<1>5. CASE op.n = 0
  <2>1. Return("Ok", <<>>) /\ UNCHANGED <<incoming, buf>>
    BY <1>5 DEF read_up_to
  <2>2. op' = Idle /\ ret' = Result("Ok", <<>>) /\ ret'.tag \in Tags
    BY <2>1, ReturnIs DEF Tags
  <2>3. 0 <= Size(Pending) /\ Pending' = DropFirst(Pending, 0) /\ FirstOf(Pending, 0) = <<>>
    BY <1>1, <1>2, <2>1, <2>2, NothingMore
  <2>4. ReaderInv'
    BY <1>1, <1>2, <2>1, <2>2, <2>3, CallOver
  <2>5. Stream!Take("read_up_to", 0, "Ok", Stream!First(0))
    BY <1>1, <2>2, <2>3, TakeIs, FirstIs DEF Result
  <2>6. Stream!UpTo("read_up_to", op.n)
    BY <1>3, <1>4, <1>5, <2>5 DEF Stream!UpTo, Stream!AtEnd, AtEnd, Size
  <2> QED BY <1>2, <2>4, <2>6
<1>6. CASE op.n # 0
  <2>1. PICK filled \in FillBuf :
          LET k == Min({op.n, Len(filled[1])})
          IN  Consume(filled, k) /\ Return("Ok", SubSeq(filled[1], 1, k))
    BY <1>6 DEF read_up_to, UpToOk
  <2> DEFINE f == filled[1]
             g == filled[2]
             k == Min({op.n, Size(f)})
  <2>2. Consume(filled, k) /\ Return("Ok", FirstOf(f, k))
    BY <2>1 DEF FirstOf, Size
  <2>3. Shown(f, g) /\ (Size(f) = 0 => AtEnd /\ f = <<>> /\ g = <<>>)
    BY <1>1, Filled
  <2>4. buf' = DropFirst(f, k) /\ incoming' = g
    BY <2>2 DEF Consume
  <2> HIDE DEF f, g
  <2>5. f \in Strings /\ Size(f) \in Nat
    BY <2>3, Sizes DEF Shown
  <2>6. k \in 0..Size(f) /\ k <= op.n /\ (k = 0 => Size(f) = 0) /\ k \in Nat
    BY <1>2, <1>6, <2>5, MinOfTwo
  <2> HIDE DEF k
  <2>7. Advance(f, g, k)
    BY <2>3, <2>4, <2>6 DEF Advance
  <2>8. op' = Idle /\ ret' = Result("Ok", FirstOf(f, k)) /\ ret'.tag \in Tags
    BY <2>2, ReturnIs DEF Tags
  <2>9. /\ buf' \in Strings /\ incoming' \in Strings /\ Size(buf') <= Capacity
        /\ FirstOf(f, k) \in Strings
    BY <1>1, <2>7, AdvanceTypes
  <2>10. LET n == Size(op.acc) + k
         IN  /\ n <= Size(Pending)
             /\ Pending' = DropFirst(Pending, n)
             /\ FirstOf(Pending, n) = Both(op.acc, FirstOf(f, k))
             /\ Size(Pending) = Size(op.acc) + Size(f) + Size(g)
    BY <1>1, <2>7, <2>8, RoundOff
  <2>11. Size(op.acc) + k = k /\ Both(op.acc, FirstOf(f, k)) = FirstOf(f, k)
    BY <1>2, <2>6, <2>9, BothIs
  <2>12. /\ k <= Size(Pending) /\ Pending' = DropFirst(Pending, k)
         /\ FirstOf(Pending, k) = FirstOf(f, k)
         /\ Size(Pending) = Size(op.acc) + Size(f) + Size(g)
    BY <2>10, <2>11
  <2>13. ReaderInv'
    BY <1>1, <1>2, <2>6, <2>8, <2>9, <2>12, CallOver
  <2>14. k = 0 => AtEnd /\ Pending = <<>>
    <3> SUFFICES ASSUME k = 0 PROVE AtEnd /\ Pending = <<>>
      OBVIOUS
    <3>1. AtEnd /\ Size(f) = 0 /\ Size(g) = 0
      BY <2>3, <2>6, Sizes
    <3>2. Size(Pending) = 0
      BY <1>2, <2>12, <3>1
    <3> QED BY <1>3, <3>1, <3>2, Sizes
  <2>15. Stream!Take("read_up_to", k, "Ok", Stream!First(k))
    BY <1>1, <2>8, <2>12, TakeIs, FirstIs DEF Result
  <2>16. k \in 0..Size(Pending)
    BY <1>3, <2>6, <2>12
  <2>17. Stream!UpTo("read_up_to", op.n)
    BY <1>4, <2>6, <2>14, <2>15, <2>16 DEF Stream!UpTo, Stream!AtEnd, AtEnd, Size
  <2> QED BY <1>2, <2>13, <2>17
<1> QED BY <1>5, <1>6

(* One read. *)
LEMMA ReadBytesStep ==
  ASSUME ReaderInv, read_bytes
  PROVE  ReaderInv' /\ Stream!UpTo("stdin_bytes", Chunk)
<1>1. /\ op.fn = "stdin_bytes" /\ UNCHANGED <<closed, waits, sent, signals, calls>>
      /\ buf' = <<>> /\ ReaderTypes
  BY DEF read_bytes, ReaderInv
<1>2. /\ op.acc = <<>>
      /\ buf \in Strings /\ incoming \in Strings /\ Size(buf) <= Capacity
      /\ signals' \in 0..MaxSignals /\ Capacity \in Nat /\ Chunk \in Nat /\ Capacity <= Chunk
      /\ Size(buf) \in Nat /\ Size(incoming) \in Nat
  BY <1>1, Sizes, ReaderAssumption DEF ReaderInv, ReaderTypes, CallFits
<1>3. Pending \in Strings /\ Size(Pending) \in Nat /\ Pending = Both(buf, incoming)
  BY <1>1, <1>2, PendingIs, BothIs DEF Pending, Whole
<1>4. (op.acc \o buf) \o incoming = Pending
  BY PendingIs
<1>5. op' = Idle => Pending' = incoming' \/ incoming' \notin Strings
  BY <1>1, Sizes, BothIs DEF Pending, Whole, Idle
<1>6. ASSUME NEW k \in 0..Size(Pending), k <= Chunk, k = 0 => AtEnd /\ Pending = <<>>,
             Return("Ok", FirstOf(Pending, k)), incoming' = DropFirst(Pending, k)
      PROVE  ReaderInv' /\ Stream!UpTo("stdin_bytes", Chunk)
  <2>1. op' = Idle /\ ret' = Result("Ok", FirstOf(Pending, k)) /\ ret'.tag \in Tags
    BY <1>6, ReturnIs DEF Tags
  <2>2. incoming' \in Strings /\ buf' \in Strings /\ Size(buf') <= Capacity
    BY <1>1, <1>2, <1>3, <1>6, Cut, Sizes
  <2>3. Pending' = DropFirst(Pending, k)
    BY <1>5, <1>6, <2>1, <2>2
  <2>4. k \in Nat /\ k <= Size(Pending)
    BY <1>3
  <2>5. ReaderInv'
    BY <1>1, <1>2, <2>1, <2>2, <2>3, <2>4, CallOver
  <2>6. Stream!Take("stdin_bytes", k, "Ok", Stream!First(k))
    BY <1>1, <2>1, <2>3, TakeIs, FirstIs DEF Result
  <2>7. Stream!UpTo("stdin_bytes", Chunk)
    BY <1>4, <1>6, <2>6 DEF Stream!UpTo, Stream!AtEnd, AtEnd, Size
  <2> QED BY <2>5, <2>7
<1>7. CASE buf # <<>>
  <2>1. Return("Ok", buf) /\ UNCHANGED incoming
    BY <1>7 DEF read_bytes
  <2>2. FirstOf(Pending, Size(buf)) = buf /\ DropFirst(Pending, Size(buf)) = incoming
    BY <1>2, <1>3, Parted
  <2>3. Size(Pending) = Size(buf) + Size(incoming) /\ Size(buf) # 0
    BY <1>2, <1>3, <1>7, BothIs, Sizes
  <2>4. Size(buf) \in 0..Size(Pending) /\ Size(buf) <= Chunk
    BY <1>2, <2>3
  <2>5. Return("Ok", FirstOf(Pending, Size(buf))) /\ incoming' = DropFirst(Pending, Size(buf))
    BY <2>1, <2>2
  <2> QED BY <1>6, <2>3, <2>4, <2>5
<1>8. CASE buf = <<>>
  <2>1. PICK k \in 0..Min({Chunk, Len(incoming)}) :
          /\ k = 0 => AtEnd /\ incoming = <<>>
          /\ Return("Ok", SubSeq(incoming, 1, k))
          /\ incoming' = DropFirst(incoming, k)
    BY <1>8 DEF read_bytes, DirectRead, GivesNothing
  <2>2. Pending = incoming
    BY <1>2, <1>3, <1>8, BothIs
  <2>3. k \in 0..Min({Chunk, Size(incoming)})
    BY <2>1 DEF Size
  <2>4. k \in 0..Size(Pending) /\ k <= Chunk
    BY <1>2, <2>2, <2>3, MinOfTwo
  <2>5. Return("Ok", FirstOf(Pending, k)) /\ incoming' = DropFirst(Pending, k)
        /\ (k = 0 => AtEnd /\ Pending = <<>>)
    BY <2>1, <2>2 DEF FirstOf
  <2> QED BY <1>6, <2>4, <2>5
<1> QED BY <1>7, <1>8

(* A signal, and any other error of the system call. *)
LEMMA InterruptedStep ==
  ASSUME ReaderInv, Interrupted
  PROVE  ReaderInv' /\ (Stutter \/ Stream!Fail)
<1>1. /\ signals < MaxSignals /\ signals' = signals + 1
      /\ UNCHANGED <<incoming, closed, waits, buf, sent, calls>> /\ ReaderTypes
  BY DEF Interrupted, ReaderInv
<1>2. signals' \in 0..MaxSignals
  BY <1>1, ReaderAssumption DEF ReaderTypes
<1>3. CASE op.fn \in {"read_up_to", "stdin_bytes"}
  <2>1. Return("Err", <<>>)
    BY <1>3 DEF Interrupted
  <2>2. op' = Idle /\ ret' = Result("Err", <<>>) /\ ret'.tag \in Tags
    BY <2>1, ReturnIs DEF Tags
  <2>3. Size(op.acc) = 0 /\ buf' \in Strings /\ incoming' \in Strings /\ Size(buf') <= Capacity
    BY <1>1, <1>3, Sizes DEF ReaderInv, ReaderTypes, CallFits
  <2>4. 0 <= Size(Pending) /\ Pending' = DropFirst(Pending, 0)
    BY <1>1, <2>2, <2>3, NothingMore
  <2>5. ReaderInv'
    BY <1>1, <1>2, <2>2, <2>3, <2>4, CallOver
  <2>6. Stream!Take(op.fn, 0, "Err", <<>>)
    BY <1>1, <2>2, <2>4, TakeIs DEF Result
  <2> QED BY <1>3, <2>5, <2>6 DEF Stream!Fail
<1>4. CASE op.fn \notin {"read_up_to", "stdin_bytes"}
  <2>1. UNCHANGED <<op, ret>>
    BY <1>4 DEF Interrupted
  <2>2. Pending' = Pending
    BY <1>1, <2>1 DEF Pending
  <2>3. ReaderInv'
    BY <1>1, <1>2, <2>1, <2>2 DEF ReaderInv, ReaderTypes, NothingExtra, CallFits
  <2> QED BY <1>1, <2>1, <2>2, <2>3 DEF Stutter
<1> QED BY <1>3, <1>4

LEMMA OsFailsStep ==
  ASSUME ReaderInv, OsFails
  PROVE  ReaderInv' /\ Stream!Fail
<1>1. /\ op # Idle /\ UNCHANGED <<incoming, closed, waits, buf, sent, signals, calls>> /\ ReaderTypes
  BY DEF OsFails, InSystemCall, ReaderInv
<1>2. /\ op.acc \in Strings /\ buf' \in Strings /\ incoming' \in Strings
      /\ Size(buf') <= Capacity /\ signals' \in 0..MaxSignals
      /\ op.fn \in Fns \ {"none"}
  BY <1>1 DEF ReaderInv, ReaderTypes, CallFits
<1> DEFINE n == Size(op.acc)
<1>3. Pending \in Strings /\ Size(Pending) \in Nat /\ n \in Nat
  BY <1>1, <1>2, PendingIs, Sizes
<1>4. (op.acc \o buf) \o incoming = Pending
  BY PendingIs
<1>5. ASSUME op' = Idle
      PROVE  /\ n <= Size(Pending) /\ Pending' = DropFirst(Pending, n)
             /\ FirstOf(Pending, n) = op.acc /\ n \in 0..Size(Pending)
  <2>1. /\ n <= Size(Pending) /\ Pending' = DropFirst(Pending, n)
        /\ FirstOf(Pending, n) = op.acc
    BY <1>1, <1>5, NothingMore
  <2> QED BY <1>3, <2>1
<1>6. ASSUME op' = Idle, ret'.tag \in Tags PROVE ReaderInv'
  BY <1>1, <1>2, <1>3, <1>5, <1>6, CallOver
<1>7. CASE op.fn = "Stdin.line!"
  <2>1. Collected(op.acc)
    BY <1>7 DEF OsFails
  <2>2. /\ op' = Idle
        /\ ret' = IF Contains(op.acc, Bad) THEN Result("Ok", <<>>)
                                           ELSE Result("Ok", Trim(op.acc))
    BY <1>7, <2>1, CollectedEnds, CollectedIs DEF LineCalls
  <2>3. Trim(op.acc) = op.acc
    <3>1. \A i \in 1..n : op.acc[i] # NL
      BY <1>7 DEF ReaderInv, CallFits, LineCalls
    <3>2. op.acc # <<>> => n \in 1..n /\ Last(op.acc) = op.acc[n]
      BY <1>2, <1>3, Sizes DEF Last, Size
    <3> QED BY <3>1, <3>2 DEF Trim
  <2>4. /\ Pending' = DropFirst(Pending, n)
        /\ FirstOf(Pending, n) = op.acc /\ n \in 0..Size(Pending)
    BY <1>5, <2>2
  <2>5. Contains(op.acc, Bad) <=> \E j \in 1..n : Pending[j] = Bad
    <3>1. \A j \in 1..n : op.acc[j] = Pending[j]
      BY <1>3, <2>4, Cut
    <3> QED BY <3>1 DEF Contains, Size
  <2>6. ret'.tag \in Tags
    BY <2>2 DEF Result, Tags
  <2>7. Stream!Take("Stdin.line!", n, "Ok",
                    IF Contains(op.acc, Bad) THEN <<>> ELSE Stream!First(n))
    <3>1. ret' = Result("Ok", IF Contains(op.acc, Bad) THEN <<>> ELSE op.acc)
      BY <2>2, <2>3
    <3>2. Stream!First(n) = op.acc
      BY <2>4, FirstIs
    <3> QED BY <1>1, <1>7, <2>4, <3>1, <3>2, TakeIs DEF Result
  <2>8. Stream!Fail
    BY <1>4, <2>4, <2>5, <2>7 DEF Stream!Fail, Size
  <2> QED BY <1>6, <2>2, <2>6, <2>8
<1>8. CASE op.fn # "Stdin.line!"
  <2>1. Return("Err", <<>>)
    BY <1>8 DEF OsFails
  <2>2. op' = Idle /\ ret' = Result("Err", <<>>) /\ ret'.tag \in Tags
    BY <2>1, ReturnIs DEF Tags
  <2>3. Stream!Take(op.fn, n, "Err", <<>>) /\ n \in 0..Size(Pending)
    BY <1>1, <1>5, <2>2, TakeIs DEF Result
  <2>4. CASE op.fn \in {"read_up_to", "stdin_bytes"}
    <3>1. n = 0
      BY <2>4, Sizes DEF ReaderInv, CallFits
    <3>2. Stream!Take(op.fn, 0, "Err", <<>>)
      BY <2>3, <3>1
    <3> QED BY <1>6, <2>2, <2>4, <3>2 DEF Stream!Fail
  <2>5. CASE op.fn \in {"read_until", "read_exactly", "read_to_end", "stdin_line"}
    BY <1>4, <1>6, <2>2, <2>3, <2>5 DEF Stream!Fail, Size
  <2> QED BY <1>2, <1>8, <2>4, <2>5 DEF Fns
<1> QED BY <1>7, <1>8

-----------------------------------------------------------------------------
(* The theorems.                                                             *)

LEMMA ReaderInit ==
  ASSUME Init
  PROVE  ReaderInv /\ Stream!Init
<1>1. /\ incoming = <<>> /\ closed = FALSE /\ waits \in BOOLEAN /\ buf = <<>> /\ op = Idle /\ op.acc = <<>>
      /\ ret = [fn |-> "none", tag |-> "Ok", bytes |-> <<>>] /\ ret.tag = "Ok"
      /\ sent = 0 /\ signals = 0 /\ calls = 0
  BY DEF Init, Idle
<1>2. Pending = <<>>
  BY <1>1, Sizes, BothIs DEF Pending, Whole
<1>3. Stream!Init
  <2>1. (op.acc \o buf) \o incoming = <<>>
    BY <1>2, PendingIs
  <2> QED BY <1>1, <2>1 DEF Stream!Init
<1>4. Idle \in [fn : Fns, delim : Bytes, n : Nat, acc : Strings]
  BY ReaderAssumption, Sizes DEF Idle, Fns
<1>5. ReaderTypes
  <2>1. /\ incoming \in Strings /\ buf \in Strings /\ Size(buf) <= Capacity
        /\ 0 \in 0..MaxBytes /\ 0 \in 0..MaxSignals /\ 0 \in 0..MaxCalls
    BY <1>1, ReaderAssumption, Sizes
  <2>2. ret.tag \in Tags
    BY <1>1 DEF Tags
  <2> QED BY <1>1, <1>4, <2>1, <2>2 DEF ReaderTypes
<1>6. NothingExtra
  BY <1>1, <1>2, Sizes DEF NothingExtra
<1>7. CallFits
  BY <1>1 DEF CallFits, Idle, LineCalls
<1> QED BY <1>3, <1>5, <1>6, <1>7 DEF ReaderInv

LEMMA ReaderStep ==
  ASSUME ReaderInv, Next
  PROVE  ReaderInv' /\ (Stutter \/ Stream!Next)
<1>1. ASSUME NEW b \in Bytes, SenderSends(b) PROVE ReaderInv' /\ Stream!Next
  BY <1>1, SenderSendsStep DEF Stream!Next
<1>2. CASE SenderCloses
  BY <1>2, SenderClosesStep DEF Stream!Next
<1>3. NL \in Bytes /\ 0 \in Nat /\ Chunk \in Nat /\ MaxBytes + 1 \in Nat /\ Counts \subseteq Nat
  BY ReaderAssumption
<1>4. CASE \/ file_read_line \/ stdin_read_to_end \/ stdin_bytes \/ stdin_line
           \/ hosted_stdin_line
  <2>1. CASE file_read_line
    BY <1>3, <2>1, BeginStep DEF file_read_line, Fns
  <2>2. CASE stdin_read_to_end
    BY <1>3, <2>2, BeginStep DEF stdin_read_to_end, Fns
  <2>3. CASE stdin_bytes
    BY <1>3, <2>3, BeginStep DEF stdin_bytes, Fns
  <2>4. CASE stdin_line
    BY <1>3, <2>4, BeginStep DEF stdin_line, Fns
  <2>5. CASE hosted_stdin_line
    BY <1>3, <2>5, BeginStep DEF hosted_stdin_line, Fns
  <2> QED BY <1>4, <2>1, <2>2, <2>3, <2>4, <2>5
<1>5. ASSUME NEW d \in Bytes, tcp_read_until(d) PROVE ReaderInv' /\ Stutter
  BY <1>3, <1>5, BeginStep DEF tcp_read_until, Fns
<1>6. ASSUME NEW n \in Counts, tcp_read_exactly(n) PROVE ReaderInv' /\ Stutter
  BY <1>3, <1>6, BeginStep DEF tcp_read_exactly, Fns
<1>7. ASSUME NEW n \in Counts, tcp_read_up_to(n) PROVE ReaderInv' /\ Stutter
  BY <1>3, <1>7, BeginStep DEF tcp_read_up_to, Fns
<1>8. CASE read_until
  <2>1. op.delim \in Bytes
    BY DEF ReaderInv, ReaderTypes
  <2> QED BY <1>8, <2>1, ReadUntilStep DEF Stream!Next
<1>9. CASE read_to_end
  BY <1>9, ReadToEndStep DEF Stream!Next
<1>10. CASE read_up_to
  BY <1>10, ReadUpToStep DEF Stream!Next
<1>11. CASE read_bytes
  BY <1>11, ReadBytesStep DEF Stream!Next
<1>12. CASE Interrupted
  BY <1>12, InterruptedStep DEF Stream!Next
<1>13. CASE OsFails
  BY <1>13, OsFailsStep DEF Stream!Next
<1> QED
  BY <1>1, <1>2, <1>4, <1>5, <1>6, <1>7, <1>8, <1>9, <1>10, <1>11, <1>12, <1>13 DEF Next

(* The invariant holds in every state. *)
THEOREM ReaderInvariant == Spec => []ReaderInv
<1>1. Init => ReaderInv
  BY ReaderInit
<1>2. ReaderInv /\ [Next]_vars => ReaderInv'
  <2>1. ASSUME ReaderInv, UNCHANGED vars PROVE ReaderInv'
    BY <2>1 DEF vars, ReaderInv, ReaderTypes, NothingExtra, Pending, CallFits
  <2> QED BY <2>1, ReaderStep
<1> QED BY <1>1, <1>2, PTL DEF Spec

(* Every state of the buffer, the call in progress and its result is one the
   code can be in; no call ever holds more bytes than were sent.             *)
THEOREM ReaderTypeCorrect == Spec => []TypeOK
<1>1. ASSUME ReaderInv PROVE TypeOK
  <2>1. /\ Size(Pending) = Size(op.acc) + Size(buf) + Size(incoming)
        /\ Size(op.acc) \in Nat /\ Size(buf) \in Nat /\ Size(incoming) \in Nat
    BY <1>1, PendingSize DEF ReaderInv
  <2>2. Size(op.acc) <= MaxBytes
    BY <1>1, <2>1, ReaderAssumption DEF ReaderInv, ReaderTypes, NothingExtra
  <2>3. /\ incoming \in Seq(Bytes) /\ buf \in Seq(Bytes) /\ op.acc \in Seq(Bytes)
        /\ Len(buf) <= Capacity /\ Len(op.acc) <= MaxBytes
    BY <1>1, <2>2 DEF ReaderInv, ReaderTypes, Strings, Size
  <2>4. /\ closed \in BOOLEAN /\ waits \in BOOLEAN
        /\ ret.tag \in {"Ok", "Err", "UnexpectedEof", "EndOfFile"}
        /\ sent \in 0..MaxBytes /\ signals \in 0..MaxSignals /\ calls \in 0..MaxCalls
    BY <1>1 DEF ReaderInv, ReaderTypes, Tags
  <2> QED BY <2>3, <2>4 DEF TypeOK
<1> QED BY <1>1, ReaderInvariant, PTL

(* However the system calls cut the stream and however often they are
   interrupted or fail, every call takes its bytes from the front of the
   stream in one go, as ByteStream says.                                     *)
THEOREM ReaderImplementsByteStream == Spec => ImplementsByteStream
<1>1. Init => Stream!Init
  BY ReaderInit
<1>2. ReaderInv /\ [Next]_vars => [Stream!Next]_(Stream!streamVars)
  <2>1. ASSUME UNCHANGED vars PROVE UNCHANGED Stream!streamVars
    BY <2>1 DEF vars, Stream!streamVars
  <2>2. ASSUME Stutter PROVE UNCHANGED Stream!streamVars
    BY <2>2, Zenon DEF Stutter, Stream!streamVars, Pending, Whole, Both
  <2> QED BY <2>1, <2>2, ReaderStep
<1> QED BY <1>1, <1>2, ReaderInvariant, PTL DEF Spec, ImplementsByteStream, Stream!Spec

(* A line read from a file or a connection has its delimiter at its end and
   nowhere else; one without any is only returned at the end of the stream.  *)
THEOREM ReaderLinesAreWhole == Spec => LinesAreWhole
<1> DEFINE Step ==
      op.fn = "read_until" /\ op' = Idle /\ ret'.tag = "Ok" =>
       LET line == ret'.bytes
       IN  /\ \A k \in 1..(Len(line) - 1) : line[k] # op.delim
           /\ line = <<>> \/ Last(line) # op.delim =>
                buf' \o incoming' = <<>> /\ (waits => closed)
<1>1. ASSUME ReaderInv, [Next]_vars PROVE Step
  <2> SUFFICES ASSUME op.fn = "read_until", op' = Idle, ret'.tag = "Ok"
               PROVE  LET line == ret'.bytes
                      IN  /\ \A k \in 1..(Len(line) - 1) : line[k] # op.delim
                          /\ line = <<>> \/ Last(line) # op.delim =>
                               buf' \o incoming' = <<>> /\ (waits => closed)
    OBVIOUS
  <2>1. op' # op /\ op.fn # "none"
    BY DEF Idle
  <2>2. read_until \/ OsFails
    BY <1>1, <2>1 DEF Next, vars, SenderSends, SenderCloses, Begin, file_read_line,
       stdin_read_to_end, stdin_bytes, stdin_line, hosted_stdin_line, tcp_read_until,
       tcp_read_exactly, tcp_read_up_to, read_to_end, read_up_to, read_bytes,
       Interrupted, Idle
  <2>3. ~ OsFails
    BY ReturnIs DEF OsFails
  <2>4. ~ \E line \in Strings : op' = [op EXCEPT !.acc = line]
    BY <2>1 DEF Idle
  <2>5. PICK line \in Strings : LineTaken(line) /\ Collected(line)
    BY <1>1, <2>2, <2>3, <2>4, LineEnds
  <2>6. ret'.bytes = line
    BY <2>5, CollectedIs DEF Result, LineCalls
  <2> DEFINE n == Size(line)
  <2>7. /\ \A i \in 1..(n - 1) : line[i] # op.delim
        /\ \/ n # 0 /\ line[n] = op.delim
           \/ AtEnd /\ buf' = <<>> /\ incoming' = <<>>
    BY <2>5 DEF LineTaken
  <2>8. (n = 0 <=> line = <<>>) /\ Last(line) = line[n]
    BY Sizes DEF Last, Size
  <2>9. buf' = <<>> /\ incoming' = <<>> => buf' \o incoming' = <<>>
    BY Sizes, BothIs DEF Both
  <2>10. \A k \in 1..(Len(line) - 1) : line[k] # op.delim
    BY <2>7 DEF Size
  <2>11. line = <<>> \/ Last(line) # op.delim =>
           buf' \o incoming' = <<>> /\ (waits => closed)
    BY <2>7, <2>8, <2>9 DEF AtEnd
  <2> QED BY <2>6, <2>10, <2>11
<1>2. ReaderInv /\ [Next]_vars => Step
  BY <1>1
<1> HIDE DEF Step
<1>3. Spec => [][Step]_vars
  BY <1>2, ReaderInvariant, PTL DEF Spec
<1> QED BY <1>3 DEF Step, LinesAreWhole
============================================================================
