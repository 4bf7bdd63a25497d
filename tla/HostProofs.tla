------------------------------ MODULE HostProofs ------------------------------
(***************************************************************************)
(* Proofs about one run of a program on any of the three hosts, for every  *)
(* set of printed strings, exit codes and command lines, every number of   *)
(* calls, and every way a write can fail.                                  *)
(***************************************************************************)
EXTENDS LegacyHost, SequenceTheorems, WellFoundedInduction, TLAPS

Printers == {"stdout", "stderr", "child", "dbg", "expect", "crash"}

(* What calls before `n` can have put at positions up to `len`. *)
Upto(n, len) == [by : Printers, call : 0..(n - 1), pos : 1..len, nl : BOOLEAN]
Held(n, len) == {c \in Upto(n, len) : c.by = "stdout"}

(* The same once call n has printed `text` after all of pr. *)
UptoAfter(n, pr, text) == Upto(n + 1, Len(pr) + Len(text))
HeldAfter(n, pr, text) == Held(n + 1, Len(pr) + Len(text))

(* What one stream shows keeps the order in which it was printed. *)
InOrder(q) ==
  \A j, k \in 1..Len(q) : j < k /\ q[j].by = q[k].by => Before(q[j], q[k])

(* The streams after the calls before `n`: what is shown and what is still held
   back are in order together, and without a failure nothing is held back.    *)
StreamsAre(shown, held, all, n, bad) ==
  /\ shown \in Seq(Upto(n, Len(all))) /\ all \in Seq(Upto(n, Len(all)))
  /\ held \in Seq(Held(n, Len(all)))
  /\ InOrder(shown \o held)
  /\ ~bad => held = <<>> /\ shown = all

(* Every character of an answered call is shown. *)
ShownOf(shown, all, answered) ==
  \A k \in 1..Len(all) :
    all[k].call \in answered => \E j \in 1..Len(shown) : shown[j] = all[k]

(* A string as `by` prints it in call `n`. *)
Put(by, text, n) ==
  [k \in 1..Len(text) |-> [by |-> by, call |-> n, pos |-> k, nl |-> text[k]]]

(* What a write leaves of `cs`, in the LineWriter and on the descriptor. *)
Outcomes(C) == [buf : Seq(C), sent : Seq(C), ok : BOOLEAN]

(* After a write of `cs`, what was sent and what is held back are what was
   there before, q, and the start of the text; all of the text on success.   *)
KeepsStart(r, q, cs) ==
  \E m \in 0..Len(cs) : /\ r.sent \o r.buf = q \o SubSeq(cs, 1, m)
                        /\ r.ok => m = Len(cs)

(* x is shown and h held of what were q and the first m characters of cs. *)
Kept(x, h, q, cs, m) == x \o h = q \o SubSeq(cs, 1, m)

(* x and then h are q. *)
Halves(x, h, q) == x \o h = q

(* x is all that was held and all of cs. *)
Emptied(scr, x, held, cs) == scr \o x = (scr \o held) \o cs

(* The outcomes of a whole print: one that succeeded holds nothing back. *)
Printouts(C, q, cs) ==
  {r \in Outcomes(C) : KeepsStart(r, q, cs) /\ (r.ok => r.buf = <<>>)}

(* The call that prints next. A host that was given main!'s result still reports
   it in the name of that call.                                              *)
NextCall == IF result = NoResult THEN calls ELSE calls + 1

HostTypes ==
  /\ flag \in BOOLEAN /\ failed \in BOOLEAN /\ raw \in BOOLEAN
  /\ calls \in 0..MaxCalls
  /\ result \in Results \cup {NoResult}
  /\ ended \in {"no", "return", "exit", "abort"}
  /\ ended = "return" => result # NoResult
  /\ host \in Hosts
  /\ told \in SUBSET (0..(calls - 1))

ArgsAreGiven ==
  IF host = "live" THEN \A k \in DOMAIN args : args[k] \notin {NULL, BadUtf8}
                   ELSE args = argv

Streams == StreamsAre(screen, buf, printed, NextCall, failed)
FlagAccounts == host = "live" => (flag <=> Complained)

(* The inductive invariant. *)
HostInv == HostTypes /\ ArgsAreGiven /\ Streams /\ FlagAccounts /\ OkMeansShown

AllIn(cs, q) == \A i \in 1..Len(cs) : \E j \in 1..Len(q) : q[j] = cs[i]

(* The step prints `text`, in full if it is `done`. *)
Prints(by, text, done) ==
  /\ failed' \in BOOLEAN
  /\ StreamsAre(screen', buf', printed', calls + 1, failed')
  /\ printed' = printed \o Put(by, text, calls)
  /\ \E x \in Seq(Upto(calls + 1, Len(printed) + Len(text))) : screen' = screen \o x
  /\ done => AllIn(Put(by, text, calls), screen')

-----------------------------------------------------------------------------
(* A nonempty set of numbers up to n has a greatest one. *)
LEMMA Greatest ==
  ASSUME NEW n \in Nat, NEW S \in SUBSET (0..n), S # {}
  PROVE  \E m \in S : \A j \in S : m >= j
<1> DEFINE R == {d \in Nat : n - d \in S}
<1>1. R \in SUBSET Nat /\ R # {}
  <2>1. PICK k \in S : TRUE
    OBVIOUS
  <2>2. k \in Nat /\ k <= n
    OBVIOUS
  <2>3. n - k \in Nat /\ n - (n - k) = k
    BY <2>2
  <2>4. n - k \in R
    BY <2>3
  <2> QED BY <2>4
<1>2. IsWellFoundedOn(OpToRel(<, Nat), Nat)
  BY NatLessThanWellFounded
<1> HIDE DEF R
<1>3. PICK d \in R : \A e \in R : ~ (<<e, d>> \in OpToRel(<, Nat))
  BY <1>1, <1>2, WFMin
<1>4. \A e \in R : ~ (e < d)
  BY <1>1, <1>3 DEF OpToRel
<1>5. d \in Nat /\ n - d \in S
  BY <1>3 DEF R
<1>6. ASSUME NEW j \in S PROVE n - d >= j
  <2>1. j \in Nat /\ j <= n /\ n - j \in Nat /\ n - (n - j) = j
    OBVIOUS
  <2>2. n - j \in R
    BY <2>1 DEF R
  <2>3. ~ (n - j < d)
    BY <1>4, <2>2
  <2> QED BY <1>5, <2>1, <2>3
<1> QED BY <1>5, <1>6

(* ... and a least one. *)
LEMMA Least ==
  ASSUME NEW S \in SUBSET Nat, S # {}
  PROVE  \E m \in S : \A j \in S : m <= j
<1>1. IsWellFoundedOn(OpToRel(<, Nat), Nat)
  BY NatLessThanWellFounded
<1>2. PICK m \in S : \A e \in S : ~ (<<e, m>> \in OpToRel(<, Nat))
  BY <1>1, WFMin
<1>3. \A e \in S : ~ (e < m)
  BY <1>2 DEF OpToRel
<1> QED BY <1>3

(* A text can always be cut after its last newline, and a lone newline is cut
   behind itself.                                                            *)
LEMMA CutAfterNewline ==
  ASSUME NEW C, NEW cs \in Seq(C)
  PROVE  /\ LastNewline(cs) \in 0..Len(cs)
         /\ Len(cs) = 1 /\ cs[1].nl => LastNewline(cs) = 1
<1> DEFINE T == {k \in 0..Len(cs) : k > 0 => cs[k].nl}
           P(k) == (k > 0 => cs[k].nl) /\ \A j \in (k + 1)..Len(cs) : ~cs[j].nl
<1>1. Len(cs) \in Nat
  OBVIOUS
<1>2. 0 \in T
  BY <1>1
<1>3. PICK m \in T : \A j \in T : m >= j
  BY <1>1, <1>2, Greatest
<1>4. m \in 0..Len(cs) /\ P(m)
  <2>1. ASSUME NEW j \in (m + 1)..Len(cs), cs[j].nl PROVE FALSE
    <3>1. j \in T /\ ~ (m >= j)
      BY <1>1, <2>1
    <3> QED BY <1>3, <3>1
  <2> QED BY <2>1
<1>5. LastNewline(cs) = CHOOSE k \in 0..Len(cs) : P(k)
  BY DEF LastNewline
<1>6. LastNewline(cs) \in 0..Len(cs) /\ P(LastNewline(cs))
  <2> HIDE DEF P
  <2> QED BY <1>4, <1>5
<1> QED BY <1>1, <1>6

-----------------------------------------------------------------------------
(* The standard streams. C is any set of characters.                         *)

(* Texts can be regrouped. *)
Regroup(C) == \A q, r, t \in Seq(C) : (q \o r) \o t = q \o (r \o t)
LEMMA Regroups == \A C : Regroup(C)
BY ConcatAssociative DEF Regroup

(* The start of a text is a text, and the text is its start and its rest. *)
LEMMA StartOf ==
  ASSUME NEW C, NEW cs \in Seq(C), NEW k \in 0..Len(cs)
  PROVE  /\ SubSeq(cs, 1, k) \in Seq(C) /\ SubSeq(cs, k + 1, Len(cs)) \in Seq(C)
         /\ Len(SubSeq(cs, 1, k)) = k
         /\ SubSeq(cs, 1, k) \o SubSeq(cs, k + 1, Len(cs)) = cs
<1>1. Len(cs) \in Nat /\ \A i \in 1..Len(cs) : cs[i] \in C
  OBVIOUS
<1>2. SubSeq(cs, 1, k) \in Seq(C) /\ Len(SubSeq(cs, 1, k)) = k
  BY <1>1, SubSeqProperties
<1>3. SubSeq(cs, k + 1, Len(cs)) \in Seq(C)
  BY <1>1, SubSeqProperties
<1>4. SubSeq(cs, 1, k) \o SubSeq(cs, k + 1, Len(cs)) = SubSeq(cs, 1, Len(cs))
  <2>1. 1 \in 1..Len(cs)+1 /\ k \in (1 - 1)..Len(cs) /\ Len(cs) \in k..Len(cs)
    BY <1>1
  <2> QED BY <2>1, ConcatAdjacentSubSeq
<1> QED BY <1>2, <1>3, <1>4, SubSeqFull

(* The start of a start is a start. *)
LEMMA StartOfStart ==
  ASSUME NEW C, NEW cs \in Seq(C), NEW n \in 0..Len(cs), NEW m \in 0..n
  PROVE  SubSeq(SubSeq(cs, 1, n), 1, m) = SubSeq(cs, 1, m)
<1>1. CASE m = 0
  BY <1>1, SubSeqEmpty
<1>2. CASE m # 0
  <2>1. 1 \in 1..Len(cs) /\ n \in 1..Len(cs) /\ 1 \in 1..(n-1+1) /\ m \in 1..(n-1+1)
    BY <1>2
  <2>2. SubSeq(SubSeq(cs, 1, n), 1, m) = SubSeq(cs, 1+1-1, 1+m-1)
    BY ONLY <2>1, cs \in Seq(C), SubSeqOfSubSeq
  <2> QED BY <2>1, <2>2
<1> QED BY <1>1, <1>2

(* A flush moves characters and loses none, whether or not it fails. *)
LEMMA FlushMoves ==
  ASSUME NEW C, NEW s0, s0.buf \in Seq(C), NEW s \in FlushBuf(s0)
  PROVE  /\ s.buf \in Seq(C) /\ s.ok \in BOOLEAN
         /\ s.ok => s.buf = <<>>
         /\ s = [buf |-> s.buf, sent |-> s.sent, ok |-> s.ok]
         /\ \E x \in Seq(C) : Halves(s0.sent, x, s.sent) /\ Halves(x, s.buf, s0.buf)
<1> DEFINE b == s0.buf
<1>1. PICK k \in 0..Len(b) : s = [buf  |-> SubSeq(b, k + 1, Len(b)),
                                  sent |-> s0.sent \o SubSeq(b, 1, k),
                                  ok   |-> k = Len(b)]
  BY DEF FlushBuf
<1>2. b \in Seq(C) /\ Len(b) \in Nat
  OBVIOUS
<1>3. SubSeq(b, 1, k) \in Seq(C) /\ SubSeq(b, k + 1, Len(b)) \in Seq(C)
      /\ SubSeq(b, 1, k) \o SubSeq(b, k + 1, Len(b)) = b
  BY <1>2, StartOf
<1> HIDE DEF b
<1>4. k = Len(b) => SubSeq(b, k + 1, Len(b)) = <<>>
  BY <1>2, SubSeqEmpty
<1>5. s.sent = s0.sent \o SubSeq(b, 1, k) /\ SubSeq(b, 1, k) \o s.buf = b
  BY <1>1, <1>3
<1>6. \E x \in Seq(C) : Halves(s0.sent, x, s.sent) /\ Halves(x, s.buf, b)
  BY <1>3, <1>5 DEF Halves
<1> QED BY <1>1, <1>3, <1>4, <1>6 DEF b

LEMMA FlushKeeps ==
  ASSUME NEW C, NEW s0 \in Outcomes(C), NEW s \in FlushBuf(s0)
  PROVE  /\ s \in Outcomes(C)
         /\ s.sent \o s.buf = s0.sent \o s0.buf
         /\ s.ok => s.buf = <<>>
<1>1. Regroup(C)
  BY Regroups
<1>2. s0.buf \in Seq(C)
  BY DEF Outcomes
<1>3. s0.sent \in Seq(C)
  BY DEF Outcomes
<1>4. /\ s.buf \in Seq(C) /\ s.ok \in BOOLEAN
      /\ s.ok => s.buf = <<>>
      /\ s = [buf |-> s.buf, sent |-> s.sent, ok |-> s.ok]
  BY <1>2, FlushMoves
<1>a. PICK x \in Seq(C) : Halves(s0.sent, x, s.sent) /\ Halves(x, s.buf, s0.buf)
  BY <1>2, FlushMoves
<1>5. s.sent = s0.sent \o x /\ x \o s.buf = s0.buf
  BY <1>a DEF Halves
<1>6. s.buf \in Seq(C)
  BY <1>4
<1>7. (s0.sent \o x) \o s.buf = s0.sent \o (x \o s.buf)
  BY <1>1, <1>3, <1>6 DEF Regroup
<1>8. s0.sent \o x \in Seq(C)
  BY <1>3, ConcatProperties
<1>9. s.sent \in Seq(C)
  BY <1>5, <1>8
<1> QED BY <1>4, <1>5, <1>7, <1>9 DEF Outcomes

(* A raw write shows the start of the text: all of it when it succeeds. *)
LEMMA RawShowsStart ==
  ASSUME NEW C, NEW cs \in Seq(C), NEW s0 \in Outcomes(C), NEW s \in RawWrite(s0, cs)
  PROVE  /\ s \in Outcomes(C) /\ s.buf = s0.buf
         /\ \E m \in 0..Len(cs) : /\ s.sent = s0.sent \o SubSeq(cs, 1, m)
                                  /\ s.ok <=> m = Len(cs)
<1>1. PICK m \in 0..Len(cs) : s = [buf  |-> s0.buf,
                                   sent |-> s0.sent \o SubSeq(cs, 1, m),
                                   ok   |-> m = Len(cs)]
  BY DEF RawWrite
<1>2. SubSeq(cs, 1, m) \in Seq(C)
  BY StartOf
<1>3. s0.buf \in Seq(C) /\ s0.sent \o SubSeq(cs, 1, m) \in Seq(C)
  BY <1>2, ConcatProperties DEF Outcomes
<1> QED BY <1>1, <1>3 DEF Outcomes

(* LineWriter::write_all, all of it or the part before the failure. *)
LEMMA LineWriteKeeps ==
  ASSUME NEW C, NEW cs \in Seq(C), NEW s0 \in Outcomes(C), s0.ok,
         NEW s \in LineWrite(s0, cs)
  PROVE  /\ s \in Outcomes(C)
         /\ KeepsStart(s, s0.sent \o s0.buf, cs)
         /\ s.ok /\ Len(cs) = 1 /\ cs[1].nl => s.buf = <<>>
<1>a. Regroup(C)
  BY Regroups
<1> DEFINE n     == LastNewline(cs)
           lines == SubSeq(cs, 1, n)
           tail  == SubSeq(cs, n + 1, Len(cs))
           Cut(t, m) == t.sent \o t.buf = (s0.sent \o s0.buf) \o SubSeq(cs, 1, m)
<1>1. n \in 0..Len(cs) /\ Len(cs) \in Nat
      /\ (Len(cs) = 1 /\ cs[1].nl => n = 1)
  BY CutAfterNewline
<1>2. lines \in Seq(C) /\ tail \in Seq(C) /\ lines \o tail = cs /\ Len(lines) = n
  BY <1>1, StartOf
<1>3. s0.buf \in Seq(C) /\ s0.sent \in Seq(C) /\ s0.sent \o s0.buf \in Seq(C)
  BY ConcatProperties DEF Outcomes
<1>c. s0.sent \in Seq(C)
  BY <1>3
<1>d. s0.buf \in Seq(C)
  BY <1>3
<1>e. lines \in Seq(C)
  BY <1>2
<1>f. tail \in Seq(C)
  BY <1>2
<1>g. s0.sent \o s0.buf \in Seq(C)
  BY <1>3
<1>4. SubSeq(cs, 1, Len(cs)) = cs /\ SubSeq(cs, 1, 0) = <<>>
  BY SubSeqFull, SubSeqEmpty
<1>5. PICK s1 : /\ s = IF s1.ok THEN Append2(s1, tail) ELSE s1
                /\ IF n = 0
                     THEN s1 \in FlushBuf(s0) \/ s1 = s0
                     ELSE IF s0.buf = <<>> THEN s1 \in RawWrite(s0, lines)
                                           ELSE s1 \in FlushBuf(Append2(s0, lines))
  BY Zenon DEF LineWrite
<1> HIDE DEF n, lines, tail
<1>6. /\ s1 \in Outcomes(C)
      /\ \E m \in 0..n : Cut(s1, m) /\ (s1.ok => m = n)
      /\ (s1.ok /\ n # 0 => s1.buf = <<>>)
  <2>1. CASE n = 0
    <3>1. s1 \in Outcomes(C) /\ s1.sent \o s1.buf = s0.sent \o s0.buf
      <4>1. CASE s1 \in FlushBuf(s0)
        BY <4>1, FlushKeeps
      <4>2. CASE s1 = s0
        BY <4>2
      <4> QED BY <1>5, <2>1, <4>1, <4>2
    <3>2. Cut(s1, 0)
      BY <1>3, <1>4, <3>1, ConcatEmptySeq
    <3> HIDE DEF Cut
    <3> QED BY <2>1, <3>1, <3>2
  <2>2. CASE n # 0 /\ s0.buf = <<>>
    <3>1. s1 \in RawWrite(s0, lines)
      BY <1>5, <2>2
    <3>b. /\ s1 \in Outcomes(C) /\ s1.buf = s0.buf
          /\ \E m \in 0..Len(lines) : /\ s1.sent = s0.sent \o SubSeq(lines, 1, m)
                                      /\ s1.ok <=> m = Len(lines)
      <4>1. \A t \in Seq(C) : \A r \in RawWrite(s0, t) :
              /\ r \in Outcomes(C) /\ r.buf = s0.buf
              /\ \E m \in 0..Len(t) : /\ r.sent = s0.sent \o SubSeq(t, 1, m)
                                      /\ r.ok <=> m = Len(t)
        BY RawShowsStart
      <4> QED BY <1>e, <3>1, <4>1
    <3>2. s1 \in Outcomes(C) /\ s1.buf = <<>>
      BY <2>2, <3>b
    <3>3. PICK m \in 0..n : s1.sent = s0.sent \o SubSeq(lines, 1, m) /\ (s1.ok <=> m = n)
      BY <1>2, <3>b
    <3>4. SubSeq(lines, 1, m) = SubSeq(cs, 1, m)
      BY <1>1, StartOfStart DEF lines
    <3>5. s1.sent \in Seq(C) /\ s1.sent \o <<>> = s1.sent /\ s0.sent \o <<>> = s0.sent
      BY <1>3, <3>2, ConcatEmptySeq DEF Outcomes
    <3>6. Cut(s1, m)
      BY <2>2, <3>2, <3>3, <3>4, <3>5
    <3> QED BY <3>2, <3>3, <3>6
  <2>3. CASE n # 0 /\ s0.buf # <<>>
    <3>1. s1 \in FlushBuf(Append2(s0, lines))
      BY <1>5, <2>3
    <3>2. /\ Append2(s0, lines) \in Outcomes(C)
          /\ Append2(s0, lines).sent = s0.sent
          /\ Append2(s0, lines).buf = s0.buf \o lines
      BY <1>2, <1>3, ConcatProperties DEF Append2, Outcomes
    <3> DEFINE t == Append2(s0, lines)
    <3> HIDE DEF t
    <3>a. t \in Outcomes(C) /\ s1 \in FlushBuf(t) /\ t.sent = s0.sent /\ t.buf = s0.buf \o lines
      BY <3>1, <3>2 DEF t
    <3>3. s1 \in Outcomes(C) /\ s1.sent \o s1.buf = s0.sent \o (s0.buf \o lines)
          /\ (s1.ok => s1.buf = <<>>)
      <4>1. s1 \in Outcomes(C) /\ s1.sent \o s1.buf = t.sent \o t.buf /\ (s1.ok => s1.buf = <<>>)
        BY ONLY <3>a, FlushKeeps
      <4> QED BY <3>a, <4>1
    <3>4. s1.sent \o s1.buf = (s0.sent \o s0.buf) \o lines
      <4>1. (s0.sent \o s0.buf) \o lines = s0.sent \o (s0.buf \o lines)
        BY <1>a, <1>c, <1>d, <1>e DEF Regroup
      <4> QED BY <3>3, <4>1
    <3>5. Cut(s1, n)
      BY <3>4 DEF lines
    <3>6. n \in 0..n
      BY <1>1
    <3> HIDE DEF Cut
    <3> QED BY <3>3, <3>5, <3>6
  <2> QED BY <2>1, <2>2, <2>3
<1>7. PICK m \in 0..n : Cut(s1, m) /\ (s1.ok => m = n)
  BY <1>6
<1>8. CASE s1.ok
  <2>1. s = Append2(s1, tail)
    BY <1>5, <1>8
  <2>2. s1.buf \in Seq(C) /\ s1.sent \in Seq(C) /\ s1.buf \o tail \in Seq(C)
    BY <1>2, <1>6, ConcatProperties DEF Outcomes
  <2>a. s1.sent \in Seq(C)
    BY <2>2
  <2>b. s1.buf \in Seq(C)
    BY <2>2
  <2>3. /\ s \in Outcomes(C)
        /\ s.sent = s1.sent
        /\ s.buf = s1.buf \o tail
    BY <1>6, <2>1, <2>2 DEF Append2, Outcomes
  <2>4. s.sent \o s.buf = ((s0.sent \o s0.buf) \o lines) \o tail
    <3>1. s.sent \o s.buf = (s1.sent \o s1.buf) \o tail
      <4>1. (s1.sent \o s1.buf) \o tail = s1.sent \o (s1.buf \o tail)
        BY <1>a, <2>a, <2>b, <1>f DEF Regroup
      <4> QED BY <2>3, <4>1
    <3>2. s1.sent \o s1.buf = (s0.sent \o s0.buf) \o lines
      BY <1>7, <1>8 DEF lines
    <3> QED BY <3>1, <3>2
  <2>5. s.sent \o s.buf = (s0.sent \o s0.buf) \o SubSeq(cs, 1, Len(cs))
    <3>1. ((s0.sent \o s0.buf) \o lines) \o tail = (s0.sent \o s0.buf) \o (lines \o tail)
      BY <1>a, <1>g, <1>e, <1>f DEF Regroup
    <3> QED BY <1>2, <1>4, <2>4, <3>1
  <2>6. Len(cs) = 1 /\ cs[1].nl => s.buf = <<>>
    <3>1. Len(cs) = 1 /\ cs[1].nl => n = 1 /\ s1.buf = <<>>
      BY <1>1, <1>6, <1>8
    <3>2. n = Len(cs) => tail = <<>>
      BY <1>1, SubSeqEmpty DEF tail
    <3>3. s1.buf = <<>> /\ tail = <<>> => s.buf = <<>>
      BY <2>2, <2>3, ConcatEmptySeq
    <3> QED BY <3>1, <3>2, <3>3
  <2>7. KeepsStart(s, s0.sent \o s0.buf, cs)
    <3>1. Len(cs) \in 0..Len(cs)
      BY <1>1
    <3> QED BY <2>5, <3>1 DEF KeepsStart
  <2> QED BY <2>3, <2>6, <2>7
<1>9. CASE ~s1.ok
  <2>1. s = s1 /\ ~s.ok
    BY <1>5, <1>9
  <2>2. m \in 0..Len(cs)
    BY <1>1
  <2>3. KeepsStart(s, s0.sent \o s0.buf, cs)
    <3>1. s.sent \o s.buf = (s0.sent \o s0.buf) \o SubSeq(cs, 1, m)
      BY <1>7, <2>1
    <3>2. s.ok => m = Len(cs)
      BY <2>1
    <3> QED BY <2>2, <3>1, <3>2 DEF KeepsStart
  <2> QED BY <1>6, <2>1, <2>3
<1> QED BY <1>8, <1>9

(* Every print starts with what is held back, and nothing sent. *)
LEMMA FreshStart ==
  ASSUME NEW C, buf \in Seq(C)
  PROVE  /\ Fresh \in Outcomes(C) /\ Fresh.ok /\ Fresh.buf = buf
         /\ Fresh.sent \o Fresh.buf = buf /\ Fresh.sent = <<>>
<1>1. <<>> \in Seq(C) /\ <<>> \o buf = buf
  BY EmptySeq, ConcatEmptySeq
<1> QED BY <1>1 DEF Fresh, Outcomes

(* writeln!: the newline that ends the text takes all of it to the terminal. *)
LEMMA WritelnShows ==
  ASSUME NEW C, buf \in Seq(C), NEW cs \in Seq(C), cs # <<>>, Last(cs).nl
  PROVE  Writeln(cs) \subseteq Printouts(C, buf, cs)
<1> SUFFICES ASSUME NEW s \in Writeln(cs) PROVE s \in Printouts(C, buf, cs)
  OBVIOUS
<1> DEFINE n == Len(cs) - 1
           text == SubSeq(cs, 1, n)
           newline == <<Last(cs)>>
<1>1. n \in 0..Len(cs) /\ n \in Nat /\ Len(cs) = n + 1 /\ cs[n + 1] \in C
      /\ Last(cs) = cs[n + 1]
  BY DEF Last
<1>2. text \in Seq(C) /\ Len(text) = n
  BY <1>1, StartOf
<1>3. newline \in Seq(C) /\ Len(newline) = 1 /\ newline[1].nl
  BY <1>1
<1>4. text \o newline = cs
  <2>1. SubSeq(cs, n + 1, Len(cs)) = newline
    <3>1. n + 1 \in Int /\ Len(cs) \in Int /\ (\A i \in (n+1)..Len(cs) : cs[i] \in C)
          /\ (\A i \in 1..1 : (n + 1) + i - 1 = n + 1)
      BY <1>1
    <3>2. /\ SubSeq(cs, n + 1, Len(cs)) \in Seq(C)
          /\ Len(SubSeq(cs, n + 1, Len(cs))) = 1
          /\ SubSeq(cs, n + 1, Len(cs))[1] = cs[n + 1]
      <4>1. /\ SubSeq(cs, n + 1, Len(cs)) \in Seq(C)
            /\ Len(SubSeq(cs, n + 1, Len(cs)))
               = IF n + 1 <= Len(cs) THEN Len(cs) - (n + 1) + 1 ELSE 0
            /\ \A i \in 1..Len(cs) - (n + 1) + 1 :
                 SubSeq(cs, n + 1, Len(cs))[i] = cs[(n + 1) + i - 1]
        BY <3>1, SubSeqProperties
      <4>2. Len(cs) - (n + 1) + 1 = 1 /\ n + 1 <= Len(cs) /\ 1 \in 1..1
            /\ (n + 1) + 1 - 1 = n + 1
        BY <1>1
      <4> HIDE DEF n
      <4> QED BY <4>1, <4>2
    <3>3. newline[1] = cs[n + 1]
      BY <1>1
    <3>4. \A i \in 1..1 : SubSeq(cs, n + 1, Len(cs))[i] = newline[i]
      BY <3>2, <3>3
    <3> HIDE DEF newline, n
    <3> QED BY <1>3, <3>2, <3>4, SeqEqual, ZenonT(40)
  <2>2. text \o SubSeq(cs, n + 1, Len(cs)) = cs
    BY <1>1, StartOf
  <2> QED BY <2>1, <2>2
<1>5. PICK s1 \in LineWrite(Fresh, text) :
        s \in IF s1.ok THEN LineWrite(s1, newline) ELSE {s1}
  BY Zenon DEF Writeln, Front
<1> HIDE DEF n, text, newline
<1>6. PICK m \in 0..n : /\ s1.sent \o s1.buf = buf \o SubSeq(text, 1, m)
                        /\ s1.ok => m = n
  <2>1. text \in Seq(C) /\ Fresh \in Outcomes(C) /\ Fresh.ok
    BY <1>2, FreshStart
  <2>2. KeepsStart(s1, Fresh.sent \o Fresh.buf, text)
    BY <1>5, <2>1, LineWriteKeeps
  <2>3. KeepsStart(s1, buf, text)
    BY <2>2, FreshStart
  <2> QED BY <1>2, <2>3 DEF KeepsStart
<1>7. s1 \in Outcomes(C)
  BY <1>2, <1>5, FreshStart, LineWriteKeeps
<1>8. CASE ~s1.ok
  <2>1. s = s1 /\ m \in 0..Len(cs)
    BY <1>1, <1>5, <1>8
  <2>2. SubSeq(text, 1, m) = SubSeq(cs, 1, m)
    BY <1>1, <1>6, StartOfStart DEF text
  <2>3. KeepsStart(s, buf, cs)
    BY <1>6, <1>8, <2>1, <2>2 DEF KeepsStart
  <2> QED BY <1>7, <1>8, <2>1, <2>3 DEF Printouts
<1>9. CASE s1.ok
  <2>1. s \in LineWrite(s1, newline)
    BY <1>5, <1>9
  <2>2. SubSeq(text, 1, m) = text
    BY <1>2, <1>6, <1>9, SubSeqFull
  <2>3. /\ s \in Outcomes(C)
        /\ s.ok => s.buf = <<>>
    BY <1>3, <1>7, <1>9, <2>1, LineWriteKeeps
  <2>4. PICK j \in 0..1 : /\ s.sent \o s.buf = (s1.sent \o s1.buf) \o SubSeq(newline, 1, j)
                          /\ s.ok => j = 1
    <3>1. KeepsStart(s, s1.sent \o s1.buf, newline)
      BY <1>3, <1>7, <1>9, <2>1, LineWriteKeeps
    <3> QED BY <1>3, <3>1 DEF KeepsStart
  <2>5. (buf \o text) \o SubSeq(newline, 1, j) = buf \o SubSeq(cs, 1, n + j)
    <3>1. SubSeq(newline, 1, j) \in Seq(C)
      BY <1>3, StartOf
    <3>2. (buf \o text) \o SubSeq(newline, 1, j) = buf \o (text \o SubSeq(newline, 1, j))
      <4>1. \A q, r, t \in Seq(C) : (q \o r) \o t = q \o (r \o t)
        BY Regroups, SMTT(30) DEF Regroup
      <4>2. text \in Seq(C)
        BY <1>2
      <4> QED BY <3>1, <4>1, <4>2, ZenonT(40)
    <3>3. CASE j = 0
      <4>1. SubSeq(newline, 1, j) = <<>> /\ text \o <<>> = text /\ n + j = n
        BY <1>1, <1>2, <3>3, SubSeqEmpty, ConcatEmptySeq
      <4> QED BY <3>2, <4>1 DEF text
    <3>4. CASE j = 1
      <4>1. SubSeq(newline, 1, j) = newline /\ SubSeq(cs, 1, n + j) = cs
        BY <1>1, <1>3, <3>4, SubSeqFull
      <4> QED BY <1>4, <3>2, <4>1
    <3>5. j = 0 \/ j = 1
      OBVIOUS
    <3> QED BY <3>3, <3>4, <3>5
  <2>6. n + j \in 0..Len(cs) /\ (s.ok => n + j = Len(cs))
    BY <1>1, <2>4
  <2>7. s.sent \o s.buf = buf \o SubSeq(cs, 1, n + j)
    BY <1>6, <2>2, <2>4, <2>5
  <2>8. KeepsStart(s, buf, cs)
    BY <2>6, <2>7 DEF KeepsStart
  <2> QED BY <2>3, <2>8 DEF Printouts
<1> QED BY <1>8, <1>9

(* A flush after a print whose text is all held or shown. *)
LEMMA FlushShows ==
  ASSUME NEW C, NEW b \in Seq(C), NEW cs \in Seq(C), NEW s1 \in Outcomes(C),
         NEW m \in 0..Len(cs), s1.sent \o s1.buf = b \o SubSeq(cs, 1, m),
         NEW s2 \in FlushBuf(s1), NEW ok \in BOOLEAN,
         ok => s2.ok /\ m = Len(cs)
  PROVE  [s2 EXCEPT !.ok = ok] \in Printouts(C, b, cs)
<1>1. s2 \in Outcomes(C) /\ s2.sent \o s2.buf = b \o SubSeq(cs, 1, m)
      /\ (s2.ok => s2.buf = <<>>)
  BY FlushKeeps
<1> DEFINE s == [s2 EXCEPT !.ok = ok]
<1>2. s \in Outcomes(C) /\ s.sent = s2.sent /\ s.buf = s2.buf /\ s.ok = ok
  BY <1>1 DEF Outcomes
<1> HIDE DEF s
<1>3. KeepsStart(s, b, cs)
  BY <1>1, <1>2 DEF KeepsStart
<1>4. s \in Printouts(C, b, cs)
  BY <1>1, <1>2, <1>3 DEF Printouts
<1> QED BY <1>4 DEF s

-----------------------------------------------------------------------------
(* The order of what is shown and held back.                                 *)

LEMMA UptoGrows ==
  ASSUME NEW n \in Nat, NEW n2 \in Nat, n <= n2, NEW l \in Nat, NEW l2 \in Nat, l <= l2
  PROVE  Upto(n, l) \subseteq Upto(n2, l2) /\ Held(n, l) \subseteq Held(n2, l2)
<1>1. 0..(n - 1) \subseteq 0..(n2 - 1) /\ 1..l \subseteq 1..l2
  OBVIOUS
<1>2. Upto(n, l) \subseteq Upto(n2, l2)
  BY <1>1 DEF Upto
<1> QED BY <1>2 DEF Held

(* The characters of a print. *)
LEMMA PutFacts ==
  ASSUME NEW by \in Printers, NEW text \in Seq(BOOLEAN), NEW n \in Nat, NEW l \in Nat
  PROVE  /\ Len(Put(by, text, n)) = Len(text) /\ Len(text) \in Nat
         /\ Put(by, text, n) \in Seq(Upto(n + 1, l + Len(text)))
         /\ by = "stdout" => Put(by, text, n) \in Seq(Held(n + 1, l + Len(text)))
         /\ \A k \in 1..Len(text) :
              /\ Put(by, text, n)[k].by = by /\ Put(by, text, n)[k].call = n
              /\ Put(by, text, n)[k].pos = k /\ Put(by, text, n)[k].nl = text[k]
<1> DEFINE U == Upto(n + 1, l + Len(text))
           H == Held(n + 1, l + Len(text))
           c(k) == [by |-> by, call |-> n, pos |-> k, nl |-> text[k]]
<1>1. Len(text) \in Nat
  OBVIOUS
<1>2. \A k \in 1..Len(text) : c(k) \in U
  <2> SUFFICES ASSUME NEW k \in 1..Len(text) PROVE c(k) \in U
    OBVIOUS
  <2>1. n \in 0..((n + 1) - 1) /\ k \in 1..(l + Len(text)) /\ text[k] \in BOOLEAN
    BY <1>1
  <2> QED BY <2>1 DEF Upto
<1>3. by = "stdout" => \A k \in 1..Len(text) : c(k) \in H
  BY <1>2 DEF Held
<1>4. Put(by, text, n) = [k \in 1..Len(text) |-> c(k)]
  BY DEF Put
<1> HIDE DEF U, H
<1>5. Len(Put(by, text, n)) = Len(text)
  BY <1>1, <1>4
<1>6. [k \in 1..Len(text) |-> c(k)] \in Seq(U)
  <2> HIDE DEF c
  <2> QED BY <1>1, <1>2
<1>7. by = "stdout" => [k \in 1..Len(text) |-> c(k)] \in Seq(H)
  <2> HIDE DEF c
  <2> QED BY <1>1, <1>3
<1>8. \A k \in 1..Len(text) : Put(by, text, n)[k] = c(k)
  BY <1>4
<1> QED BY <1>1, <1>4, <1>5, <1>6, <1>7, <1>8 DEF U, H

(* Indexing a concatenation. *)
LEMMA Joined ==
  ASSUME NEW C, NEW q \in Seq(C), NEW r \in Seq(C), NEW i \in 1..Len(q \o r)
  PROVE  /\ i \in 1..Len(q) => (q \o r)[i] = q[i]
         /\ i \notin 1..Len(q) => i - Len(q) \in 1..Len(r) /\ (q \o r)[i] = r[i - Len(q)]
<1>1. Len(q) \in Nat /\ Len(r) \in Nat
  OBVIOUS
<1>2. Len(q \o r) = Len(q) + Len(r)
      /\ \A k \in 1..Len(q) + Len(r) :
           (q \o r)[k] = IF k <= Len(q) THEN q[k] ELSE r[k - Len(q)]
  BY ConcatProperties
<1> QED BY <1>1, <1>2

(* The characters of one print, later than all of q, come after q. *)
LEMMA LaterInOrder ==
  ASSUME NEW n \in Nat, NEW C, NEW q \in Seq(C), NEW r \in Seq(C), InOrder(q),
         \A i \in 1..Len(q) : q[i].call \in Int /\ q[i].call < n,
         \A i \in 1..Len(r) : r[i].call = n /\ r[i].pos = i
  PROVE  InOrder(q \o r)
<1> SUFFICES ASSUME NEW j \in 1..Len(q \o r), NEW k \in 1..Len(q \o r),
                    j < k, (q \o r)[j].by = (q \o r)[k].by
             PROVE  Before((q \o r)[j], (q \o r)[k])
  BY DEF InOrder
<1>1. Len(q) \in Nat /\ Len(r) \in Nat /\ Len(q \o r) \in Nat
  <2>1. q \o r \in Seq(C)
    BY ConcatProperties
  <2> QED BY <2>1
<1>2. CASE k \in 1..Len(q)
  <2>1. j \in 1..Len(q)
    BY <1>1, <1>2
  <2>2. (q \o r)[j] = q[j] /\ (q \o r)[k] = q[k]
    BY <1>2, <2>1, Joined
  <2> QED BY <1>2, <2>1, <2>2 DEF InOrder
<1>3. CASE k \notin 1..Len(q) /\ j \in 1..Len(q)
  <2>1. (q \o r)[j] = q[j] /\ k - Len(q) \in 1..Len(r) /\ (q \o r)[k] = r[k - Len(q)]
    BY <1>3, Joined
  <2>2. q[j].call < n /\ r[k - Len(q)].call = n
    BY <1>3, <2>1
  <2> QED BY <2>1, <2>2 DEF Before
<1>4. CASE k \notin 1..Len(q) /\ j \notin 1..Len(q)
  <2>1. /\ j - Len(q) \in 1..Len(r) /\ (q \o r)[j] = r[j - Len(q)]
        /\ k - Len(q) \in 1..Len(r) /\ (q \o r)[k] = r[k - Len(q)]
    BY <1>4, Joined
  <2>2. j - Len(q) < k - Len(q)
    BY <1>1
  <2> QED BY <2>1, <2>2 DEF Before
<1> QED BY <1>2, <1>3, <1>4

(* The same character behind a prefix of another length. *)
LEMMA Moved ==
  ASSUME NEW lp \in Nat, NEW lq \in Nat, NEW lh \in Nat, NEW j \in Int,
         j - lp \in 1..lh
  PROVE  /\ (j - lp) + lq \in 1..(lq + lh)
         /\ (j - lp) + lq \notin 1..lq
         /\ ((j - lp) + lq) - lq = j - lp
  OBVIOUS

(* What another stream shows may pass what the LineWriter holds back. *)
LEMMA PassingInOrder ==
  ASSUME NEW C, NEW q \in Seq(C), NEW r \in Seq(C), NEW h \in Seq(C),
         InOrder(q \o h), InOrder(q \o r),
         \A i \in 1..Len(h) : h[i].by = "stdout",
         \A i \in 1..Len(r) : r[i].by # "stdout"
  PROVE  InOrder((q \o r) \o h)
<1> DEFINE p == q \o r
<1> SUFFICES ASSUME NEW j \in 1..Len(p \o h), NEW k \in 1..Len(p \o h),
                    j < k, (p \o h)[j].by = (p \o h)[k].by
             PROVE  Before((p \o h)[j], (p \o h)[k])
  BY DEF InOrder
<1>1. /\ p \in Seq(C) /\ Len(q) \in Nat /\ Len(r) \in Nat /\ Len(h) \in Nat
      /\ Len(p) = Len(q) + Len(r) /\ Len(p \o h) = Len(q) + Len(r) + Len(h)
      /\ Len(q \o h) = Len(q) + Len(h)
  <2>1. p \in Seq(C) /\ Len(p) = Len(q) + Len(r)
    BY ConcatProperties
  <2> HIDE DEF p
  <2>2. Len(p \o h) = Len(p) + Len(h) /\ Len(q \o h) = Len(q) + Len(h)
    BY <2>1, ConcatProperties
  <2> QED BY <2>1, <2>2
<1>2. InOrder(p)
  OBVIOUS
<1>a. \A i \in 1..Len(p) : /\ i \in 1..Len(q) => p[i] = q[i]
                           /\ i \notin 1..Len(q) => i - Len(q) \in 1..Len(r) /\ p[i] = r[i - Len(q)]
  BY Joined
<1> HIDE DEF p
<1>3. CASE k \in 1..Len(p)
  <2>1. j \in 1..Len(p)
    BY <1>1, <1>3
  <2>2. (p \o h)[j] = p[j] /\ (p \o h)[k] = p[k]
    BY <1>1, <1>3, <2>1, Joined
  <2> QED BY <1>2, <1>3, <2>1, <2>2 DEF InOrder
<1>4. CASE k \notin 1..Len(p)
  <2>1. k - Len(p) \in 1..Len(h) /\ (p \o h)[k] = h[k - Len(p)]
    BY <1>1, <1>4, Joined
  <2>2. (p \o h)[k].by = "stdout"
    BY <2>1
  <2> DEFINE K == (k - Len(p)) + Len(q)
  <2>3. K \in 1..Len(q \o h) /\ K \notin 1..Len(q) /\ K - Len(q) = k - Len(p)
    <3>1. k \in Int /\ Len(p) \in Nat
      BY <1>1
    <3>2. K \in 1..(Len(q) + Len(h)) /\ K \notin 1..Len(q) /\ K - Len(q) = k - Len(p)
      BY <1>1, <2>1, <3>1, Moved
    <3> HIDE DEF K
    <3> QED BY <1>1, <3>2
  <2>4. (q \o h)[K] = h[k - Len(p)]
    BY <2>3, Joined
  <2>5. CASE j \in 1..Len(p)
    <3>1. (p \o h)[j] = p[j]
      BY <1>1, <2>5, Joined
    <3>2. j \in 1..Len(q)
      BY <1>a, <2>2, <2>5, <3>1
    <3>3. p[j] = q[j] /\ j \in 1..Len(q \o h)
      BY <1>1, <1>a, <2>5, <3>2
    <3>4. (q \o h)[j] = q[j] /\ j < K
      BY <1>1, <2>1, <3>2, <3>3, Joined
    <3> HIDE DEF K
    <3> QED BY <2>1, <2>3, <2>4, <3>1, <3>3, <3>4 DEF InOrder
  <2>6. CASE j \notin 1..Len(p)
    <3>1. j - Len(p) \in 1..Len(h) /\ (p \o h)[j] = h[j - Len(p)]
      BY <1>1, <2>6, Joined
    <3> DEFINE J == (j - Len(p)) + Len(q)
    <3>2. J \in 1..Len(q \o h) /\ J \notin 1..Len(q) /\ J - Len(q) = j - Len(p)
      <4>1. j \in Int /\ Len(p) \in Nat
        BY <1>1
      <4>2. J \in 1..(Len(q) + Len(h)) /\ J \notin 1..Len(q) /\ J - Len(q) = j - Len(p)
        BY <1>1, <3>1, <4>1, Moved
      <4> HIDE DEF J
      <4> QED BY <1>1, <4>2
    <3>a. J < K
      BY <1>1
    <3>3. (q \o h)[J] = h[j - Len(p)]
      BY <3>2, Joined
    <3> HIDE DEF J, K
    <3> QED BY <2>1, <2>3, <2>4, <3>1, <3>2, <3>3, <3>a DEF InOrder
  <2> QED BY <2>5, <2>6
<1> QED BY <1>3, <1>4

-----------------------------------------------------------------------------
(* What a print does to the streams.                                         *)

LEMMA StreamFacts ==
  ASSUME NEW n \in Nat, NEW n2 \in Nat, n <= n2, NEW more \in Nat,
         NEW scr, NEW b, NEW pr, NEW bad, StreamsAre(scr, b, pr, n, bad)
  PROVE  /\ Len(pr) \in Nat /\ Len(pr) + more \in Nat
         /\ scr \in Seq(Upto(n2, Len(pr) + more))
         /\ pr \in Seq(Upto(n2, Len(pr) + more))
         /\ b \in Seq(Upto(n2, Len(pr) + more)) /\ b \in Seq(Held(n2, Len(pr) + more))
         /\ scr \o b \in Seq(Upto(n2, Len(pr) + more))
         /\ \A i \in 1..Len(pr) : pr[i].call \in Int /\ pr[i].call < n
         /\ \A i \in 1..Len(scr) : scr[i].call \in Int /\ scr[i].call < n
         /\ \A i \in 1..Len(scr \o b) : (scr \o b)[i].call \in Int /\ (scr \o b)[i].call < n
<1> DEFINE U == Upto(n, Len(pr))
           H == Held(n, Len(pr))
           U2 == Upto(n2, Len(pr) + more)
           H2 == Held(n2, Len(pr) + more)
<1>1. scr \in Seq(U) /\ pr \in Seq(U) /\ b \in Seq(H)
  BY DEF StreamsAre
<1>2. Len(pr) \in Nat /\ Len(pr) + more \in Nat /\ Len(pr) <= Len(pr) + more
  BY <1>1
<1>3. U \subseteq U2 /\ H \subseteq H2
  BY <1>2, UptoGrows
<1>4. H \subseteq U
      /\ (\A c \in U : c.call \in Int /\ c.call < n)
  BY DEF Held, Upto
<1> HIDE DEF U, H, U2, H2
<1>5. b \in Seq(U)
  BY <1>1, <1>4, SeqMonotonic
<1>6. scr \o b \in Seq(U)
  BY <1>1, <1>5, ConcatProperties
<1>7. scr \in Seq(U2) /\ pr \in Seq(U2) /\ b \in Seq(U2) /\ b \in Seq(H2) /\ scr \o b \in Seq(U2)
  BY <1>1, <1>3, <1>5, <1>6, SeqMonotonic
<1>8. \A i \in 1..Len(pr) : pr[i] \in U
  BY <1>1, ElementOfSeq
<1>9. \A i \in 1..Len(scr) : scr[i] \in U
  BY <1>1, ElementOfSeq
<1>10. \A i \in 1..Len(scr \o b) : (scr \o b)[i] \in U
  BY <1>6, ElementOfSeq
<1> QED BY <1>2, <1>4, <1>7, <1>8, <1>9, <1>10 DEF U2, H2

LEMMA HeldIsStdout ==
  ASSUME NEW n \in Nat, NEW scr, NEW b, NEW pr, NEW bad, StreamsAre(scr, b, pr, n, bad)
  PROVE  \A i \in 1..Len(b) : b[i].by = "stdout"
<1>1. b \in Seq(Held(n, Len(pr)))
  BY DEF StreamsAre
<1>2. \A i \in 1..Len(b) : b[i] \in Held(n, Len(pr))
  BY <1>1, ElementOfSeq
<1> QED BY <1>2 DEF Held

(* The start of a print, as characters. *)
LEMMA StartFacts ==
  ASSUME NEW by \in Printers, NEW text \in Seq(BOOLEAN), NEW n \in Nat, NEW l \in Nat,
         NEW m \in 0..Len(Put(by, text, n))
  PROVE  /\ SubSeq(Put(by, text, n), 1, m) \in Seq(Upto(n + 1, l + Len(text)))
         /\ \A i \in 1..Len(SubSeq(Put(by, text, n), 1, m)) :
              /\ SubSeq(Put(by, text, n), 1, m)[i].by = by
              /\ SubSeq(Put(by, text, n), 1, m)[i].call = n
              /\ SubSeq(Put(by, text, n), 1, m)[i].pos = i
<1> DEFINE cs == Put(by, text, n)
           p == SubSeq(cs, 1, m)
           U == Upto(n + 1, l + Len(text))
<1>1. cs \in Seq(U) /\ Len(cs) = Len(text) /\ Len(cs) \in Nat
      /\ \A k \in 1..Len(cs) : cs[k].by = by /\ cs[k].call = n /\ cs[k].pos = k
  BY PutFacts
<1> HIDE DEF cs, U
<1>2. p \in Seq(U) /\ Len(p) = m
  BY <1>1, StartOf DEF cs
<1>3. \A i \in 1..m : p[i] = cs[i] /\ i \in 1..Len(cs)
  <2>1. (\A i \in 1..m : cs[i] \in U) /\ m \in Int /\ m \in Nat
    BY <1>1 DEF cs
  <2>2. \A i \in 1..m - 1 + 1 : p[i] = cs[1 + i - 1]
    BY <2>1, SubSeqProperties
  <2>3. m \in 0..Len(cs)
    BY DEF cs
  <2> QED BY <1>1, <2>1, <2>2, <2>3
<1>4. \A i \in 1..Len(p) : p[i].by = by /\ p[i].call = n /\ p[i].pos = i
  BY <1>1, <1>2, <1>3
<1> QED BY <1>2, <1>4 DEF cs, U

(* The streams after a print on stdout. *)
LEMMA StdoutStreams ==
  ASSUME NEW n \in Nat, NEW scr, NEW b, NEW pr, NEW bad \in BOOLEAN,
         StreamsAre(scr, b, pr, n, bad), NEW text \in Seq(BOOLEAN), NEW cs,
         cs = Put("stdout", text, n),
         NEW x \in Seq(HeldAfter(n, pr, text)), NEW b2 \in Seq(HeldAfter(n, pr, text)),
         NEW m \in 0..Len(cs), Kept(x, b2, b, cs, m),
         NEW bad2 \in BOOLEAN, ~bad2 => ~bad /\ m = Len(cs) /\ b2 = <<>>
  PROVE  /\ StreamsAre(scr \o x, b2, pr \o cs, n + 1, bad2)
         /\ x \in Seq(UptoAfter(n, pr, text))
         /\ m = Len(cs) /\ b2 = <<>> => Emptied(scr, x, b, cs)
<1> DEFINE l == Len(pr) + Len(text)
           U == Upto(n + 1, l)
           H == Held(n + 1, l)
<1>1. Len(text) \in Nat /\ n + 1 \in Nat /\ n <= n + 1 /\ "stdout" \in Printers
  BY DEF Printers
<1>2. /\ Len(pr) \in Nat /\ l \in Nat
      /\ scr \in Seq(U) /\ pr \in Seq(U) /\ b \in Seq(U) /\ b \in Seq(H) /\ scr \o b \in Seq(U)
      /\ \A i \in 1..Len(scr \o b) : (scr \o b)[i].call \in Int /\ (scr \o b)[i].call < n
  BY <1>1, StreamFacts
<1>3. cs \in Seq(U) /\ cs \in Seq(H) /\ Len(cs) = Len(text)
  BY <1>1, <1>2, PutFacts
<1>7. H \subseteq U
  BY DEF Held
<1>8. /\ SubSeq(cs, 1, m) \in Seq(U)
      /\ \A i \in 1..Len(SubSeq(cs, 1, m)) :
           SubSeq(cs, 1, m)[i].call = n /\ SubSeq(cs, 1, m)[i].pos = i
  <2>1. m \in 0..Len(Put("stdout", text, n))
    BY <1>1
  <2> QED BY <1>1, <1>2, <2>1, StartFacts, SMTT(30)
<1> HIDE DEF U, H
<1>9. Len(pr \o cs) = l /\ pr \o cs \in Seq(U)
  <2>1. Len(pr \o cs) = Len(pr) + Len(cs) /\ pr \o cs \in Seq(U)
    BY <1>2, <1>3, ConcatProperties
  <2> QED BY <1>3, <2>1
<1> HIDE DEF l
<1>10. x \in Seq(U) /\ b2 \in Seq(U)
  <2>1. x \in Seq(H) /\ b2 \in Seq(H)
    BY DEF H, l, HeldAfter
  <2> QED BY <1>7, <2>1, SeqMonotonic
<1>a. Regroup(U)
  BY Regroups
<1>b. scr \in Seq(U)
  BY <1>2
<1>c. b \in Seq(U)
  BY <1>2
<1>d. x \in Seq(U)
  BY <1>10
<1>e. b2 \in Seq(U)
  BY <1>10
<1>f. SubSeq(cs, 1, m) \in Seq(U)
  BY <1>8
<1>11. (scr \o x) \o b2 = (scr \o b) \o SubSeq(cs, 1, m)
  <2>1. (scr \o x) \o b2 = scr \o (x \o b2)
    BY <1>a, <1>b, <1>d, <1>e DEF Regroup
  <2>2. (scr \o b) \o SubSeq(cs, 1, m) = scr \o (b \o SubSeq(cs, 1, m))
    BY <1>a, <1>b, <1>c, <1>f DEF Regroup
  <2> QED BY <2>1, <2>2 DEF Kept
<1>12. InOrder((scr \o x) \o b2)
  <2>1. InOrder(scr \o b)
    BY DEF StreamsAre
  <2>2. InOrder((scr \o b) \o SubSeq(cs, 1, m))
    BY <1>2, <1>8, <2>1, LaterInOrder
  <2> QED BY <1>11, <2>2
<1>13. scr \o x \in Seq(U)
  BY <1>2, <1>10, ConcatProperties
<1>14. m = Len(cs) /\ b2 = <<>> => scr \o x = (scr \o b) \o cs
  <2> SUFFICES ASSUME m = Len(cs), b2 = <<>> PROVE scr \o x = (scr \o b) \o cs
    OBVIOUS
  <2>1. SubSeq(cs, 1, m) = cs
    BY <1>3, SubSeqFull
  <2>2. (scr \o x) \o <<>> = scr \o x
    BY <1>13, ConcatEmptySeq
  <2> QED BY <1>11, <2>1, <2>2
<1>15. ~bad2 => b2 = <<>> /\ scr \o x = pr \o cs
  <2>1. ~bad => b = <<>> /\ scr = pr
    BY DEF StreamsAre
  <2>2. scr \o <<>> = scr
    BY <1>2, ConcatEmptySeq
  <2> QED BY <1>14, <2>1, <2>2
<1>16. StreamsAre(scr \o x, b2, pr \o cs, n + 1, bad2)
  BY <1>9, <1>12, <1>13, <1>15 DEF StreamsAre, U, H, l, HeldAfter
<1> QED BY <1>10, <1>14, <1>16 DEF U, l, UptoAfter, Emptied

(* ... after a print that does not go through the LineWriter; ... *)
LEMMA StderrStreams ==
  ASSUME NEW n \in Nat, NEW scr, NEW b, NEW pr, NEW bad \in BOOLEAN,
         StreamsAre(scr, b, pr, n, bad), NEW text \in Seq(BOOLEAN),
         NEW by \in Printers \ {"stdout"}, NEW cs, cs = Put(by, text, n),
         NEW m \in 0..Len(cs), NEW bad2 \in BOOLEAN, m # Len(cs) \/ bad => bad2
  PROVE  /\ StreamsAre(scr \o SubSeq(cs, 1, m), b, pr \o cs, n + 1, bad2)
         /\ SubSeq(cs, 1, m) \in Seq(Upto(n + 1, Len(pr) + Len(text)))
<1> DEFINE l == Len(pr) + Len(text)
           U == Upto(n + 1, l)
           H == Held(n + 1, l)
           p == SubSeq(cs, 1, m)
<1>1. Len(text) \in Nat /\ n + 1 \in Nat /\ n <= n + 1 /\ by \in Printers
  OBVIOUS
<1>2. /\ Len(pr) \in Nat /\ l \in Nat
      /\ scr \in Seq(U) /\ pr \in Seq(U) /\ b \in Seq(U) /\ b \in Seq(H)
  BY <1>1, StreamFacts
<1>a. \A i \in 1..Len(scr) : scr[i].call \in Int /\ scr[i].call < n
  BY <1>1, StreamFacts
<1>b. \A i \in 1..Len(b) : b[i].by = "stdout"
  BY HeldIsStdout
<1>3. cs \in Seq(U) /\ Len(cs) = Len(text)
  BY <1>1, <1>2, PutFacts
<1>4. /\ p \in Seq(U)
      /\ \A i \in 1..Len(p) : p[i].by = by /\ p[i].call = n /\ p[i].pos = i
  <2>1. m \in 0..Len(Put(by, text, n)) /\ by \in Printers /\ Len(pr) \in Nat
    BY <1>1, <1>2
  <2> QED BY <2>1, StartFacts, SMTT(30)
<1>5. Len(pr \o cs) = l /\ pr \o cs \in Seq(U)
  BY <1>2, <1>3, ConcatProperties
<1>6. m = Len(cs) => p = cs
  BY <1>3, SubSeqFull
<1> HIDE DEF l, U, H, p
<1>7. InOrder(scr \o b)
  BY DEF StreamsAre
<1>8. InOrder(scr \o p)
  <2>1. InOrder(scr)
    <3>1. \A i \in 1..Len(scr) : i \in 1..Len(scr \o b) /\ (scr \o b)[i] = scr[i]
      BY <1>2, ConcatProperties
    <3> QED BY <1>7, <3>1 DEF InOrder
  <2> QED BY <1>2, <1>4, <1>a, <2>1, LaterInOrder
<1>9. InOrder((scr \o p) \o b)
  <2>1. \A i \in 1..Len(p) : p[i].by # "stdout"
    BY <1>4
  <2> QED BY <1>2, <1>4, <1>7, <1>8, <1>b, <2>1, PassingInOrder
<1>10. scr \o p \in Seq(U)
  BY <1>2, <1>4, ConcatProperties
<1>11. ~bad2 => b = <<>> /\ scr \o p = pr \o cs
  BY <1>6 DEF StreamsAre
<1>12. StreamsAre(scr \o p, b, pr \o cs, n + 1, bad2)
  BY <1>2, <1>5, <1>9, <1>10, <1>11 DEF StreamsAre, U, H, l
<1> QED BY <1>4, <1>12 DEF U, l, p

(* ... after a flush; ... *)
LEMMA FlushStreams ==
  ASSUME NEW n \in Nat, NEW scr, NEW b, NEW pr, NEW bad \in BOOLEAN,
         StreamsAre(scr, b, pr, n, bad), NEW x, NEW b2, NEW bad2 \in BOOLEAN,
         x \in Seq(Held(n, Len(pr))), b2 \in Seq(Held(n, Len(pr))), Halves(x, b2, b),
         bad => bad2, ~bad2 => b2 = <<>>
  PROVE  /\ StreamsAre(scr \o x, b2, pr, n, bad2)
         /\ x \in Seq(Upto(n, Len(pr)))
<1> DEFINE U == Upto(n, Len(pr))
           H == Held(n, Len(pr))
<1>1. x \in Seq(H) /\ b2 \in Seq(H) /\ H \subseteq U
  BY DEF Held
<1>2. scr \in Seq(U) /\ pr \in Seq(U) /\ InOrder(scr \o b)
  BY DEF StreamsAre
<1>3. ~bad => b = <<>> /\ scr = pr
  BY DEF StreamsAre
<1> HIDE DEF U, H
<1>4. x \in Seq(U) /\ b2 \in Seq(U)
  BY <1>1, SeqMonotonic
<1>5. scr \o x \in Seq(U)
  BY <1>2, <1>4, ConcatProperties
<1>a. Regroup(U)
  BY Regroups
<1>b. scr \in Seq(U)
  BY <1>2
<1>c. x \in Seq(U)
  BY <1>4
<1>d. b2 \in Seq(U)
  BY <1>4
<1>6. (scr \o x) \o b2 = scr \o b
  BY <1>a, <1>b, <1>c, <1>d DEF Regroup, Halves
<1>7. ~bad2 => scr \o x = pr
  <2> SUFFICES ASSUME ~bad2 PROVE scr \o x = pr
    OBVIOUS
  <2>1. x = <<>>
    BY <1>1, <1>3, ConcatEqualIffEmpty DEF Halves
  <2> QED BY <1>2, <1>3, <2>1, ConcatEmptySeq
<1>8. InOrder((scr \o x) \o b2)
  BY <1>2, <1>6
<1>9. StreamsAre(scr \o x, b2, pr, n, bad2)
  BY <1>1, <1>2, <1>5, <1>7, <1>8 DEF StreamsAre, U, H
<1> QED BY <1>4, <1>9 DEF U

(* ... and after a call that prints nothing. *)
LEMMA QuietStreams ==
  ASSUME NEW n \in Nat, NEW scr, NEW b, NEW pr, NEW bad,
         StreamsAre(scr, b, pr, n, bad)
  PROVE  StreamsAre(scr, b, pr, n + 1, bad)
<1>1. n + 1 \in Nat /\ n <= n + 1 /\ 0 \in Nat
  OBVIOUS
<1>2. /\ Len(pr) \in Nat
      /\ scr \in Seq(Upto(n + 1, Len(pr) + 0))
      /\ pr \in Seq(Upto(n + 1, Len(pr) + 0))
      /\ b \in Seq(Held(n + 1, Len(pr) + 0))
  BY <1>1, StreamFacts
<1>3. Len(pr) + 0 = Len(pr)
  BY <1>2
<1>4. InOrder(scr \o b) /\ (~bad => b = <<>> /\ scr = pr)
  BY DEF StreamsAre
<1> QED BY <1>2, <1>3, <1>4 DEF StreamsAre

(* What was shown stays shown, and a print adds what it showed. *)
LEMMA ShownStep ==
  ASSUME NEW C, NEW scr \in Seq(C), NEW x \in Seq(C), NEW pr \in Seq(C), NEW cs \in Seq(C),
         NEW n, NEW answered, NEW answered2, answered2 \subseteq answered \cup {n},
         ShownOf(scr, pr, answered), n \notin answered,
         \A i \in 1..Len(pr) : pr[i].call # n,
         \A i \in 1..Len(cs) : cs[i].call = n,
         n \in answered2 =>
           \A i \in 1..Len(cs) : \E j \in 1..Len(scr \o x) : (scr \o x)[j] = cs[i]
  PROVE  ShownOf(scr \o x, pr \o cs, answered2)
<1> SUFFICES ASSUME NEW k \in 1..Len(pr \o cs), (pr \o cs)[k].call \in answered2
             PROVE  \E j \in 1..Len(scr \o x) : (scr \o x)[j] = (pr \o cs)[k]
  BY DEF ShownOf
<1>1. CASE k \in 1..Len(pr)
  <2>1. (pr \o cs)[k] = pr[k] /\ pr[k].call \in answered
    BY <1>1, Joined
  <2>2. PICK j \in 1..Len(scr) : scr[j] = pr[k]
    BY <1>1, <2>1 DEF ShownOf
  <2>3. j \in 1..Len(scr \o x) /\ (scr \o x)[j] = scr[j]
    BY ConcatProperties
  <2> QED BY <2>1, <2>2, <2>3
<1>2. CASE k \notin 1..Len(pr)
  <2>1. k - Len(pr) \in 1..Len(cs) /\ (pr \o cs)[k] = cs[k - Len(pr)]
    BY <1>2, Joined
  <2>2. n \in answered2
    BY <2>1
  <2> QED BY <2>1, <2>2
<1> QED BY <1>1, <1>2

-----------------------------------------------------------------------------
(* The steps of the hosts.                                                   *)

(* The invariant before a print. *)
LEMMA HostFacts ==
  ASSUME HostInv, result = NoResult
  PROVE  /\ calls \in Nat /\ failed \in BOOLEAN
         /\ StreamsAre(screen, buf, printed, calls, failed)
         /\ ShownOf(screen, printed, told) /\ calls \notin told
<1>1. calls \in Nat /\ failed \in BOOLEAN /\ told \in SUBSET (0..(calls - 1))
  BY HostAssumption DEF HostInv, HostTypes
<1>2. StreamsAre(screen, buf, printed, calls, failed)
  BY DEF HostInv, Streams, NextCall
<1>3. ShownOf(screen, printed, told)
  BY DEF HostInv, OkMeansShown, ShownOf
<1>4. calls \notin told
  BY <1>1
<1> QED BY <1>1, <1>2, <1>3, <1>4

(* What ends with a text shows it. *)
LEMMA EndShows ==
  ASSUME NEW C, NEW q \in Seq(C), NEW cs \in Seq(C)
  PROVE  AllIn(cs, q \o cs)
<1> SUFFICES ASSUME NEW i \in 1..Len(cs)
             PROVE  \E j \in 1..Len(q \o cs) : (q \o cs)[j] = cs[i]
  BY DEF AllIn
<1>1. Len(q) \in Nat /\ Len(cs) \in Nat /\ Len(q \o cs) = Len(q) + Len(cs)
      /\ \A k \in 1..Len(q) + Len(cs) :
           (q \o cs)[k] = IF k <= Len(q) THEN q[k] ELSE cs[k - Len(q)]
  BY ConcatProperties
<1>2. Len(q) + i \in 1..Len(q) + Len(cs) /\ ~(Len(q) + i <= Len(q)) /\ (Len(q) + i) - Len(q) = i
  BY <1>1
<1>3. (q \o cs)[Len(q) + i] = cs[i]
  BY <1>1, <1>2
<1> QED BY <1>1, <1>2, <1>3

LEMMA StdoutPrints ==
  ASSUME HostInv, result = NoResult, NEW text \in Seq(BOOLEAN),
         NEW cs, cs = Put("stdout", text, calls),
         NEW s, s \in Printouts(Held(calls + 1, Len(printed) + Len(text)), buf, cs),
         StdoutIs(s, cs)
  PROVE  Prints("stdout", text, s.ok)
<1>1. calls \in Nat /\ failed \in BOOLEAN /\ StreamsAre(screen, buf, printed, calls, failed)
  BY HostFacts
<1>2. /\ buf' = s.buf /\ screen' = screen \o s.sent
      /\ printed' = printed \o cs /\ failed' = (failed \/ ~s.ok)
  BY DEF StdoutIs
<1>a. s.ok \in BOOLEAN
  BY DEF Printouts, Outcomes
<1>b. failed' \in BOOLEAN /\ (~s.ok \/ failed => failed')
  BY <1>1, <1>2, <1>a
<1>c. s.sent \in Seq(Held(calls + 1, Len(printed) + Len(text)))
  BY DEF Printouts, Outcomes
<1>d. s.buf \in Seq(Held(calls + 1, Len(printed) + Len(text)))
  BY DEF Printouts, Outcomes
<1>e. s.ok => s.buf = <<>>
  BY DEF Printouts
<1>f. PICK m \in 0..Len(cs) : /\ s.sent \o s.buf = buf \o SubSeq(cs, 1, m)
                              /\ s.ok => m = Len(cs)
  BY DEF Printouts, KeepsStart
<1>g. ~failed' => ~failed /\ m = Len(cs) /\ s.buf = <<>>
  BY <1>b, <1>e, <1>f
<1>3. /\ StreamsAre(screen \o s.sent, s.buf, printed \o cs, calls + 1, failed')
      /\ s.sent \in Seq(Upto(calls + 1, Len(printed) + Len(text)))
      /\ m = Len(cs) /\ s.buf = <<>> => screen \o s.sent = (screen \o buf) \o cs
  <2> DEFINE x == s.sent
             b2 == s.buf
  <2>1. x \in Seq(HeldAfter(calls, printed, text))
    BY <1>c DEF HeldAfter
  <2>2. b2 \in Seq(HeldAfter(calls, printed, text))
    BY <1>d DEF HeldAfter
  <2>3. Kept(x, b2, buf, cs, m)
    BY <1>f DEF Kept
  <2>4. ~failed' => ~failed /\ m = Len(cs) /\ b2 = <<>>
    BY <1>g
  <2> HIDE DEF x, b2
  <2>5. /\ StreamsAre(screen \o x, b2, printed \o cs, calls + 1, failed')
        /\ x \in Seq(UptoAfter(calls, printed, text))
        /\ m = Len(cs) /\ b2 = <<>> => Emptied(screen, x, buf, cs)
    BY <1>1, <1>b, <2>1, <2>2, <2>3, <2>4, StdoutStreams
  <2> QED BY <2>5 DEF x, b2, UptoAfter, Emptied
<1>4. s.ok => AllIn(cs, screen')
  <2> SUFFICES ASSUME s.ok PROVE AllIn(cs, screen')
    OBVIOUS
  <2> DEFINE U == Upto(calls + 1, Len(printed) + Len(text))
  <2>1. /\ Len(text) \in Nat /\ calls + 1 \in Nat /\ calls <= calls + 1
        /\ "stdout" \in Printers
    BY <1>1 DEF Printers
  <2>2. screen \o buf \in Seq(U) /\ Len(printed) \in Nat
    BY <1>1, <2>1, StreamFacts
  <2>3. cs \in Seq(U) /\ Len(cs) = Len(text)
    BY <1>1, <2>1, <2>2, PutFacts
  <2> HIDE DEF U
  <2>4. AllIn(cs, (screen \o buf) \o cs)
    BY <2>2, <2>3, EndShows
  <2>5. screen' = (screen \o buf) \o cs
    BY <1>2, <1>3, <1>e, <1>f
  <2> QED BY <2>4, <2>5
<1> QED BY <1>2, <1>3, <1>4, <1>b DEF Prints

(* A print that shows the start of its text and holds nothing back. *)
LEMMA PlainPrints ==
  ASSUME HostInv, result = NoResult, NEW text \in Seq(BOOLEAN),
         NEW by \in Printers \ {"stdout"}, NEW cs, cs = Put(by, text, calls),
         NEW m \in 0..Len(cs), screen' = screen \o SubSeq(cs, 1, m), buf' = buf,
         printed' = printed \o cs, failed' = (failed \/ m # Len(cs))
  PROVE  Prints(by, text, m = Len(cs))
<1>1. calls \in Nat /\ failed \in BOOLEAN /\ StreamsAre(screen, buf, printed, calls, failed)
  BY HostFacts
<1>2. failed' \in BOOLEAN /\ (m # Len(cs) \/ failed => failed')
  BY <1>1
<1>3. /\ StreamsAre(screen \o SubSeq(cs, 1, m), buf, printed \o cs, calls + 1, failed')
      /\ SubSeq(cs, 1, m) \in Seq(Upto(calls + 1, Len(printed) + Len(text)))
  BY <1>1, <1>2, StderrStreams
<1>4. m = Len(cs) => AllIn(cs, screen')
  <2> SUFFICES ASSUME m = Len(cs) PROVE AllIn(cs, screen')
    OBVIOUS
  <2> DEFINE U == Upto(calls + 1, Len(printed) + Len(text))
  <2>1. /\ Len(text) \in Nat /\ calls + 1 \in Nat /\ calls <= calls + 1 /\ by \in Printers
    BY <1>1
  <2>2. screen \in Seq(U) /\ Len(printed) \in Nat
    BY <1>1, <2>1, StreamFacts
  <2>3. cs \in Seq(U) /\ Len(cs) = Len(text)
    BY <1>1, <2>1, <2>2, PutFacts
  <2> HIDE DEF U
  <2>4. AllIn(cs, screen \o cs)
    BY <2>2, <2>3, EndShows
  <2>5. SubSeq(cs, 1, m) = cs
    BY <2>3, SubSeqFull
  <2> QED BY <2>3, <2>4, <2>5
<1> QED BY <1>2, <1>3, <1>4 DEF Prints

LEMMA StderrPrints ==
  ASSUME HostInv, result = NoResult, NEW text \in Seq(BOOLEAN),
         NEW by \in Printers \ {"stdout"}, NEW cs, cs = Put(by, text, calls),
         NEW s \in RawWrite(Fresh, cs), StderrIs(s, cs)
  PROVE  Prints(by, text, s.ok)
<1>1. PICK m \in 0..Len(cs) : s = [buf  |-> buf,
                                   sent |-> <<>> \o SubSeq(cs, 1, m),
                                   ok   |-> m = Len(cs)]
  BY DEF RawWrite, Fresh
<1>2. calls \in Nat
  BY HostFacts
<1>3. cs \in Seq(Upto(calls + 1, 0 + Len(text)))
  <2>1. by \in Printers /\ 0 \in Nat
    OBVIOUS
  <2> QED BY <1>2, <2>1, PutFacts
<1>4. <<>> \o SubSeq(cs, 1, m) = SubSeq(cs, 1, m)
  BY <1>3, StartOf, ConcatEmptySeq
<1>5. /\ screen' = screen \o SubSeq(cs, 1, m) /\ buf' = buf /\ printed' = printed \o cs
      /\ failed' = (failed \/ m # Len(cs)) /\ s.ok = (m = Len(cs))
  BY <1>1, <1>4 DEF StderrIs
<1>6. Prints(by, text, m = Len(cs))
  BY <1>5, PlainPrints
<1> QED BY <1>5, <1>6

(* A last report on stderr and, if that goes well, what stdout holds back. *)
LEMMA ReportPrints ==
  ASSUME HostInv, result = NoResult, NEW text \in Seq(BOOLEAN),
         NEW by \in Printers \ {"stdout"}, NEW cs, cs = Put(by, text, calls),
         ReportAndExit(cs)
  PROVE  Prints(by, text, FALSE) /\ ended' \in {"exit", "abort"}
<1>1. PICK s \in RawWrite(Fresh, cs) :
        IF s.ok
          THEN \E s2 \in FlushBuf(s) : StdoutIs(s2, cs) /\ ended' = "exit"
          ELSE StderrIs(s, cs) /\ ended' = "abort"
  BY DEF ReportAndExit
<1>2. CASE ~s.ok
  <2>1. Prints(by, text, s.ok)
    BY <1>1, <1>2, StderrPrints
  <2> QED BY <1>1, <1>2, <2>1 DEF Prints
<1>3. CASE s.ok
  <2>1. PICK s2 \in FlushBuf(s) : StdoutIs(s2, cs) /\ ended' = "exit"
    BY <1>1, <1>3
  <2>2. PICK m \in 0..Len(cs) : s = [buf  |-> buf,
                                     sent |-> <<>> \o SubSeq(cs, 1, m),
                                     ok   |-> m = Len(cs)]
    BY DEF RawWrite, Fresh
  <2>3. calls \in Nat /\ failed \in BOOLEAN /\ StreamsAre(screen, buf, printed, calls, failed)
    BY HostFacts
  <2> DEFINE U == Upto(calls + 1, Len(printed) + Len(text))
             H == Held(calls + 1, Len(printed \o cs))
  <2>4. screen \in Seq(U) /\ printed \in Seq(U) /\ Len(printed) \in Nat
    <3>1. Len(text) \in Nat /\ calls + 1 \in Nat /\ calls <= calls + 1
      BY <2>3
    <3> QED BY <2>3, <3>1, StreamFacts
  <2>5. cs \in Seq(U) /\ Len(cs) = Len(text)
    <3>1. by \in Printers
      OBVIOUS
    <3> QED BY <2>3, <2>4, <3>1, PutFacts
  <2>6. m = Len(cs) /\ m \in 0..Len(cs) /\ SubSeq(cs, 1, m) = cs
    BY <1>3, <2>2, <2>5, SubSeqFull
  <2>7. s.buf = buf /\ s.sent = cs
    <3>1. <<>> \o cs = cs
      BY <2>5, ConcatEmptySeq
    <3> QED BY <2>2, <2>6, <3>1
  <2>8. StreamsAre(screen \o cs, buf, printed \o cs, calls + 1, failed)
    <3>1. StreamsAre(screen \o SubSeq(cs, 1, m), buf, printed \o cs, calls + 1, failed)
      BY <2>3, <2>6, StderrStreams
    <3> QED BY <2>6, <3>1
  <2>9. Len(printed \o cs) = Len(printed) + Len(text)
    BY <2>4, <2>5, ConcatProperties
  <2>10. H \subseteq U
    BY <2>9 DEF Held
  <2>11. buf \in Seq(H)
    BY <2>8 DEF StreamsAre
  <2> HIDE DEF U, H
  <2>12. s.buf \in Seq(H)
    BY <2>7, <2>11
  <2>13. /\ s2.buf \in Seq(H) /\ s2.ok \in BOOLEAN
         /\ s2.ok => s2.buf = <<>>
    BY <2>12, FlushMoves
  <2>14. PICK x \in Seq(H) : Halves(s.sent, x, s2.sent) /\ Halves(x, s2.buf, s.buf)
    BY <2>12, FlushMoves
  <2>15. Halves(x, s2.buf, buf) /\ s2.sent = cs \o x
    BY <2>7, <2>14 DEF Halves
  <2>16. /\ buf' = s2.buf /\ screen' = screen \o s2.sent
         /\ printed' = printed \o cs /\ failed' = (failed \/ ~s2.ok)
    BY <2>1 DEF StdoutIs
  <2>17. failed' \in BOOLEAN /\ (failed => failed') /\ (~failed' => s2.buf = <<>>)
    BY <2>3, <2>13, <2>16
  <2>18. calls + 1 \in Nat
    BY <2>3
  <2>19. StreamsAre((screen \o cs) \o x, s2.buf, printed \o cs, calls + 1, failed')
    BY <2>3, <2>8, <2>13, <2>15, <2>17, <2>18, FlushStreams DEF H
  <2>20. x \in Seq(U)
    BY <2>10, SeqMonotonic
  <2>21. cs \o x \in Seq(U)
    BY <2>5, <2>20, ConcatProperties
  <2>22. (screen \o cs) \o x = screen \o (cs \o x)
    <3>1. Regroup(U)
      BY Regroups
    <3>2. screen \in Seq(U)
      BY <2>4
    <3>3. cs \in Seq(U)
      BY <2>5
    <3> QED BY <2>20, <3>1, <3>2, <3>3 DEF Regroup
  <2>23. screen' = screen \o (cs \o x)
    BY <2>15, <2>16
  <2>24. StreamsAre(screen', buf', printed', calls + 1, failed')
    BY <2>16, <2>19, <2>22, <2>23
  <2> QED BY <2>1, <2>16, <2>17, <2>21, <2>23, <2>24 DEF Prints, U
<1> QED BY <1>2, <1>3

-----------------------------------------------------------------------------
(* Complaints of dbg and expect. *)
Complaints(q) == \E k \in 1..Len(q) : q[k].by \in {"dbg", "expect"}

LEMMA MoreComplaints ==
  ASSUME NEW C, NEW q \in Seq(C), NEW r \in Seq(C)
  PROVE  Complaints(q \o r) <=> Complaints(q) \/ Complaints(r)
<1>1. Len(q) \in Nat /\ Len(r) \in Nat /\ Len(q \o r) = Len(q) + Len(r)
      /\ \A k \in 1..Len(q) + Len(r) :
           (q \o r)[k] = IF k <= Len(q) THEN q[k] ELSE r[k - Len(q)]
  BY ConcatProperties
<1>2. ASSUME Complaints(q) PROVE Complaints(q \o r)
  <2>1. PICK k \in 1..Len(q) : q[k].by \in {"dbg", "expect"}
    BY <1>2 DEF Complaints
  <2>2. k \in 1..Len(q \o r) /\ (q \o r)[k] = q[k]
    BY <1>1
  <2> QED BY <2>1, <2>2 DEF Complaints
<1>3. ASSUME Complaints(r) PROVE Complaints(q \o r)
  <2>1. PICK k \in 1..Len(r) : r[k].by \in {"dbg", "expect"}
    BY <1>3 DEF Complaints
  <2>2. Len(q) + k \in 1..Len(q) + Len(r) /\ ~(Len(q) + k <= Len(q)) /\ (Len(q) + k) - Len(q) = k
    BY <1>1
  <2>3. Len(q) + k \in 1..Len(q \o r) /\ (q \o r)[Len(q) + k] = r[k]
    BY <1>1, <2>2
  <2> QED BY <2>1, <2>3 DEF Complaints
<1>4. ASSUME Complaints(q \o r) PROVE Complaints(q) \/ Complaints(r)
  <2>1. PICK k \in 1..Len(q \o r) : (q \o r)[k].by \in {"dbg", "expect"}
    BY <1>4 DEF Complaints
  <2>2. \/ k \in 1..Len(q) /\ (q \o r)[k] = q[k]
        \/ k - Len(q) \in 1..Len(r) /\ (q \o r)[k] = r[k - Len(q)]
    BY Joined
  <2> QED BY <2>1, <2>2 DEF Complaints
<1> QED BY <1>2, <1>3, <1>4

(* A print leaves the streams in order, the flag's account true, and what was
   answered Ok shown.                                                        *)
LEMMA PrintStep ==
  ASSUME HostInv, result = NoResult, NEW by \in Printers, NEW text \in Seq(BOOLEAN),
         NEW done \in BOOLEAN, Prints(by, text, done), NextCall' = calls + 1,
         told' \subseteq told \cup {calls}, calls \in told' => done,
         host' = host, flag' \in BOOLEAN,
         host = "live" => (flag' <=> flag \/ (Len(text) > 0 /\ by \in {"dbg", "expect"}))
  PROVE  Streams' /\ FlagAccounts' /\ OkMeansShown'
<1> DEFINE cs == Put(by, text, calls)
           U == Upto(calls + 1, Len(printed) + Len(text))
<1>1. /\ calls \in Nat /\ failed \in BOOLEAN
      /\ StreamsAre(screen, buf, printed, calls, failed)
      /\ ShownOf(screen, printed, told) /\ calls \notin told
  BY HostFacts
<1>2. calls + 1 \in Nat /\ calls <= calls + 1 /\ Len(text) \in Nat
  BY <1>1
<1>3. screen \in Seq(U) /\ printed \in Seq(U) /\ Len(printed) \in Nat
  BY <1>1, <1>2, StreamFacts
<1>4. cs \in Seq(U) /\ Len(cs) = Len(text)
      /\ \A k \in 1..Len(cs) : cs[k].by = by /\ cs[k].call = calls
  BY <1>1, <1>3, PutFacts
<1>5. \A i \in 1..Len(printed) : printed[i].call # calls
  <2>1. \A i \in 1..Len(printed) : printed[i].call \in Int /\ printed[i].call < calls
    BY <1>1, <1>2, StreamFacts
  <2> QED BY <1>1, <2>1
<1>6. PICK x \in Seq(U) : screen' = screen \o x
  BY DEF Prints
<1>7. printed' = printed \o cs /\ (done => AllIn(cs, screen'))
  BY DEF Prints
<1>8. Streams'
  BY DEF Prints, Streams
<1> HIDE DEF cs, U
<1>9. OkMeansShown'
  <2>1. ShownOf(screen \o x, printed \o cs, told')
    <3>1. calls \in told' =>
            \A i \in 1..Len(cs) : \E j \in 1..Len(screen \o x) : (screen \o x)[j] = cs[i]
      BY <1>6, <1>7 DEF AllIn
    <3>2. \A i \in 1..Len(cs) : cs[i].call = calls
      BY <1>4
    <3> QED BY <1>1, <1>3, <1>4, <1>5, <3>1, <3>2, ShownStep
  <2> QED BY <1>6, <1>7, <2>1 DEF OkMeansShown, ShownOf
<1>10. FlagAccounts'
  <2>1. Complaints(cs) <=> Len(text) > 0 /\ by \in {"dbg", "expect"}
    BY <1>2, <1>4 DEF Complaints
  <2>2. Complaints(printed \o cs) <=> Complaints(printed) \/ Complaints(cs)
    BY <1>3, <1>4, MoreComplaints
  <2>3. host = "live" => (flag <=> Complaints(printed))
    BY DEF HostInv, FlagAccounts, Complained, Complaints
  <2>4. host = "live" => (flag' <=> Complaints(printed'))
    BY <1>7, <2>1, <2>2, <2>3
  <2> QED BY <2>4 DEF FlagAccounts, Complained, Complaints
<1> QED BY <1>8, <1>9, <1>10

-----------------------------------------------------------------------------
(* One lemma per kind of step.                                               *)

LEMMA CharsArePut ==
  \A by, text : Chars(by, text) = Put(by, text, calls)
BY DEF Chars, Put

(* A text of the program, and the line writeln! makes of it. *)
LEMMA TextFacts ==
  ASSUME NEW t \in Texts
  PROVE  /\ t \in Seq(BOOLEAN)
         /\ t \o <<TRUE>> \in Seq(BOOLEAN)
         /\ Len(t \o <<TRUE>>) = Len(t) + 1 /\ Len(t \o <<TRUE>>) > 0
         /\ (t \o <<TRUE>>)[Len(t) + 1] = TRUE
<1>1. t \in Seq(BOOLEAN) /\ <<TRUE>> \in Seq(BOOLEAN)
  BY HostAssumption
<1>2. /\ t \o <<TRUE>> \in Seq(BOOLEAN)
      /\ Len(t \o <<TRUE>>) = Len(t) + 1
      /\ \A i \in 1..Len(t) + 1 :
           (t \o <<TRUE>>)[i] = IF i <= Len(t) THEN t[i] ELSE <<TRUE>>[i - Len(t)]
  BY <1>1, ConcatProperties
<1>3. Len(t) \in Nat /\ Len(t) + 1 \in 1..Len(t) + 1 /\ (Len(t) + 1) - Len(t) = 1
      /\ ~(Len(t) + 1 <= Len(t))
  BY <1>1
<1>4. (t \o <<TRUE>>)[Len(t) + 1] = <<TRUE>>[1]
  BY <1>2, <1>3
<1> QED BY <1>1, <1>2, <1>3, <1>4

(* What a print on stdout works with. *)
LEMMA StdoutFacts ==
  ASSUME HostInv, result = NoResult, NEW text \in Seq(BOOLEAN), NEW C,
         C = Held(calls + 1, Len(printed) + Len(text))
  PROVE  /\ buf \in Seq(C) /\ Put("stdout", text, calls) \in Seq(C)
         /\ Len(Put("stdout", text, calls)) = Len(text)
<1>1. calls \in Nat /\ StreamsAre(screen, buf, printed, calls, failed)
  BY HostFacts
<1>2. calls + 1 \in Nat /\ calls <= calls + 1 /\ Len(text) \in Nat /\ "stdout" \in Printers
  BY <1>1 DEF Printers
<1>3. buf \in Seq(C) /\ Len(printed) \in Nat
  BY <1>1, <1>2, StreamFacts
<1> QED BY <1>1, <1>2, <1>3, PutFacts

(* and_then(flush): after a print that kept everything, a whole print. *)
LEMMA FlushedShows ==
  ASSUME NEW C, NEW b \in Seq(C), NEW cs \in Seq(C), NEW R,
         \A r \in R : r \in Outcomes(C) /\ KeepsStart(r, b, cs),
         NEW s \in Flushed(R)
  PROVE  s \in Printouts(C, b, cs)
<1>1. PICK s1 \in R : s \in IF s1.ok THEN FlushBuf(s1) ELSE {s1}
  BY Zenon DEF Flushed
<1>2. s1 \in Outcomes(C) /\ KeepsStart(s1, b, cs)
  BY <1>1
<1>3. CASE ~s1.ok
  BY <1>1, <1>2, <1>3 DEF Printouts
<1>4. CASE s1.ok
  <2>1. s \in FlushBuf(s1)
    BY <1>1, <1>4
  <2>2. PICK m \in 0..Len(cs) : s1.sent \o s1.buf = b \o SubSeq(cs, 1, m) /\ m = Len(cs)
    BY <1>2, <1>4 DEF KeepsStart
  <2>3. s \in Outcomes(C) /\ s.sent \o s.buf = s1.sent \o s1.buf /\ (s.ok => s.buf = <<>>)
    BY <1>2, <2>1, FlushKeeps
  <2>4. KeepsStart(s, b, cs)
    BY <2>2, <2>3 DEF KeepsStart
  <2> QED BY <2>3, <2>4 DEF Printouts
<1> QED BY <1>3, <1>4

(* The four ways of printing on stdout. *)
LEMMA StdoutWays ==
  ASSUME HostInv, result = NoResult, NEW t \in Texts, NEW text, NEW cs,
         cs = Put("stdout", text, calls), NEW C,
         C = Held(calls + 1, Len(printed) + Len(text))
  PROVE  /\ text = t \o <<TRUE>> =>
              /\ Writeln(cs) \subseteq Printouts(C, buf, cs)
              /\ Flushed(Writeln(cs)) \subseteq Printouts(C, buf, cs)
         /\ text = t =>
              /\ Flushed(LineWrite(Fresh, cs)) \subseteq Printouts(C, buf, cs)
              /\ \A s1 \in LineWrite(Fresh, cs) : \A s2 \in FlushBuf(s1) :
                   [s2 EXCEPT !.ok = s1.ok /\ s2.ok] \in Printouts(C, buf, cs)
<1>1. t \in Seq(BOOLEAN) /\ t \o <<TRUE>> \in Seq(BOOLEAN)
  BY TextFacts
<1>2. CASE text = t \o <<TRUE>>
  <2>1. buf \in Seq(C) /\ cs \in Seq(C) /\ Len(cs) = Len(text)
    BY <1>1, <1>2, StdoutFacts
  <2>2. Len(text) = Len(t) + 1 /\ Len(text) > 0 /\ text[Len(t) + 1] = TRUE
    BY <1>2, TextFacts
  <2>3. cs # <<>> /\ Last(cs).nl
    <3>1. Len(text) \in 1..Len(text) /\ cs[Len(text)].nl = text[Len(text)]
      <4>1. text \in Seq(BOOLEAN) /\ Len(text) \in 1..Len(text)
        BY <1>1, <1>2, <2>2
      <4> HIDE <1>2
      <4>2. \A k \in 1..Len(text) : cs[k].nl = text[k]
        BY DEF Put
      <4> QED BY <4>1, <4>2
    <3>2. Last(cs).nl = TRUE
      BY <2>1, <2>2, <3>1 DEF Last
    <3> QED BY <2>1, <2>2, <3>2
  <2>4. Writeln(cs) \subseteq Printouts(C, buf, cs)
    BY <2>1, <2>3, WritelnShows
  <2>5. \A r \in Writeln(cs) : r \in Outcomes(C) /\ KeepsStart(r, buf, cs)
    BY <2>4 DEF Printouts
  <2>6. Flushed(Writeln(cs)) \subseteq Printouts(C, buf, cs)
    BY <2>1, <2>5, FlushedShows
  <2>7. text # t
    BY <1>1, <2>2
  <2> QED BY <1>2, <2>4, <2>6, <2>7
<1>3. CASE text = t
  <2>1. buf \in Seq(C) /\ cs \in Seq(C) /\ Len(cs) = Len(text)
    BY <1>1, <1>3, StdoutFacts
  <2>2. \A r \in LineWrite(Fresh, cs) : r \in Outcomes(C) /\ KeepsStart(r, buf, cs)
    <3> TAKE r \in LineWrite(Fresh, cs)
    <3>1. Fresh \in Outcomes(C) /\ Fresh.ok /\ Fresh.sent \o Fresh.buf = buf
      BY <2>1, FreshStart
    <3>2. r \in Outcomes(C) /\ KeepsStart(r, Fresh.sent \o Fresh.buf, cs)
      BY <2>1, <3>1, LineWriteKeeps
    <3> QED BY <3>1, <3>2
  <2>3. Flushed(LineWrite(Fresh, cs)) \subseteq Printouts(C, buf, cs)
    BY <2>1, <2>2, FlushedShows
  <2>4. ASSUME NEW s1 \in LineWrite(Fresh, cs), NEW s2 \in FlushBuf(s1)
        PROVE  [s2 EXCEPT !.ok = s1.ok /\ s2.ok] \in Printouts(C, buf, cs)
    <3>1. s1 \in Outcomes(C) /\ KeepsStart(s1, buf, cs)
      BY <2>2
    <3>2. PICK m \in 0..Len(cs) : /\ s1.sent \o s1.buf = buf \o SubSeq(cs, 1, m)
                                  /\ s1.ok => m = Len(cs)
      BY <3>1 DEF KeepsStart
    <3>3. s2 \in Outcomes(C) /\ s1.ok \in BOOLEAN
      BY <3>1, FlushKeeps DEF Outcomes
    <3> DEFINE ok == s1.ok /\ s2.ok
    <3>4. ok \in BOOLEAN /\ (ok => s2.ok /\ m = Len(cs))
      BY <3>2, <3>3 DEF Outcomes
    <3> HIDE DEF ok
    <3>5. [s2 EXCEPT !.ok = ok] \in Printouts(C, buf, cs)
      BY <2>1, <3>1, <3>2, <3>4, FlushShows
    <3> QED BY <3>5 DEF ok
  <2>5. text # t \o <<TRUE>>
    BY <1>1, <1>3, TextFacts
  <2> QED BY <1>3, <2>3, <2>4, <2>5
<1> QED BY <1>2, <1>3

(* Whoever prints, the invariant holds again after the call. *)
LEMMA PrintAndReturn ==
  ASSUME HostInv, Running, NEW by \in Printers, NEW text \in Seq(BOOLEAN),
         NEW done \in BOOLEAN, Prints(by, text, done), calls' = calls + 1,
         UNCHANGED <<args, argv, result, host>>, ended' \in {"no", "exit", "abort"},
         raw' \in BOOLEAN, flag' \in BOOLEAN,
         told' \subseteq told \cup {calls}, calls \in told' => done,
         host = "live" => (flag' <=> flag \/ (Len(text) > 0 /\ by \in {"dbg", "expect"}))
  PROVE  HostInv'
<1>1. calls \in Nat /\ calls < MaxCalls /\ result = NoResult /\ MaxCalls \in Nat
  BY HostFacts, HostAssumption DEF Running
<1>2. NextCall' = calls + 1
  BY <1>1 DEF NextCall
<1>3. Streams' /\ FlagAccounts' /\ OkMeansShown'
  BY <1>1, <1>2, PrintStep
<1>4. HostTypes'
  <2>1. told \in SUBSET (0..(calls - 1)) /\ host \in Hosts
    BY DEF HostInv, HostTypes
  <2>2. told' \in SUBSET (0..(calls' - 1)) /\ calls' \in 0..MaxCalls
    BY <1>1, <2>1
  <2>3. failed' \in BOOLEAN /\ result' \in Results \cup {NoResult}
    BY <1>1 DEF Prints
  <2> QED BY <2>1, <2>2, <2>3 DEF HostTypes
<1>5. ArgsAreGiven'
  BY DEF HostInv, ArgsAreGiven
<1> QED BY <1>3, <1>4, <1>5 DEF HostInv

(* A call, or the result, that leaves the streams alone. *)
LEMMA QuietStep ==
  ASSUME HostInv, result = NoResult,
         UNCHANGED <<args, argv, host, flag, buf, screen, printed, failed, told>>,
         NextCall' \in {calls, calls + 1}, calls' \in {calls, calls + 1} \cap 0..MaxCalls,
         result' \in Results \cup {NoResult}, raw' \in BOOLEAN,
         ended' \in {"no", "exit", "abort"}
  PROVE  HostInv'
<1>1. calls \in Nat /\ StreamsAre(screen, buf, printed, calls, failed)
  BY HostFacts
<1>2. Streams'
  <2>1. StreamsAre(screen, buf, printed, calls + 1, failed)
    BY <1>1, QuietStreams
  <2>2. CASE NextCall' = calls
    BY <1>1, <2>2 DEF Streams
  <2>3. CASE NextCall' = calls + 1
    BY <2>1, <2>3 DEF Streams
  <2> QED BY <2>2, <2>3
<1>3. HostTypes'
  <2>1. told \in SUBSET (0..(calls - 1)) /\ host \in Hosts /\ flag \in BOOLEAN /\ failed \in BOOLEAN
    BY DEF HostInv, HostTypes
  <2>2. 0..(calls - 1) \subseteq 0..(calls' - 1)
    <3>1. CASE calls' = calls
      BY <3>1
    <3>2. CASE calls' = calls + 1
      BY <1>1, <3>2
    <3> QED BY <3>1, <3>2
  <2>3. told' \in SUBSET (0..(calls' - 1))
    BY <2>1, <2>2
  <2> QED BY <2>1, <2>3 DEF HostTypes
<1>4. ArgsAreGiven' /\ FlagAccounts' /\ OkMeansShown'
  BY DEF HostInv, ArgsAreGiven, FlagAccounts, Complained, OkMeansShown
<1> QED BY <1>2, <1>3, <1>4 DEF HostInv

(* Prints on stdout, on either host; `ok` answers on the hosts of crates/. *)
LEMMA StdoutStep ==
  ASSUME HostInv, Running, NEW text \in Seq(BOOLEAN),
         NEW cs, cs = Put("stdout", text, calls), NEW s,
         s \in Printouts(Held(calls + 1, Len(printed) + Len(text)), buf, cs),
         StdoutIs(s, cs), Returned, UNCHANGED <<flag, raw, host>>,
         told' \subseteq told \cup {calls}, calls \in told' => s.ok
  PROVE  HostInv'
<1>1. result = NoResult /\ ended = "no"
  BY DEF Running
<1>2. Prints("stdout", text, s.ok) /\ s.ok \in BOOLEAN
  BY <1>1, StdoutPrints DEF Printouts, Outcomes
<1>3. /\ calls' = calls + 1 /\ UNCHANGED <<args, argv, result, host>>
      /\ ended' \in {"no", "exit", "abort"}
  BY <1>1 DEF Returned
<1>4. flag' \in BOOLEAN /\ raw' \in BOOLEAN
  BY DEF HostInv, HostTypes
<1>5. "stdout" \in Printers /\ (flag' <=> flag \/ (Len(text) > 0 /\ "stdout" \in {"dbg", "expect"}))
  BY <1>4 DEF Printers
<1> QED BY <1>2, <1>3, <1>4, <1>5, PrintAndReturn

(* Prints past the LineWriter. *)
LEMMA StderrStep ==
  ASSUME HostInv, Running, NEW text \in Seq(BOOLEAN), NEW by \in Printers \ {"stdout"},
         NEW cs, cs = Put(by, text, calls), NEW s \in RawWrite(Fresh, cs), StderrIs(s, cs),
         calls' = calls + 1, UNCHANGED <<args, argv, result, host, raw>>,
         ended' \in {"no", "exit", "abort"}, flag' \in BOOLEAN,
         told' \subseteq told \cup {calls}, calls \in told' => s.ok,
         host = "live" => (flag' <=> flag \/ (Len(text) > 0 /\ by \in {"dbg", "expect"}))
  PROVE  HostInv'
<1>1. result = NoResult
  BY DEF Running
<1>2. Prints(by, text, s.ok)
  BY <1>1, StderrPrints
<1>3. s.ok \in BOOLEAN
  <2>1. PICK m \in 0..Len(cs) : s = [buf  |-> buf,
                                     sent |-> <<>> \o SubSeq(cs, 1, m),
                                     ok   |-> m = Len(cs)]
    BY DEF RawWrite, Fresh
  <2>2. s.ok = (m = Len(cs))
    BY <2>1
  <2> QED BY <2>2
<1>4. raw' \in BOOLEAN /\ by \in Printers
  BY DEF HostInv, HostTypes
<1> QED BY <1>2, <1>3, <1>4, PrintAndReturn

(* A child prints all of its text, past the LineWriter. *)
LEMMA ChildStep ==
  ASSUME HostInv, NEW t \in Texts, ChildPrints(t), UNCHANGED <<host, told, raw>>
  PROVE  HostInv'
<1> DEFINE cs == Put("child", t, calls)
<1>1. Running /\ Returned /\ UNCHANGED <<flag, buf, failed>> /\ result = NoResult
      /\ ended = "no" /\ screen' = screen \o cs /\ printed' = printed \o cs
  BY CharsArePut DEF ChildPrints, Running
<1>2. t \in Seq(BOOLEAN) /\ calls \in Nat /\ failed \in BOOLEAN /\ calls \notin told
  BY <1>1, TextFacts, HostFacts
<1>3. "child" \in Printers \ {"stdout"} /\ "child" \in Printers
  BY DEF Printers
<1>4. cs \in Seq(Upto(calls + 1, 0 + Len(t))) /\ 0 \in Nat
  BY <1>2, <1>3, PutFacts
<1>5. Len(cs) \in 0..Len(cs) /\ SubSeq(cs, 1, Len(cs)) = cs
  BY <1>4, SubSeqFull
<1> HIDE DEF cs
<1>6. Prints("child", t, Len(cs) = Len(cs))
  BY <1>1, <1>2, <1>3, <1>5, PlainPrints DEF cs
<1>7. Prints("child", t, TRUE)
  BY <1>6 DEF Prints
<1>8. /\ calls' = calls + 1 /\ UNCHANGED <<args, argv, result, host>>
      /\ ended' \in {"no", "exit", "abort"}
  BY <1>1 DEF Returned
<1>9. flag' \in BOOLEAN /\ raw' \in BOOLEAN
      /\ (flag' <=> flag \/ (Len(t) > 0 /\ "child" \in {"dbg", "expect"}))
  BY <1>1 DEF HostInv, HostTypes
<1>10. told' \subseteq told \cup {calls} /\ (calls \in told' => TRUE) /\ TRUE \in BOOLEAN
  OBVIOUS
<1> QED BY <1>1, <1>2, <1>3, <1>7, <1>8, <1>9, <1>10, PrintAndReturn

LEMMA EprintlnStep ==
  ASSUME HostInv, Running, NEW t \in Texts, NEW by \in Printers \ {"stdout"},
         Eprintln(by, t, "no"), calls' = calls + 1,
         UNCHANGED <<args, argv, result, host, raw, told>>, flag' \in BOOLEAN,
         host = "live" => (flag' <=> flag \/ by \in {"dbg", "expect"})
  PROVE  HostInv'
<1> DEFINE text == t \o <<TRUE>>
           cs == Put(by, text, calls)
<1>1. text \in Seq(BOOLEAN) /\ Len(text) > 0
  BY TextFacts
<1>2. PICK s \in RawWrite(Fresh, cs) :
        StderrIs(s, cs) /\ ended' = IF s.ok THEN "no" ELSE "abort"
  BY CharsArePut DEF Eprintln
<1>3. told' \subseteq told \cup {calls} /\ calls \notin told'
  BY HostFacts DEF Running
<1>4. ended' \in {"no", "exit", "abort"}
  BY <1>2
<1>5. host = "live" => (flag' <=> flag \/ (Len(text) > 0 /\ by \in {"dbg", "expect"}))
  BY <1>1
<1> HIDE DEF text
<1> QED BY <1>1, <1>2, <1>3, <1>4, <1>5, StderrStep

LEMMA ReportStep ==
  ASSUME HostInv, Running, NEW t \in Texts, NEW by \in Printers \ {"stdout"},
         ReportAndExit(Chars(by, t \o <<TRUE>>)), calls' = calls + 1,
         UNCHANGED <<args, argv, flag, result, host, told>>, raw' \in BOOLEAN,
         host = "live" => by \notin {"dbg", "expect"}
  PROVE  HostInv'
<1> DEFINE text == t \o <<TRUE>>
           cs == Put(by, text, calls)
<1>1. text \in Seq(BOOLEAN)
  BY TextFacts
<1>2. ReportAndExit(cs) /\ result = NoResult
  BY CharsArePut DEF Running
<1>3. Prints(by, text, FALSE) /\ ended' \in {"exit", "abort"}
  BY <1>1, <1>2, ReportPrints
<1>4. told' \subseteq told \cup {calls} /\ (calls \in told' => FALSE)
  BY <1>2, HostFacts
<1>5. flag' \in BOOLEAN /\ (host = "live" => (flag' <=> flag \/ (Len(text) > 0 /\ by \in {"dbg", "expect"})))
  BY DEF HostInv, HostTypes
<1>6. by \in Printers /\ FALSE \in BOOLEAN /\ ended' \in {"no", "exit", "abort"}
  BY <1>3
<1> HIDE DEF text
<1> QED BY <1>1, <1>3, <1>4, <1>5, <1>6, PrintAndReturn

-----------------------------------------------------------------------------
(* The start.                                                                *)

(* build_args_list stops before the first null entry and converts the rest. *)
LEMMA ArgsAreText ==
  ASSUME NEW v \in Argvs
  PROVE  \A k \in DOMAIN BuildArgsList(v) : BuildArgsList(v)[k] \notin {NULL, BadUtf8}
<1> DEFINE nulls == {k \in 1..Len(v) : v[k] = NULL}
           n == IF nulls = {} THEN Len(v) ELSE Min(nulls) - 1
<1>1. Len(v) \in Nat
  BY HostAssumption
<1>2. n \in Int /\ \A k \in 1..n : v[k] # NULL
  <2>1. CASE nulls = {}
    BY <1>1, <2>1
  <2>2. CASE nulls # {}
    <3>1. \E m \in nulls : \A j \in nulls : m <= j
      <4>1. nulls \in SUBSET Nat
        BY <1>1
      <4> HIDE DEF nulls
      <4> QED BY <2>2, <4>1, Least
    <3>2. Min(nulls) \in nulls /\ \A j \in nulls : Min(nulls) <= j
      BY <3>1 DEF Min
    <3>3. \A k \in 1..(Min(nulls) - 1) : k \notin nulls /\ k \in 1..Len(v)
      BY <1>1, <3>2
    <3> QED BY <1>1, <2>2, <3>2, <3>3
  <2> QED BY <2>1, <2>2
<1>3. BuildArgsList(v) = [k \in 1..n |-> Lossy(v[k])]
  BY DEF BuildArgsList
<1> HIDE DEF n
<1>4. \A k \in 1..n : Lossy(v[k]) \notin {NULL, BadUtf8}
  BY <1>2 DEF Lossy, NULL, BadUtf8, Replaced
<1> QED BY <1>3, <1>4

LEMMA HostStart == HostsInit => HostInv
<1> SUFFICES ASSUME HostsInit PROVE HostInv
  OBVIOUS
<1>1. RunInit /\ host \in Hosts /\ told = {} /\ raw = FALSE
  BY DEF HostsInit, Init, LegacyInit
<1>2. HostTypes
  <2>1. flag = FALSE /\ failed = FALSE /\ calls = 0 /\ result = NoResult /\ ended = "no"
    BY <1>1 DEF RunInit
  <2>2. calls \in 0..MaxCalls /\ told \in SUBSET (0..(calls - 1))
    BY <1>1, <2>1, HostAssumption
  <2> QED BY <1>1, <2>1, <2>2 DEF HostTypes
<1>3. ArgsAreGiven
  <2>1. CASE host = "live"
    BY <1>1, <2>1, ArgsAreText DEF HostsInit, Init, ArgsAreGiven, RunInit
  <2>2. CASE host # "live"
    BY <2>2 DEF HostsInit, LegacyInit, ArgsAreGiven
  <2> QED BY <2>1, <2>2
<1>4. Streams
  <2>1. buf = <<>> /\ screen = <<>> /\ printed = <<>>
    BY <1>1 DEF RunInit
  <2>2. \A C : <<>> \in Seq(C)
    BY EmptySeq
  <2>3. InOrder(<<>> \o <<>>)
    <3>1. <<>> \o <<>> = <<>>
      BY <2>2, ConcatEmptySeq
    <3>2. 1..Len(<<>>) = {}
      BY <2>2, EmptySeq
    <3> QED BY <3>1, <3>2 DEF InOrder
  <2>4. StreamsAre(<<>>, <<>>, <<>>, NextCall, failed)
    BY <2>2, <2>3 DEF StreamsAre
  <2> QED BY <2>1, <2>4 DEF Streams
<1>5. Len(printed) = 0
  BY <1>1 DEF RunInit
<1>6. FlagAccounts /\ OkMeansShown
  BY <1>1, <1>5 DEF FlagAccounts, Complained, OkMeansShown, RunInit
<1> QED BY <1>2, <1>3, <1>4, <1>6 DEF HostInv

-----------------------------------------------------------------------------
(* The steps of the live host.                                               *)

LEMMA LivePrints ==
  ASSUME HostInv, host = "live", NEW t \in Texts, UNCHANGED <<host, told, raw>>,
         \/ hosted_stdout_line(t) \/ hosted_stdout_write(t)
         \/ hosted_stderr_line(t) \/ hosted_stderr_write(t)
         \/ ChildPrints(t)
  PROVE  HostInv'
<1> DEFINE C(text) == Held(calls + 1, Len(printed) + Len(text))
<1>1. Running /\ Returned /\ UNCHANGED flag /\ result = NoResult /\ ended = "no"
      /\ calls \notin told
  BY HostFacts DEF hosted_stdout_line, hosted_stdout_write, hosted_stderr_line,
       hosted_stderr_write, ChildPrints, Running
<1>2. t \in Seq(BOOLEAN) /\ t \o <<TRUE>> \in Seq(BOOLEAN)
  BY TextFacts
<1>3. told' \subseteq told \cup {calls} /\ calls \notin told' /\ flag' \in BOOLEAN
  BY <1>1 DEF HostInv, HostTypes
<1>4. /\ calls' = calls + 1 /\ UNCHANGED <<args, argv, result, host, raw>>
      /\ ended' \in {"no", "exit", "abort"}
  BY <1>1 DEF Returned
<1>5. ASSUME NEW by \in {"stderr", "child"} PROVE by \in Printers \ {"stdout"} /\ by \notin {"dbg", "expect"}
  BY DEF Printers
<1>6. CASE hosted_stdout_line(t)
  <2> DEFINE cs == Put("stdout", t \o <<TRUE>>, calls)
  <2>1. PICK s \in Writeln(cs) : StdoutIs(s, cs)
    BY <1>6, CharsArePut DEF hosted_stdout_line
  <2>2. s \in Printouts(C(t \o <<TRUE>>), buf, cs)
    BY <1>1, StdoutWays
  <2> QED BY <1>1, <1>2, <1>3, <2>1, <2>2, StdoutStep
<1>7. CASE hosted_stdout_write(t)
  <2> DEFINE cs == Put("stdout", t, calls)
  <2>1. PICK s1 \in LineWrite(Fresh, cs) : \E s2 \in FlushBuf(s1) :
          StdoutIs([s2 EXCEPT !.ok = s1.ok /\ s2.ok], cs)
    BY <1>7, CharsArePut DEF hosted_stdout_write
  <2>2. PICK s2 \in FlushBuf(s1) : StdoutIs([s2 EXCEPT !.ok = s1.ok /\ s2.ok], cs)
    BY <2>1
  <2>3. [s2 EXCEPT !.ok = s1.ok /\ s2.ok] \in Printouts(C(t), buf, cs)
    BY <1>1, StdoutWays
  <2> DEFINE s == [s2 EXCEPT !.ok = s1.ok /\ s2.ok]
  <2>4. s \in Printouts(C(t), buf, cs) /\ StdoutIs(s, cs)
    BY <2>2, <2>3
  <2> HIDE DEF s
  <2> QED BY <1>1, <1>2, <1>3, <2>4, StdoutStep
<1>8. CASE hosted_stderr_line(t)
  <2> DEFINE cs == Put("stderr", t \o <<TRUE>>, calls)
  <2>1. PICK s \in RawWrite(Fresh, cs) : StderrIs(s, cs)
    BY <1>8, CharsArePut DEF hosted_stderr_line
  <2> QED BY <1>1, <1>2, <1>3, <1>4, <1>5, <2>1, StderrStep
<1>9. CASE hosted_stderr_write(t)
  <2> DEFINE cs == Put("stderr", t, calls)
  <2>1. PICK s \in RawWrite(Fresh, cs) : StderrIs(s, cs)
    BY <1>9, CharsArePut DEF hosted_stderr_write
  <2> QED BY <1>1, <1>2, <1>3, <1>4, <1>5, <2>1, StderrStep
<1>10. CASE ChildPrints(t)
  BY <1>10, ChildStep
<1> QED BY <1>6, <1>7, <1>8, <1>9, <1>10

(* Main's result, reported on stderr first if it is no exit code. *)
LEMMA ResultStep ==
  ASSUME HostInv, NEW r \in Results, MainReturns(r), UNCHANGED <<host, told, raw>>
  PROVE  HostInv'
<1>1. /\ ended = "no" /\ result = NoResult /\ result' = r
      /\ UNCHANGED <<args, argv, flag, calls, ended>>
  BY DEF MainReturns
<1>2. r # NoResult /\ result' \in Results \cup {NoResult}
  BY <1>1 DEF Results, NoResult
<1>3. NextCall' = calls + 1
  BY <1>1, <1>2 DEF NextCall
<1>4. calls \in 0..MaxCalls /\ raw' \in BOOLEAN
  BY DEF HostInv, HostTypes
<1>5. CASE r.kind # "other"
  <2>1. UNCHANGED <<buf, screen, printed, failed>>
    BY <1>5 DEF MainReturns
  <2>2. /\ NextCall' \in {calls, calls + 1}
        /\ calls' \in {calls, calls + 1} \cap 0..MaxCalls
        /\ ended' \in {"no", "exit", "abort"}
    BY <1>1, <1>3, <1>4
  <2> QED BY <1>1, <1>2, <1>4, <2>1, <2>2, QuietStep
<1>6. CASE r.kind = "other"
  <2> DEFINE text == <<FALSE, TRUE>>
             cs == Put("stderr", text, calls)
  <2>1. text \in Seq(BOOLEAN)
    OBVIOUS
  <2> HIDE DEF text
  <2>2. PICK s \in RawWrite(Fresh, cs) : StderrIs(s, cs)
    BY <1>6, CharsArePut DEF MainReturns, text
  <2>3. "stderr" \in Printers \ {"stdout"} /\ "stderr" \in Printers /\ FALSE \in BOOLEAN
    BY DEF Printers
  <2>4. Prints("stderr", text, s.ok)
    BY <1>1, <2>1, <2>2, <2>3, StderrPrints
  <2>5. Prints("stderr", text, FALSE)
    BY <2>4 DEF Prints
  <2>6. told' \subseteq told \cup {calls} /\ (calls \in told' => FALSE)
    BY <1>1, HostFacts
  <2>7. flag' \in BOOLEAN
        /\ (host = "live" => (flag' <=> flag \/ (Len(text) > 0 /\ "stderr" \in {"dbg", "expect"})))
    BY <1>1 DEF HostInv, HostTypes
  <2>8. Streams' /\ FlagAccounts' /\ OkMeansShown'
    BY <1>1, <1>3, <2>1, <2>3, <2>5, <2>6, <2>7, PrintStep
  <2>9. HostTypes'
    <3>1. failed' \in BOOLEAN
      BY <2>5 DEF Prints
    <3> QED BY <1>1, <1>2, <3>1 DEF HostInv, HostTypes
  <2>10. ArgsAreGiven'
    BY <1>1 DEF HostInv, ArgsAreGiven
  <2> QED BY <2>8, <2>9, <2>10 DEF HostInv
<1> QED BY <1>5, <1>6

(* A clock before 1970 aborts. *)
LEMMA ClockStep ==
  ASSUME HostInv, NEW b, hosted_utc_now(b), UNCHANGED <<host, told, raw>>
  PROVE  HostInv'
<1>1. /\ result = NoResult /\ calls < MaxCalls /\ calls' = calls + 1
      /\ UNCHANGED <<args, argv, flag, buf, screen, printed, failed, result>>
      /\ ended' \in {"no", "exit", "abort"}
  BY DEF hosted_utc_now, Running
<1>2. NextCall' \in {calls, calls + 1}
  BY <1>1 DEF NextCall
<1>3. calls' \in {calls, calls + 1} \cap 0..MaxCalls /\ raw' \in BOOLEAN
      /\ result' \in Results \cup {NoResult}
  BY <1>1, HostAssumption DEF HostInv, HostTypes
<1> QED BY <1>1, <1>2, <1>3, QuietStep

(* The process returns from main without touching the streams. *)
LEMMA ReturnStep ==
  ASSUME HostInv, result # NoResult, ended' = "return",
         UNCHANGED <<args, argv, flag, buf, screen, printed, failed, calls, result,
                     host, told, raw>>
  PROVE  HostInv'
BY DEF HostInv, HostTypes, ArgsAreGiven, Streams, NextCall, FlagAccounts, Complained,
       OkMeansShown

LEMMA LiveStep ==
  ASSUME HostInv, host = "live", Next, UNCHANGED <<host, told, raw>>
  PROVE  HostInv'
<1>a. /\ {"dbg", "expect"} \subseteq Printers \ {"stdout"} /\ raw' \in BOOLEAN
      /\ "crash" \in Printers \ {"stdout"}
  BY DEF Printers, HostInv, HostTypes
<1>1. ASSUME NEW t \in Texts,
             \/ hosted_stdout_line(t) \/ hosted_stdout_write(t)
             \/ hosted_stderr_line(t) \/ hosted_stderr_write(t)
             \/ ChildPrints(t)
      PROVE  HostInv'
  BY <1>1, LivePrints
<1>2. ASSUME NEW t \in Texts, roc_dbg_fn(t) PROVE HostInv'
  <2>1. /\ Running /\ Eprintln("dbg", t, "no") /\ calls' = calls + 1
        /\ UNCHANGED <<args, argv, result>> /\ flag' = TRUE
    BY <1>2 DEF roc_dbg_fn
  <2>2. flag' \in BOOLEAN /\ (flag' <=> flag \/ "dbg" \in {"dbg", "expect"})
        /\ "dbg" \in Printers \ {"stdout"}
    BY <1>a, <2>1
  <2> QED BY <2>1, <2>2, EprintlnStep
<1>3. ASSUME NEW t \in Texts, roc_expect_failed_fn(t) PROVE HostInv'
  <2>1. /\ Running /\ Eprintln("expect", t, "no") /\ calls' = calls + 1
        /\ UNCHANGED <<args, argv, result>> /\ flag' = TRUE
    BY <1>3 DEF roc_expect_failed_fn
  <2>2. flag' \in BOOLEAN /\ (flag' <=> flag \/ "expect" \in {"dbg", "expect"})
        /\ "expect" \in Printers \ {"stdout"}
    BY <1>a, <2>1
  <2> QED BY <2>1, <2>2, EprintlnStep
<1>4. ASSUME NEW t \in Texts, roc_crashed_fn(t) PROVE HostInv'
  <2>1. /\ Running /\ ReportAndExit(Chars("crash", t \o <<TRUE>>)) /\ calls' = calls + 1
        /\ UNCHANGED <<args, argv, flag, result>>
    BY <1>4 DEF roc_crashed_fn
  <2> QED BY <1>a, <2>1, ReportStep
<1>5. ASSUME NEW b \in BOOLEAN, hosted_utc_now(b) PROVE HostInv'
  BY <1>5, ClockStep
<1>6. ASSUME NEW r \in Results, MainReturns(r) PROVE HostInv'
  BY <1>6, ResultStep
<1>7. CASE RustMainReturns
  BY <1>7, ReturnStep DEF RustMainReturns
<1> QED BY <1>1, <1>2, <1>3, <1>4, <1>5, <1>6, <1>7 DEF Next

-----------------------------------------------------------------------------
(* The steps of the hosts in crates/.                                        *)

LEMMA LegacyPrints ==
  ASSUME HostInv, UNCHANGED host, NEW t \in Texts,
         \/ stdout_line(t) \/ stdout_write(t) \/ stderr_line(t) \/ stderr_write(t)
  PROVE  HostInv'
<1> DEFINE C(text) == Held(calls + 1, Len(printed) + Len(text))
<1>1. Running /\ result = NoResult /\ ended = "no" /\ calls \notin told
  BY HostFacts DEF stdout_line, stdout_write, stderr_line, stderr_write, Running
<1>2. t \in Seq(BOOLEAN) /\ t \o <<TRUE>> \in Seq(BOOLEAN)
  BY TextFacts
<1>3. ASSUME NEW s, Answered(s.ok)
      PROVE  /\ Returned /\ UNCHANGED <<flag, raw>> /\ calls' = calls + 1
             /\ UNCHANGED <<args, argv, result, host, raw>>
             /\ ended' \in {"no", "exit", "abort"} /\ flag' = flag /\ flag' \in BOOLEAN
             /\ told' \subseteq told \cup {calls} /\ (calls \in told' => s.ok)
  BY <1>1, <1>3 DEF Answered, Returned, HostInv, HostTypes
<1>4. "stderr" \in Printers \ {"stdout"} /\ "stderr" \notin {"dbg", "expect"}
  BY DEF Printers
<1>5. CASE stdout_line(t)
  <2> DEFINE cs == Put("stdout", t \o <<TRUE>>, calls)
  <2>1. PICK s \in Flushed(Writeln(cs)) : StdoutIs(s, cs) /\ Answered(s.ok)
    BY <1>5, CharsArePut DEF stdout_line
  <2>2. s \in Printouts(C(t \o <<TRUE>>), buf, cs)
    BY <1>1, StdoutWays
  <2>3. /\ Returned /\ UNCHANGED <<flag, raw>>
        /\ told' \subseteq told \cup {calls} /\ (calls \in told' => s.ok)
    BY <1>3, <2>1
  <2> QED BY <1>1, <1>2, <2>1, <2>2, <2>3, StdoutStep
<1>6. CASE stdout_write(t)
  <2> DEFINE cs == Put("stdout", t, calls)
  <2>1. PICK s \in Flushed(LineWrite(Fresh, cs)) : StdoutIs(s, cs) /\ Answered(s.ok)
    BY <1>6, CharsArePut DEF stdout_write
  <2>2. s \in Printouts(C(t), buf, cs)
    BY <1>1, StdoutWays
  <2>3. /\ Returned /\ UNCHANGED <<flag, raw>>
        /\ told' \subseteq told \cup {calls} /\ (calls \in told' => s.ok)
    BY <1>3, <2>1
  <2> QED BY <1>1, <1>2, <2>1, <2>2, <2>3, StdoutStep
<1>7. CASE stderr_line(t)
  <2> DEFINE cs == Put("stderr", t \o <<TRUE>>, calls)
  <2>1. PICK s \in RawWrite(Fresh, cs) : StderrIs(s, cs) /\ Answered(s.ok)
    BY <1>7, CharsArePut DEF stderr_line
  <2>2. /\ calls' = calls + 1 /\ UNCHANGED <<args, argv, result, host, raw>>
        /\ ended' \in {"no", "exit", "abort"} /\ flag' = flag /\ flag' \in BOOLEAN
        /\ told' \subseteq told \cup {calls} /\ (calls \in told' => s.ok)
    BY <1>3, <2>1
  <2> QED BY <1>1, <1>2, <1>4, <2>1, <2>2, StderrStep
<1>8. CASE stderr_write(t)
  <2> DEFINE cs == Put("stderr", t, calls)
  <2>1. PICK s \in RawWrite(Fresh, cs) : StderrIs(s, cs) /\ Answered(s.ok)
    BY <1>8, CharsArePut DEF stderr_write
  <2>2. /\ calls' = calls + 1 /\ UNCHANGED <<args, argv, result, host, raw>>
        /\ ended' \in {"no", "exit", "abort"} /\ flag' = flag /\ flag' \in BOOLEAN
        /\ told' \subseteq told \cup {calls} /\ (calls \in told' => s.ok)
    BY <1>3, <2>1
  <2> QED BY <1>1, <1>2, <1>4, <2>1, <2>2, StderrStep
<1> QED BY <1>5, <1>6, <1>7, <1>8

(* The terminal's mode is no stream. *)
LEMMA ModeStep ==
  ASSUME HostInv, UNCHANGED host, NEW on \in BOOLEAN, SetRawMode(on)
  PROVE  HostInv'
<1>1. /\ result = NoResult /\ calls < MaxCalls /\ calls' = calls + 1
      /\ UNCHANGED <<args, argv, flag, buf, screen, printed, failed, result, told>>
      /\ ended' \in {"no", "exit", "abort"}
  BY DEF SetRawMode, Running
<1>2. NextCall' \in {calls, calls + 1}
  BY <1>1 DEF NextCall
<1>3. raw' \in BOOLEAN
  BY DEF SetRawMode, HostInv, HostTypes
<1>4. calls' \in {calls, calls + 1} \cap 0..MaxCalls
      /\ result' \in Results \cup {NoResult}
  BY <1>1, HostAssumption DEF HostInv, HostTypes
<1> QED BY <1>1, <1>2, <1>3, <1>4, QuietStep

(* std::process::exit flushes what stdout holds back. *)
LEMMA ExitStep ==
  ASSUME HostInv, UNCHANGED host, result # NoResult, ended' = "exit",
         NEW s \in FlushBuf(Fresh), StdoutIs(s, <<>>),
         UNCHANGED <<args, argv, flag, calls, result, told, raw>>
  PROVE  HostInv'
<1> DEFINE U == Upto(calls + 1, Len(printed))
           H == Held(calls + 1, Len(printed))
<1>1. /\ calls \in Nat /\ calls + 1 \in Nat /\ failed \in BOOLEAN
      /\ StreamsAre(screen, buf, printed, calls + 1, failed)
      /\ told \in SUBSET (0..(calls - 1))
  BY HostAssumption DEF HostInv, HostTypes, Streams, NextCall
<1>2. buf \in Seq(H) /\ screen \in Seq(U) /\ printed \in Seq(U)
  BY <1>1 DEF StreamsAre
<1> HIDE DEF U, H
<1>3. Fresh.buf \in Seq(H) /\ Fresh.buf = buf /\ Fresh.sent = <<>>
  BY <1>2 DEF Fresh
<1>4. s.buf \in Seq(H) /\ s.ok \in BOOLEAN /\ (s.ok => s.buf = <<>>)
  BY <1>3, FlushMoves
<1>5. PICK x \in Seq(H) : Halves(Fresh.sent, x, s.sent) /\ Halves(x, s.buf, Fresh.buf)
  BY <1>3, FlushMoves
<1>6. Halves(x, s.buf, buf) /\ s.sent = x
  BY <1>3, <1>5, ConcatEmptySeq DEF Halves
<1>7. /\ buf' = s.buf /\ screen' = screen \o x /\ printed' = printed
      /\ failed' = (failed \/ ~s.ok)
  BY <1>2, <1>6, ConcatEmptySeq DEF StdoutIs
<1>8. failed' \in BOOLEAN /\ (failed => failed') /\ (~failed' => s.buf = <<>>)
  BY <1>1, <1>4, <1>7
<1>9. StreamsAre(screen \o x, s.buf, printed, calls + 1, failed') /\ x \in Seq(U)
  BY <1>1, <1>4, <1>6, <1>8, FlushStreams DEF H, U
<1>10. Streams'
  BY <1>7, <1>9 DEF Streams, NextCall
<1>11. OkMeansShown'
  <2>1. ShownOf(screen, printed, told)
    BY DEF HostInv, OkMeansShown, ShownOf
  <2>2. \A i \in 1..Len(printed) : printed[i].call # calls + 1
    <3>1. calls + 1 <= calls + 1 /\ 0 \in Nat
      BY <1>1
    <3>2. \A i \in 1..Len(printed) : printed[i].call \in Int /\ printed[i].call < calls + 1
      BY <1>1, <3>1, StreamFacts
    <3> QED BY <1>1, <3>2
  <2>3. calls + 1 \notin told /\ told' \subseteq told \cup {calls + 1} /\ calls + 1 \notin told'
    BY <1>1
  <2>4. <<>> \in Seq(U) /\ 1..Len(<<>>) = {} /\ printed \o <<>> = printed
    BY <1>2, EmptySeq, ConcatEmptySeq
  <2>5. ShownOf(screen \o x, printed \o <<>>, told')
    BY <1>2, <1>9, <2>1, <2>2, <2>3, <2>4, ShownStep
  <2> QED BY <1>7, <2>4, <2>5 DEF OkMeansShown, ShownOf
<1>12. HostTypes'
  BY <1>8 DEF HostInv, HostTypes
<1>13. ArgsAreGiven' /\ FlagAccounts'
  BY <1>7 DEF HostInv, ArgsAreGiven, FlagAccounts, Complained
<1> QED BY <1>10, <1>11, <1>12, <1>13 DEF HostInv

LEMMA LegacyStep ==
  ASSUME HostInv, UNCHANGED host, host # "live", LegacyNext
  PROVE  HostInv'
<1>a. {"dbg", "expect", "crash"} \subseteq Printers \ {"stdout"}
  BY DEF Printers
<1>1. ASSUME NEW t \in Texts,
             \/ stdout_line(t) \/ stdout_write(t) \/ stderr_line(t) \/ stderr_write(t)
      PROVE  HostInv'
  BY <1>1, LegacyPrints
<1>2. ASSUME NEW t \in Texts, ChildPrints(t), UNCHANGED <<told, raw>> PROVE HostInv'
  BY <1>2, ChildStep
<1>3. ASSUME NEW t \in Texts, roc_dbg(t) PROVE HostInv'
  <2>1. /\ Running /\ Eprintln("dbg", t, "no") /\ calls' = calls + 1
        /\ UNCHANGED <<args, argv, flag, result, told, raw>>
    BY <1>3 DEF roc_dbg
  <2>2. flag' \in BOOLEAN /\ "dbg" \in Printers \ {"stdout"}
    BY <1>a, <2>1 DEF HostInv, HostTypes
  <2> QED BY <2>1, <2>2, EprintlnStep
<1>4. ASSUME NEW t \in Texts, roc_expect_failed(t) PROVE HostInv'
  <2>1. /\ Running /\ ReportAndExit(Chars("expect", t \o <<TRUE>>)) /\ calls' = calls + 1
        /\ UNCHANGED <<args, argv, flag, result, told, raw>>
    BY <1>4 DEF roc_expect_failed
  <2>2. raw' \in BOOLEAN /\ "expect" \in Printers \ {"stdout"}
    BY <1>a, <2>1 DEF HostInv, HostTypes
  <2> QED BY <2>1, <2>2, ReportStep
<1>5. ASSUME NEW t \in Texts, roc_panic(t) PROVE HostInv'
  <2>1. /\ Running /\ ReportAndExit(Chars("crash", t \o <<TRUE>>)) /\ calls' = calls + 1
        /\ UNCHANGED <<args, argv, flag, result, told>> /\ raw' \in {FALSE, raw}
    BY <1>5 DEF roc_panic
  <2>2. raw' \in BOOLEAN /\ "crash" \in Printers \ {"stdout"}
    BY <1>a, <2>1 DEF HostInv, HostTypes
  <2> QED BY <2>1, <2>2, ReportStep
<1>6. CASE tty_mode_raw \/ tty_mode_canonical
  BY <1>6, ModeStep DEF tty_mode_raw, tty_mode_canonical
<1>7. ASSUME NEW b \in BOOLEAN, posix_time(b) PROVE HostInv'
  BY <1>7, ClockStep DEF posix_time
<1>8. ASSUME NEW code \in ExitCodes, LegacyMainReturns(code) PROVE HostInv'
  <2>1. [kind |-> "exit", code |-> code] \in Results
    BY DEF Results
  <2> QED BY <1>8, <2>1, ResultStep DEF LegacyMainReturns
<1>9. CASE rust_main
  <2>1. result # NoResult /\ UNCHANGED <<args, argv, flag, calls, result, told, raw>>
    BY <1>9 DEF rust_main
  <2>2. CASE ended' = "return" /\ UNCHANGED <<buf, screen, printed, failed>>
    BY <2>1, <2>2, ReturnStep
  <2>3. CASE ended' = "exit" /\ \E s \in FlushBuf(Fresh) : StdoutIs(s, <<>>)
    <3>1. PICK s \in FlushBuf(Fresh) : StdoutIs(s, <<>>)
      BY <2>3
    <3> QED BY <2>1, <2>3, <3>1, ExitStep
  <2> QED BY <1>9, <2>2, <2>3 DEF rust_main
<1> QED BY <1>1, <1>2, <1>3, <1>4, <1>5, <1>6, <1>7, <1>8, <1>9 DEF LegacyNext

LEMMA HostStep == HostInv /\ [HostsNext]_hostVars => HostInv'
<1> SUFFICES ASSUME HostInv, [HostsNext]_hostVars PROVE HostInv'
  OBVIOUS
<1>1. CASE HostsNext /\ host = "live"
  BY <1>1, LiveStep DEF HostsNext
<1>2. CASE HostsNext /\ host # "live"
  BY <1>2, LegacyStep DEF HostsNext
<1>3. CASE UNCHANGED hostVars
  BY <1>3 DEF hostVars, vars, HostInv, HostTypes, ArgsAreGiven, Streams, NextCall,
       FlagAccounts, Complained, OkMeansShown
<1> QED BY <1>1, <1>2, <1>3

-----------------------------------------------------------------------------
(* On every host, at every moment, the streams, the flag and the answers are
   what HostInv says.                                                        *)
THEOREM HostsInvariant == HostsSpec => []HostInv
<1>1. HostsInit => HostInv
  BY HostStart
<1>2. HostInv /\ [HostsNext]_hostVars => HostInv'
  BY HostStep
<1> QED BY <1>1, <1>2, PTL DEF HostsSpec

(* The state keeps its types; the live host's main! gets no argument from past
   the end of argv and none that is not text, that of crates/ all of argv.     *)
THEOREM HostsTypesCorrect == HostsSpec => []HostsTypeOK
<1>1. HostInv => HostsTypeOK
  <2> SUFFICES ASSUME HostInv PROVE HostsTypeOK
    OBVIOUS
  <2>1. HostTypes /\ ArgsAreGiven /\ calls \in Nat /\ calls <= MaxCalls /\ MaxCalls \in Nat
    BY HostAssumption DEF HostInv, HostTypes
  <2>2. StreamsAre(screen, buf, printed, NextCall, failed) /\ NextCall \in {calls, calls + 1}
    BY DEF HostInv, Streams, NextCall
  <2>3. Upto(NextCall, Len(printed)) \subseteq Characters
    <3>1. 0..(NextCall - 1) \subseteq 0..MaxCalls
      BY <2>1, <2>2
    <3> QED BY <3>1 DEF Upto, Printers, Characters
  <2>4. Held(NextCall, Len(printed)) \subseteq Characters
    BY <2>3 DEF Held
  <2>5. screen \in Seq(Characters) /\ printed \in Seq(Characters) /\ buf \in Seq(Characters)
    BY <2>2, <2>3, <2>4, SeqMonotonic DEF StreamsAre
  <2>6. ended = "return" => ExitCode \in Int
    <3> SUFFICES ASSUME ended = "return" PROVE ExitCode \in Int
      OBVIOUS
    <3>1. result \in Results
      BY <2>1 DEF HostTypes
    <3>2. main_for_host \in Int
      BY <3>1, HostAssumption DEF Results, main_for_host
    <3> QED BY <3>2 DEF ExitCode
  <2>7. RunTypeOK
    BY <2>1, <2>5, <2>6 DEF RunTypeOK, HostTypes
  <2>8. told \in SUBSET (0..MaxCalls)
    BY <2>1 DEF HostTypes
  <2> QED BY <2>1, <2>7, <2>8 DEF HostsTypeOK, TypeOK, ArgsAreGiven, HostTypes
<1> QED BY <1>1, HostsInvariant, PTL

(* While no write has failed, the terminal shows all of what was printed, in
   the order of the program, whatever is called and however it ends.         *)
THEOREM NothingWaitsInABuffer == HostsSpec => []OutputInProgramOrder
<1>1. HostInv => OutputInProgramOrder
  BY DEF HostInv, Streams, StreamsAre, OutputInProgramOrder
<1> QED BY <1>1, HostsInvariant, PTL

(* Writes may fail anywhere: no character is shown twice and none overtakes
   another of its stream.                                                    *)
THEOREM StreamsKeepTheirOrder == HostsSpec => []NoDuplicateNoOvertake
<1>1. HostInv => NoDuplicateNoOvertake
  <2> SUFFICES ASSUME HostInv PROVE NoDuplicateNoOvertake
    OBVIOUS
  <2> DEFINE U == Upto(NextCall, Len(printed))
  <2>1. InOrder(screen \o buf) /\ screen \in Seq(U) /\ buf \in Seq(U)
    <3>1. StreamsAre(screen, buf, printed, NextCall, failed)
      BY DEF HostInv, Streams
    <3>2. Held(NextCall, Len(printed)) \subseteq U
      BY DEF Held
    <3> QED BY <3>1, <3>2, SeqMonotonic DEF StreamsAre
  <2> HIDE DEF U
  <2>2. /\ Len(screen) \in Nat /\ Len(buf) \in Nat
        /\ Len(screen \o buf) = Len(screen) + Len(buf)
        /\ \A k \in 1..Len(screen) + Len(buf) :
             (screen \o buf)[k] = IF k <= Len(screen) THEN screen[k] ELSE buf[k - Len(screen)]
    BY <2>1, ConcatProperties
  <2>3. \A k \in 1..Len(screen) : k \in 1..Len(screen \o buf) /\ (screen \o buf)[k] = screen[k]
    BY <2>2
  <2> QED BY <2>1, <2>3 DEF InOrder, NoDuplicateNoOvertake
<1> QED BY <1>1, HostsInvariant, PTL

(* rust_main of the live host returns 0 exactly for a clean run. *)
THEOREM ZeroOnlyForCleanRuns == HostsSpec => []LiveZeroMeansClean
<1>1. HostInv => LiveZeroMeansClean
  <2> SUFFICES ASSUME HostInv, host = "live", ended = "return"
               PROVE  ExitCode = 0 <=>
                        /\ result.kind = "ok" \/ result = [kind |-> "exit", code |-> 0]
                        /\ ~Complained
    BY DEF LiveZeroMeansClean, ZeroMeansClean
  <2>1. (flag <=> Complained) /\ result \in Results
    BY DEF HostInv, HostTypes, FlagAccounts
  <2>2. ExitCode = 0 <=> ~flag /\ main_for_host = 0
    BY DEF ExitCode
  <2>3. main_for_host = 0 <=> result.kind = "ok" \/ result = [kind |-> "exit", code |-> 0]
    BY <2>1, HostAssumption DEF Results, main_for_host
  <2> QED BY <2>1, <2>2, <2>3
<1> QED BY <1>1, HostsInvariant, PTL

(* A print of crates/ answered with Ok is on the terminal in full, from then on. *)
THEOREM AnsweredOkIsShown == HostsSpec => []OkMeansShown
<1>1. HostInv => OkMeansShown
  BY DEF HostInv
<1> QED BY <1>1, HostsInvariant, PTL
=============================================================================
