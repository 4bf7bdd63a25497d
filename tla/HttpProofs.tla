------------------------------ MODULE HttpProofs ------------------------------
(***************************************************************************)
(* Proofs about Http.send!, for every number of requests, every set of time *)
(* limits and statuses and every length of a body.                         *)
(***************************************************************************)
EXTENDS Http, SequenceTheorems, TLAPS

AnswerType == [status : Statuses \cup {0}, body : Seq(Chunks),
               end : {"pending", "failed", "cut", "complete"}]

MeantType == [status : Statuses \cup {0}, body : Seq(Chunks), framed : BOOLEAN]

Reasons == {"none", "refused", "no root certificates", "server", "client error",
            "Bad Body", "RequestTimeout"}
Responses == [req : 0..MaxRequests, status : Statuses \cup {0, 408, 500}, body : Seq(Chunks),
              why : Reasons]

(* TypeOK, with the functions and records it looks into. *)
HttpTypes ==
  /\ TypeOK
  /\ answer \in [Requests -> AnswerType]
  /\ meant \in [Requests -> MeantType]
  /\ ret \in Responses

(* Requests begin one after the other; the response is for one that began,
   never for the one that is still waiting.                                  *)
NothingFromTheFuture ==
  /\ ret.req <= last
  /\ ret.why = "server" => ret.req \in Requests
  /\ current # 0 => ret.req # current
  /\ \A r \in Requests : r > last => task[r] = "none"

(* Up to the headers a task has handed over nothing, and then a status and a
   front of the body that the server meant.                                  *)
Begun(a, m) == a.status = m.status /\ IsPrefix(a.body, m.body)
Underway ==
  \A r \in Requests :
    /\ task[r] \in {"none", "connecting", "waiting"} => answer[r] = NoAnswer
    /\ task[r] = "body" => Begun(answer[r], meant[r])

(* Only a task that is over has ended its answer, and one that it says is
   complete is all of a framed body.                                         *)
Whole(a, m) == Begun(a, m) /\ (m.framed => a.body = m.body)
EndedIsOver ==
  \A r \in Requests :
    /\ answer[r].end # "pending" => task[r] = "over"
    /\ answer[r].end = "complete" => Whole(answer[r], meant[r])

(* After a timeout nobody drives the runtime until the next request; a timer
   fires late, if at all; what was answered in time has ended.               *)
TimeoutStands ==
  /\ fired => limit > 0 /\ now >= limit
  /\ \A r \in Requests : r \in inTime => answer[r].end # "pending"
  /\ TimeoutDropsNoAnswer

(* The inductive invariant. *)
NetInv == /\ HttpTypes /\ NothingFromTheFuture /\ Underway /\ EndedIsOver
          /\ ServerAnswerIsWhole /\ TimeoutStands

-----------------------------------------------------------------------------
(* Fronts of a body, element by element. *)
LEMMA PrefixIs ==
  ASSUME NEW s \in Seq(Chunks), NEW t \in Seq(Chunks)
  PROVE  IsPrefix(s, t) <=> Len(s) <= Len(t) /\ \A i \in 1..Len(s) : s[i] = t[i]
<1> DEFINE n == Len(s)
           u == SubSeq(t, 1, n)
<1>1. n \in Nat /\ Len(t) \in Nat /\ SubSeq(s, 1, n) = s
  BY SubSeqFull
<1>2. IsPrefix(s, t) <=> n <= Len(t) /\ s = u
  BY <1>1 DEF IsPrefix
<1>3. ASSUME n <= Len(t) PROVE u \in Seq(Chunks) /\ Len(u) = n /\ \A i \in 1..n : u[i] = t[i]
  <2>1. \A i \in 1..n : t[i] \in Chunks
    BY <1>1, <1>3, ElementOfSeq
  <2>2. /\ SubSeq(t, 1, n) \in Seq(Chunks)
        /\ Len(SubSeq(t, 1, n)) = IF 1 <= n THEN n - 1 + 1 ELSE 0
        /\ \A i \in 1..n - 1 + 1 : SubSeq(t, 1, n)[i] = t[1 + i - 1]
    <3> HIDE DEF n
    <3> QED BY <1>1, <2>1, SubSeqProperties
  <2> HIDE DEF n
  <2>3. Len(u) = n
    BY <1>1, <2>2
  <2>4. \A i \in 1..n : u[i] = t[i]
    BY <1>1, <2>2
  <2> QED BY <2>2, <2>3, <2>4
<1>4. ASSUME n <= Len(t), \A i \in 1..n : s[i] = t[i] PROVE s = u
  <2>1. u \in Seq(Chunks) /\ Len(u) = Len(s) /\ \A i \in 1..Len(s) : s[i] = u[i]
    BY <1>3, <1>4
  <2> HIDE DEF u
  <2> QED BY <2>1, SeqEqual
<1> HIDE DEF u
<1> QED BY <1>2, <1>3, <1>4

LEMMA PrefixStarts == ASSUME NEW t \in Seq(Chunks) PROVE IsPrefix(<<>>, t)
<1>1. <<>> \in Seq(Chunks) /\ Len(<<>>) = 0 /\ Len(t) \in Nat
  BY EmptySeq
<1>2. ASSUME NEW s \in Seq(Chunks), Len(s) = 0 PROVE IsPrefix(s, t)
  <2>1. Len(s) <= Len(t) /\ 1..Len(s) = {}
    BY <1>1, <1>2
  <2>2. \A i \in 1..Len(s) : s[i] = t[i]
    BY <2>1, Zenon
  <2> QED BY <2>1, <2>2, PrefixIs
<1> QED BY <1>1, <1>2, Zenon

LEMMA PrefixGrows ==
  ASSUME NEW s \in Seq(Chunks), NEW t \in Seq(Chunks), IsPrefix(s, t), Len(s) < Len(t)
  PROVE  /\ Append(s, t[Len(s) + 1]) \in Seq(Chunks)
         /\ IsPrefix(Append(s, t[Len(s) + 1]), t)
<1> DEFINE n == Len(s)
           c == t[n + 1]
           u == Append(s, c)
<1>1. n \in Nat /\ Len(t) \in Nat /\ n + 1 \in 1..Len(t)
  OBVIOUS
<1>2. c \in Chunks
  BY <1>1, ElementOfSeq
<1> HIDE DEF c
<1>3. u \in Seq(Chunks) /\ Len(u) = n + 1 /\ u[n + 1] = c /\ \A i \in 1..n : u[i] = s[i]
  BY <1>2
<1>4. \A i \in 1..n : s[i] = t[i]
  BY PrefixIs
<1> HIDE DEF u
<1>5. \A i \in 1..(n + 1) : u[i] = t[i]
  BY <1>1, <1>3, <1>4 DEF c
<1>6. IsPrefix(u, t)
  BY <1>1, <1>3, <1>5, PrefixIs
<1> QED BY <1>3, <1>6 DEF u, c

-----------------------------------------------------------------------------
LEMMA HttpStart == ASSUME Init PROVE NetInv
<1>1. <<>> \in Seq(Chunks) /\ MaxRequests \in Nat /\ MaxTime \in Nat
  BY HttpAssumption
<1>2. NoAnswer \in AnswerType /\ Nothing \in MeantType
  BY <1>1 DEF NoAnswer, AnswerType, Nothing, MeantType
<1>3. answer \in [Requests -> AnswerType] /\ meant \in [Requests -> MeantType]
  BY <1>1, <1>2 DEF Init
<1>4. HttpTypes
  <2>1. ret \in Responses
    BY <1>1 DEF Init, Responses, Reasons
  <2>2. /\ current \in {0, last} /\ last \in 0..MaxRequests /\ limit \in TimeLimits \cup {0}
        /\ now \in 0..MaxTime
    BY <1>1 DEF Init
  <2>6. fired \in BOOLEAN /\ inTime \subseteq Requests
    BY Zenon DEF Init
  <2>5. task \in [Requests -> {"none", "connecting", "waiting", "body", "over"}]
    BY DEF Init
  <2>3. \A r \in Requests : /\ answer[r].status \in Statuses \cup {0}
                            /\ answer[r].body \in Seq(Chunks)
                            /\ answer[r].end \in {"pending", "failed", "cut", "complete"}
    BY <1>3 DEF AnswerType
  <2>4. ret.status \in Statuses \cup {0, 408, 500}
    BY <2>1 DEF Responses
  <2> QED BY <1>3, <2>1, <2>2, <2>3, <2>4, <2>5, <2>6 DEF HttpTypes, TypeOK
<1>5. ret.why = "none" /\ ret.req = 0
  BY DEF Init
<1>6. ServerAnswerIsWhole /\ TimeoutStands
  BY <1>5 DEF Init, ServerAnswerIsWhole, TimeoutStands, TimeoutDropsNoAnswer
<1>7. NothingFromTheFuture
  BY <1>1, <1>5 DEF Init, NothingFromTheFuture, Requests
<1>8. Underway /\ EndedIsOver
  BY DEF Init, Underway, EndedIsOver, NoAnswer
<1> QED BY <1>4, <1>6, <1>7, <1>8 DEF NetInv

(* What the types say of the parts of the state. *)
LEMMA HttpFacts ==
  ASSUME NetInv
  PROVE  /\ MaxRequests \in Nat /\ MaxTime \in Nat /\ 0 \in 0..MaxTime
         /\ last \in Nat /\ last <= MaxRequests
         /\ current = 0 \/ (current = last /\ current \in Requests)
         /\ ret.req \in Nat /\ ret.req <= last
         /\ limit \in TimeLimits \cup {0} /\ limit \in Nat
         /\ now \in 0..MaxTime /\ now \in Nat
         /\ task \in [Requests -> {"none", "connecting", "waiting", "body", "over"}]
         /\ answer \in [Requests -> AnswerType]
         /\ meant \in [Requests -> MeantType]
         /\ ret \in Responses
         /\ fired \in BOOLEAN /\ inTime \subseteq Requests
<1>1. MaxRequests \in Nat /\ MaxTime \in Nat /\ TimeLimits \subseteq Nat
  BY HttpAssumption
<1>2. last \in 0..MaxRequests /\ current \in {0, last}
  BY DEF NetInv, HttpTypes, TypeOK
<1>3. current = 0 \/ (current = last /\ current \in Requests)
  BY <1>1, <1>2 DEF Requests
<1>4. limit \in TimeLimits \cup {0} /\ now \in 0..MaxTime
      /\ task \in [Requests -> {"none", "connecting", "waiting", "body", "over"}]
  BY DEF NetInv, HttpTypes, TypeOK
<1>5. answer \in [Requests -> AnswerType] /\ meant \in [Requests -> MeantType] /\ ret \in Responses
  BY DEF NetInv, HttpTypes
<1>6. ret.req \in 0..MaxRequests /\ ret.req <= last
  BY <1>5 DEF Responses, NetInv, NothingFromTheFuture
<1>7. fired \in BOOLEAN /\ inTime \subseteq Requests
  BY DEF NetInv, HttpTypes, TypeOK
<1> QED BY <1>1, <1>2, <1>3, <1>4, <1>5, <1>6, <1>7

LEMMA ServerIs ==
  ServerAnswerIsWhole <=>
    (ret.why = "server" => task[ret.req] = "over" /\ Whole(ret, meant[ret.req]))
  BY DEF ServerAnswerIsWhole, Whole, Begun

LEMMA ServerWillBe ==
  ServerAnswerIsWhole' <=>
    (ret'.why = "server" => task'[ret'.req] = "over" /\ Whole(ret', meant'[ret'.req]))
  BY DEF ServerAnswerIsWhole, Whole, Begun

(* A request begins. *)
LEMMA SendStep ==
  ASSUME NetInv, NEW ms \in TimeLimits, send_request(ms), NEW r, r = last + 1
  PROVE  NetInv'
<1>1. /\ last' = r /\ limit' = ms /\ now' = 0 /\ fired' = FALSE /\ current = 0 /\ last < MaxRequests
      /\ answer' = answer /\ meant' = meant /\ inTime' = inTime
  BY DEF send_request, Begin
<1>2. r \in Requests /\ r \in Nat /\ r > last /\ r <= MaxRequests
  BY <1>1, HttpFacts DEF Requests
<1>3. \/ /\ current' = 0 /\ task' = task
         /\ \/ ret' = ret
            \/ ret' \in Responses /\ ret'.req = r /\ ret'.why \notin {"server", "RequestTimeout"}
      \/ current' = r /\ task' = [task EXCEPT ![r] = "connecting"] /\ ret' = ret
  <2>1. <<>> \in Seq(Chunks) /\ r \in 0..MaxRequests
    BY <1>2, HttpFacts
  <2>2. CASE UnknownMethod
    BY <2>2, <1>1 DEF UnknownMethod
  <2>3. ASSUME NEW why \in {"refused", "no root certificates"},
               Respond(last + 1, 500, <<>>, why), UNCHANGED <<task, aborted>>
        PROVE  /\ current' = 0 /\ task' = task
               /\ ret' \in Responses /\ ret'.req = r /\ ret'.why \notin {"server", "RequestTimeout"}
    <3>1. ret' = [req |-> r, status |-> 500, body |-> <<>>, why |-> why]
      BY <2>3 DEF Respond
    <3>2. ret'.req = r /\ ret'.why = why
      BY <3>1
    <3>3. ret' \in Responses
      BY <3>1, <2>1 DEF Responses, Reasons
    <3> QED BY <2>3, <3>2, <3>3 DEF Respond
  <2>4. CASE Refused \/ NoRoots
    BY <2>3, <2>4, ZenonT(40) DEF Refused, NoRoots
  <2>5. CASE Started
    BY <2>5, SMTT(30) DEF Started
  <2> QED BY <2>2, <2>4, <2>5 DEF send_request
<1>4. /\ \/ ret' = ret
         \/ current' = 0 /\ ret'.req = r /\ ret'.why \notin {"server", "RequestTimeout"}
      /\ current' = 0 \/ (current' = r /\ ret' = ret)
  BY <1>3
<1>5. ret.req < r /\ ret'.req <= r
  BY <1>2, <1>4, HttpFacts
<1>6. \A q \in Requests : q # r => task'[q] = task[q]
  BY <1>3, HttpFacts
<1>7. HttpTypes'
  <2>1. ret' \in Responses
    BY <1>3, HttpFacts
  <2>2. task' \in [Requests -> {"none", "connecting", "waiting", "body", "over"}]
    BY <1>3, HttpFacts
  <2>3. current' \in {0, last'} /\ last' \in 0..MaxRequests /\ limit' \in TimeLimits /\ now' \in 0..MaxTime
    BY <1>1, <1>2, <1>4, HttpFacts
  <2>4. TypeOK'
    <3>1. ret'.status \in Statuses \cup {0, 408, 500}
      BY <2>1 DEF Responses
    <3>2. fired' \in BOOLEAN /\ inTime' \subseteq Requests
      BY <1>1, HttpFacts
    <3>3. \A q \in Requests : /\ answer'[q].status \in Statuses \cup {0}
                              /\ answer'[q].body \in Seq(Chunks)
                              /\ answer'[q].end \in {"pending", "failed", "cut", "complete"}
      BY <1>1, HttpFacts DEF AnswerType
    <3> QED BY <3>1, <3>2, <3>3, <2>2, <2>3 DEF TypeOK
  <2> QED BY <2>1, <2>4, <1>1, HttpFacts DEF HttpTypes
<1>8. NothingFromTheFuture'
  <2>1. current' # 0 => ret'.req # current'
    BY <1>2, <1>4, <1>5, HttpFacts
  <2>2. ASSUME NEW q \in Requests, q > r
        PROVE  task'[q] = "none"
    <3>1. q > last /\ q # r
      BY <2>2, <1>2, HttpFacts DEF Requests
    <3> QED BY <3>1, <1>6 DEF NetInv, NothingFromTheFuture
  <2>3. ret'.why = "server" => ret'.req \in Requests
    BY <1>4 DEF NetInv, NothingFromTheFuture
  <2> QED BY <1>1, <1>5, <2>1, <2>2, <2>3 DEF NothingFromTheFuture
<1>9. task[r] = "none" /\ answer[r] = NoAnswer /\ answer[r].end = "pending"
  BY <1>2 DEF NetInv, NothingFromTheFuture, Underway, NoAnswer
<1>10. task'[r] \in {"none", "connecting"}
  BY <1>2, <1>3, <1>9, HttpFacts
<1>11. Underway'
  <2> SUFFICES ASSUME NEW q \in Requests
               PROVE  /\ task'[q] \in {"none", "connecting", "waiting"} => answer'[q] = NoAnswer
                      /\ task'[q] = "body" => Begun(answer'[q], meant'[q])
    BY DEF Underway
  <2>1. CASE q = r
    BY <2>1, <1>1, <1>9, <1>10
  <2>2. CASE q # r
    BY <2>2, <1>1, <1>6 DEF NetInv, Underway
  <2> QED BY <2>1, <2>2
<1>12. EndedIsOver'
  <2> SUFFICES ASSUME NEW q \in Requests, answer'[q].end # "pending"
               PROVE  /\ task'[q] = "over"
                      /\ answer'[q].end = "complete" => Whole(answer'[q], meant'[q])
    BY DEF EndedIsOver
  <2>1. q # r
    BY <1>1, <1>9
  <2> QED BY <2>1, <1>1, <1>6 DEF NetInv, EndedIsOver
<1>13. ServerAnswerIsWhole'
  <2> SUFFICES ASSUME ret'.why = "server"
               PROVE  task'[ret'.req] = "over" /\ Whole(ret', meant'[ret'.req])
    BY ServerWillBe
  <2>1. ret' = ret
    BY <1>4
  <2>2. ret.req \in Requests /\ task[ret.req] = "over" /\ Whole(ret, meant[ret.req])
    BY <2>1, ServerIs DEF NetInv, NothingFromTheFuture
  <2> QED BY <2>1, <2>2, <1>1, <1>5, <1>6, HttpFacts
<1>14. TimeoutStands'
  <2>1. \A q \in Requests : q \in inTime' => answer'[q].end # "pending"
    BY <1>1 DEF NetInv, TimeoutStands
  <2>2. TimeoutDropsNoAnswer'
    <3> SUFFICES ASSUME ret'.why = "RequestTimeout"
                 PROVE  ret'.req \notin inTime' /\ ret'.req # last'
      BY DEF TimeoutDropsNoAnswer
    <3>1. ret' = ret
      BY <1>4
    <3> QED BY <3>1, <1>1, <1>2, <1>5, HttpFacts DEF NetInv, TimeoutStands, TimeoutDropsNoAnswer
  <2> QED BY <2>1, <2>2, <1>1 DEF TimeoutStands
<1> QED BY <1>7, <1>8, <1>11, <1>12, <1>13, <1>14 DEF NetInv

(* A connection task moves on: `r` was driven in a state that is not the end,
   goes to `state`, and `a` is what it has handed over so far of `m`, the
   answer the server means.                                                  *)
LEMMA TaskStep ==
  ASSUME NetInv, NEW r \in Requests, NEW state \in {"waiting", "body", "over"},
         NEW a \in AnswerType, NEW m \in MeantType,
         current # 0, task[r] \notin {"none", "over"}, Tasks(r, state),
         answer' = [answer EXCEPT ![r] = a], meant' = [meant EXCEPT ![r] = m],
         state = "waiting" => a = NoAnswer,
         state = "body" => Begun(a, m) /\ a.end = "pending",
         a.end = "complete" => Whole(a, m),
         a.end # "pending" => state = "over",
         \/ inTime' = inTime
         \/ /\ inTime' = inTime \cup {q \in {r} : r = current /\ (limit = 0 \/ now < limit)}
            /\ a.end # "pending"
  PROVE  NetInv'
<1>1. UNCHANGED <<current, last, limit, now, fired, ret>> /\ task' = [task EXCEPT ![r] = state]
  BY DEF Tasks
<1>2. r <= last
  BY HttpFacts DEF NetInv, NothingFromTheFuture, Requests
<1>3. /\ task'[r] = state /\ answer'[r] = a /\ meant'[r] = m
      /\ \A q \in Requests : q # r =>
           task'[q] = task[q] /\ answer'[q] = answer[q] /\ meant'[q] = meant[q]
  BY <1>1, HttpFacts
<1>4. inTime \subseteq inTime' /\ inTime' \subseteq inTime \cup {r}
      /\ (r \in inTime' => r \in inTime \/ (r = current /\ a.end # "pending"))
  OBVIOUS
<1>5. HttpTypes'
  <2>1. answer' \in [Requests -> AnswerType] /\ meant' \in [Requests -> MeantType]
        /\ task' \in [Requests -> {"none", "connecting", "waiting", "body", "over"}]
    BY <1>1, HttpFacts
  <2>2. inTime' \subseteq Requests
    BY <1>4, HttpFacts
  <2> QED BY <2>1, <2>2, <1>1 DEF NetInv, HttpTypes, TypeOK, AnswerType
<1>6. NothingFromTheFuture'
  BY <1>1, <1>2, HttpFacts DEF NetInv, NothingFromTheFuture, Requests
<1>7. Underway'
  <2> SUFFICES ASSUME NEW q \in Requests
               PROVE  /\ task'[q] \in {"none", "connecting", "waiting"} => answer'[q] = NoAnswer
                      /\ task'[q] = "body" => Begun(answer'[q], meant'[q])
    BY DEF Underway
  <2>1. CASE q = r
    BY <2>1, <1>3
  <2>2. CASE q # r
    BY <2>2, <1>3 DEF NetInv, Underway
  <2> QED BY <2>1, <2>2
<1>8. EndedIsOver'
  <2> SUFFICES ASSUME NEW q \in Requests
               PROVE  /\ answer'[q].end # "pending" => task'[q] = "over"
                      /\ answer'[q].end = "complete" => Whole(answer'[q], meant'[q])
    BY DEF EndedIsOver
  <2>1. CASE q = r
    BY <2>1, <1>3
  <2>2. CASE q # r
    BY <2>2, <1>3 DEF NetInv, EndedIsOver
  <2> QED BY <2>1, <2>2
<1>9. ServerAnswerIsWhole'
  <2> SUFFICES ASSUME ret.why = "server"
               PROVE  task'[ret.req] = "over" /\ Whole(ret, meant'[ret.req])
    BY <1>1, ServerWillBe
  <2>1. ret.req \in Requests /\ task[ret.req] = "over" /\ Whole(ret, meant[ret.req])
    BY ServerIs DEF NetInv, NothingFromTheFuture
  <2> QED BY <2>1, <1>3
<1>10. TimeoutStands'
  <2>1. ASSUME NEW q \in Requests, q \in inTime' PROVE answer'[q].end # "pending"
    <3>1. answer[r].end = "pending"
      BY DEF NetInv, EndedIsOver
    <3>2. CASE q = r
      BY <3>1, <3>2, <2>1, <1>3, <1>4 DEF NetInv, TimeoutStands
    <3>3. CASE q # r
      BY <3>3, <2>1, <1>3, <1>4 DEF NetInv, TimeoutStands
    <3> QED BY <3>2, <3>3
  <2>2. TimeoutDropsNoAnswer'
    <3> SUFFICES ASSUME ret.why = "RequestTimeout"
                 PROVE  ret.req \notin inTime' /\ (ret.req = last => limit > 0 /\ now >= limit)
      BY <1>1 DEF TimeoutDropsNoAnswer
    <3>1. ret.req \notin inTime /\ (ret.req = last => limit > 0 /\ now >= limit)
      BY DEF NetInv, TimeoutStands, TimeoutDropsNoAnswer
    <3>2. ret.req # current
      BY DEF NetInv, NothingFromTheFuture
    <3> QED BY <3>1, <3>2, <1>4
  <2>3. fired' => limit' > 0 /\ now' >= limit'
    BY <1>1 DEF NetInv, TimeoutStands
  <2> QED BY <2>1, <2>2, <2>3 DEF TimeoutStands
<1> QED BY <1>5, <1>6, <1>7, <1>8, <1>9, <1>10 DEF NetInv

(* Everything that a connection task does is such a move. *)
LEMMA NetworkStep ==
  ASSUME NetInv, NEW r \in Requests,
         \/ Connects(r) \/ RequestFails(r) \/ HeadersArrive(r)
         \/ ChunkArrives(r) \/ BodyEnds(r) \/ Abandoned(r)
  PROVE  NetInv'
<1>1. /\ answer[r] \in AnswerType /\ meant[r] \in MeantType
      /\ answer = [answer EXCEPT ![r] = answer[r]]
      /\ meant = [meant EXCEPT ![r] = meant[r]]
  BY HttpFacts
<1>2. /\ task[r] # "over" => answer[r].end = "pending"
      /\ task[r] \in {"connecting", "waiting"} => answer[r] = NoAnswer
      /\ task[r] = "body" => Begun(answer[r], meant[r])
      /\ answer[r].end = "complete" => Whole(answer[r], meant[r])
  BY DEF NetInv, EndedIsOver, Underway
<1>3. /\ answer[r].status \in Statuses \cup {0} /\ answer[r].body \in Seq(Chunks)
      /\ meant[r].status \in Statuses \cup {0} /\ meant[r].body \in Seq(Chunks)
  BY <1>1 DEF AnswerType, MeantType
<1>4. CASE Connects(r)
  <2>1. PICK m \in Answers : meant' = [meant EXCEPT ![r] = m]
    BY <1>4 DEF Connects
  <2>2. m \in MeantType
    <3>1. ASSUME NEW body \in Bodies PROVE body \in Seq(Chunks)
      BY <3>1, HttpAssumption DEF Bodies
    <3> QED BY <2>1, <3>1 DEF Answers, MeantType
  <2>3. NoAnswer.end = "pending"
    BY DEF NoAnswer
  <2> QED BY <1>1, <1>2, <1>4, <2>1, <2>2, <2>3, TaskStep DEF Connects, Driven
<1>5. ASSUME NEW end \in {"failed", "cut", "complete"}, current # 0,
             task[r] \notin {"none", "over"}, Tasks(r, "over"),
             PassLast(r, end), meant' = meant,
             end = "complete" => Whole(answer[r], meant[r])
      PROVE  NetInv'
  <2> DEFINE a == [answer[r] EXCEPT !.end = end]
  <2>1. /\ a \in AnswerType /\ a.end = end
        /\ a.status = answer[r].status /\ a.body = answer[r].body
    BY <1>1 DEF AnswerType
  <2>2. /\ answer' = [answer EXCEPT ![r] = a]
        /\ inTime' = inTime \cup {q \in {r} : r = current /\ (limit = 0 \/ now < limit)}
    BY <1>5 DEF PassLast, Pass
  <2> HIDE DEF a
  <2>3. a.end = "complete" => Whole(a, meant[r])
    BY <1>5, <2>1 DEF Whole, Begun
  <2> QED BY <1>1, <1>5, <2>1, <2>2, <2>3, TaskStep
<1>6. CASE RequestFails(r)
  BY <1>5, <1>6 DEF RequestFails, Driven
<1>7. CASE HeadersArrive(r)
  <2> DEFINE a == [answer[r] EXCEPT !.status = meant[r].status]
  <2>1. answer' = [answer EXCEPT ![r] = a] /\ answer[r] = NoAnswer
    BY <1>2, <1>7 DEF HeadersArrive, Driven, Pass
  <2>2. /\ a \in AnswerType /\ a.status = meant[r].status
        /\ a.body = answer[r].body /\ a.end = answer[r].end
    BY <1>1, <1>3 DEF AnswerType
  <2>4. answer[r].body = <<>> /\ answer[r].end = "pending"
    BY <2>1 DEF NoAnswer
  <2> HIDE DEF a
  <2>3. Begun(a, meant[r])
    BY <1>3, <2>2, <2>4, PrefixStarts DEF Begun
  <2> QED BY <1>1, <1>7, <2>1, <2>2, <2>3, <2>4, TaskStep DEF HeadersArrive, Driven
<1>8. CASE ChunkArrives(r)
  <2> DEFINE more == Append(answer[r].body, meant[r].body[Len(answer[r].body) + 1])
             a    == [answer[r] EXCEPT !.body = more]
  <2>1. Len(answer[r].body) < Len(meant[r].body) /\ task[r] = "body" /\ current # 0
    BY <1>8 DEF ChunkArrives, Driven
  <2>2. answer' = [answer EXCEPT ![r] = a] /\ inTime' = inTime /\ meant' = meant /\ Tasks(r, "body")
    BY <1>8 DEF ChunkArrives, Pass
  <2>3. IsPrefix(answer[r].body, meant[r].body) /\ answer[r].status = meant[r].status
    BY <1>2, <2>1 DEF Begun
  <2>4. more \in Seq(Chunks) /\ IsPrefix(more, meant[r].body)
    BY <1>3, <2>1, <2>3, PrefixGrows
  <2> HIDE DEF more
  <2>5. /\ a \in AnswerType /\ a.status = answer[r].status /\ a.body = more
        /\ a.end = answer[r].end
    BY <1>1, <2>4 DEF AnswerType
  <2> HIDE DEF a
  <2>6. Begun(a, meant[r]) /\ a.end = "pending"
    BY <1>2, <2>1, <2>3, <2>4, <2>5 DEF Begun
  <2> QED BY <1>1, <2>1, <2>2, <2>5, <2>6, TaskStep
<1>9. CASE BodyEnds(r)
  <2>1. PICK end \in BodyEnd(r) : PassLast(r, end)
    BY <1>9 DEF BodyEnds
  <2>2. /\ end \in {"complete", "cut"}
        /\ end = "complete" => (meant[r].framed => answer[r].body = meant[r].body)
    BY <2>1 DEF BodyEnd
  <2>3. task[r] = "body" /\ current # 0 /\ Tasks(r, "over") /\ meant' = meant
    BY <1>9 DEF BodyEnds, Driven
  <2>4. end = "complete" => Whole(answer[r], meant[r])
    BY <1>2, <2>2, <2>3 DEF Whole
  <2> QED BY <1>5, <2>1, <2>2, <2>3, <2>4
<1>10. CASE Abandoned(r)
  BY <1>1, <1>2, <1>10, TaskStep DEF Abandoned
<1> QED BY <1>4, <1>6, <1>7, <1>8, <1>9, <1>10

(* The call returns: with the answer of its own task, with a 500 made from its
   error, or with a 408.                                                      *)
LEMMA RespondStep ==
  ASSUME NetInv, current # 0, current' = 0,
         ret' \in Responses, ret'.req = current,
         UNCHANGED <<last, limit, now, fired, task, answer, meant, inTime, aborted>>,
         ret'.why = "server" =>
           /\ answer[current].end = "complete"
           /\ ret'.body = answer[current].body /\ ret'.status = answer[current].status,
         ret'.why = "RequestTimeout" =>
           limit > 0 /\ now >= limit /\ answer[current].end = "pending"
  PROVE  NetInv'
<1>1. current \in Requests /\ current = last
  BY HttpFacts
<1>2. /\ last' = last /\ limit' = limit /\ now' = now /\ fired' = fired
      /\ task' = task /\ answer' = answer /\ meant' = meant /\ inTime' = inTime
  OBVIOUS
<1>3. HttpTypes'
  <2>1. ret'.status \in Statuses \cup {0, 408, 500}
    BY <1>2 DEF Responses
  <2>2. TypeOK'
    BY <1>1, <1>2, <2>1 DEF NetInv, HttpTypes, TypeOK
  <2> QED BY <1>2, <2>2 DEF NetInv, HttpTypes
<1>4. NothingFromTheFuture'
  <2>1. last <= last
    BY HttpFacts
  <2> QED BY <1>1, <1>2, <2>1 DEF NetInv, NothingFromTheFuture
<1>5. Underway' /\ EndedIsOver'
  BY <1>2 DEF NetInv, Underway, EndedIsOver
<1>6. ServerAnswerIsWhole'
  <2> SUFFICES ASSUME ret'.why = "server"
               PROVE  task[current] = "over" /\ Whole(ret', meant[current])
    BY <1>2, ServerWillBe
  <2>1. task[current] = "over" /\ Whole(answer[current], meant[current])
    BY <1>1 DEF NetInv, EndedIsOver
  <2> QED BY <2>1 DEF Whole, Begun
<1>7. TimeoutStands'
  <2>1. TimeoutDropsNoAnswer'
    BY <1>1, <1>2 DEF NetInv, TimeoutStands, TimeoutDropsNoAnswer
  <2> QED BY <2>1, <1>2 DEF NetInv, TimeoutStands
<1> QED BY <1>3, <1>4, <1>5, <1>6, <1>7 DEF NetInv

LEMMA CurrentInRange == ASSUME NetInv, current # 0 PROVE current \in 0..MaxRequests
<1>1. current \in Nat /\ current <= MaxRequests /\ MaxRequests \in Nat
  BY HttpFacts
<1> QED BY <1>1

LEMMA AnswerStep ==
  ASSUME NetInv, current # 0, Ready, async_send_request,
         UNCHANGED <<last, limit, now, fired, task, answer, meant, inTime, aborted>>
  PROVE  NetInv'
<1> DEFINE a == answer[current]
<1>1. current # 0 /\ a \in AnswerType /\ a.end # "pending"
  BY HttpFacts DEF Ready
<1>2. a.end \in {"complete", "failed", "cut"} /\ a.status \in Statuses \cup {0, 408, 500} /\ a.body \in Seq(Chunks)
  BY <1>1 DEF AnswerType
<1>4. CASE a.end = "complete"
  <2>1. current' = 0 /\ ret' = [req |-> current, status |-> a.status, body |-> a.body, why |-> "server"]
    BY <1>4, Zenon DEF async_send_request, Respond
  <2>2. "server" \in Reasons
    BY DEF Reasons
  <2>3. /\ current' = 0 /\ ret' \in Responses /\ ret'.req = current
        /\ ret'.body = a.body /\ ret'.status = a.status /\ ret'.why = "server"
    <3>1. current \in 0..MaxRequests
      BY <1>1, CurrentInRange
    <3> QED BY <1>2, <2>1, <2>2, <3>1 DEF Responses
  <2> QED BY <1>1, <1>4, <2>3, RespondStep
<1>5. CASE a.end # "complete"
  <2>1. \E why \in {"client error", "Bad Body"} :
          current' = 0 /\ ret' = [req |-> current, status |-> 500, body |-> <<>>, why |-> why]
    BY <1>2, <1>5, ZenonT(40) DEF async_send_request, Respond
  <2>2. {"client error", "Bad Body"} \subseteq Reasons \ {"server", "RequestTimeout"}
    BY Zenon DEF Reasons
  <2>3. PICK why \in Reasons \ {"server", "RequestTimeout"} :
          current' = 0 /\ ret' = [req |-> current, status |-> 500, body |-> <<>>, why |-> why]
    BY <2>1, <2>2, ZenonT(40)
  <2>4. <<>> \in Seq(Chunks) /\ 500 \in Statuses \cup {0, 408, 500}
    OBVIOUS
  <2>5. current' = 0 /\ ret' \in Responses /\ ret'.req = current /\ ret'.why = why
    <3>1. current \in 0..MaxRequests
      BY <1>1, CurrentInRange
    <3> QED BY <2>3, <2>4, <3>1 DEF Responses
  <2> QED BY <1>1, <2>5, RespondStep
<1> QED BY <1>4, <1>5

LEMMA TimeoutStep ==
  ASSUME NetInv, current # 0, ~Ready, fired, TimesOut,
         UNCHANGED <<last, limit, now, fired, task, answer, meant, inTime, aborted>>
  PROVE  NetInv'
<1>1. answer[current].end = "pending" /\ limit > 0 /\ now >= limit
  BY DEF Ready, NetInv, TimeoutStands
<1>2. current' = 0 /\ ret' = [req |-> current, status |-> 408, body |-> <<>>, why |-> "RequestTimeout"]
  BY DEF TimesOut, TimeoutStatus, Respond
<1>3. <<>> \in Seq(Chunks) /\ "RequestTimeout" \in Reasons /\ 408 \in Statuses \cup {0, 408, 500}
  BY DEF Reasons
<1>4. current' = 0 /\ ret' \in Responses /\ ret'.req = current /\ ret'.why = "RequestTimeout"
  <2>1. current \in 0..MaxRequests
    BY CurrentInRange
  <2> QED BY <1>2, <1>3, <2>1 DEF Responses
<1> QED BY <1>1, <1>2, <1>4, RespondStep

(* Time passes, or the timer goes off. *)
LEMMA ClockStep ==
  ASSUME NetInv, now' \in 0..MaxTime, now' >= now, fired' \in BOOLEAN,
         fired' => limit > 0 /\ now' >= limit,
         UNCHANGED <<current, last, limit, task, answer, meant, inTime, ret, aborted>>
  PROVE  NetInv'
<1>1. HttpTypes'
  BY DEF NetInv, HttpTypes, TypeOK
<1>2. TimeoutStands'
  <2>1. now' \in Nat /\ now \in Nat /\ limit \in Nat
    BY HttpFacts
  <2>2. TimeoutDropsNoAnswer'
    BY <2>1 DEF NetInv, TimeoutStands, TimeoutDropsNoAnswer
  <2> QED BY <2>2 DEF NetInv, TimeoutStands
<1> QED BY <1>1, <1>2 DEF NetInv, NothingFromTheFuture, Underway, EndedIsOver, ServerAnswerIsWhole

LEMMA TickStep == ASSUME NetInv, Tick PROVE NetInv'
<1>1. now' \in 0..MaxTime /\ now' >= now /\ fired' = fired
  BY HttpFacts DEF Tick
<1>2. fired' \in BOOLEAN /\ (fired' => limit > 0 /\ now' >= limit)
  BY <1>1, HttpFacts DEF NetInv, TimeoutStands
<1> QED BY <1>1, <1>2, ClockStep DEF Tick

LEMMA TimerStep == ASSUME NetInv, TimerFires PROVE NetInv'
<1>1. now' \in 0..MaxTime /\ now' >= now /\ fired' \in BOOLEAN /\ limit > 0 /\ now' >= limit
  BY HttpFacts DEF TimerFires, HasTimeout
<1> QED BY <1>1, ClockStep DEF TimerFires

LEMMA HttpStutter == ASSUME NetInv, UNCHANGED vars PROVE NetInv'
BY DEF vars, NetInv, HttpTypes, TypeOK, NothingFromTheFuture, Underway, EndedIsOver,
       ServerAnswerIsWhole, TimeoutStands, TimeoutDropsNoAnswer

-----------------------------------------------------------------------------
(* The inductive invariant holds in every reachable state. *)
THEOREM HttpInvariant == Spec => []NetInv
<1>1. Init => NetInv
  BY HttpStart
<1>2. NetInv /\ [Next]_vars => NetInv'
  <2> SUFFICES ASSUME NetInv, [Next]_vars PROVE NetInv'
    OBVIOUS
  <2>1. ASSUME NEW ms \in TimeLimits, send_request(ms) PROVE NetInv'
    BY <2>1, SendStep
  <2>2. ASSUME NEW r \in Requests,
               \/ Connects(r) \/ RequestFails(r) \/ HeadersArrive(r)
               \/ ChunkArrives(r) \/ BodyEnds(r) \/ Abandoned(r)
        PROVE  NetInv'
    BY <2>2, NetworkStep
  <2>3. CASE block_on
    BY <2>3, AnswerStep, TimeoutStep DEF block_on, ResponseFirst
  <2>4. CASE TimerFires
    BY <2>4, TimerStep
  <2>5. CASE Tick
    BY <2>5, TickStep
  <2>6. CASE UNCHANGED vars
    BY <2>6, HttpStutter
  <2> QED BY <2>1, <2>2, <2>3, <2>4, <2>5, <2>6 DEF Next
<1> QED BY <1>1, <1>2, PTL DEF Spec

(* The variables of Http keep their types. *)
THEOREM HttpTypeCorrect == Spec => []TypeOK
<1>1. NetInv => TypeOK
  BY DEF NetInv, HttpTypes
<1> QED BY <1>1, HttpInvariant, PTL

(* A response that comes from the server carries the status and the body it
   meant for this very request, all of a framed body and a front of any other,
   however many requests timed out before.                                   *)
THEOREM HttpAnswersAreWhole == Spec => []ServerAnswerIsWhole
<1>1. NetInv => ServerAnswerIsWhole
  BY DEF NetInv
<1> QED BY <1>1, HttpInvariant, PTL

(* A timeout takes the place of no answer that was all there in time, however
   late the call is polled, and is reported only once the limit has passed.  *)
THEOREM HttpTimeoutsDropNoAnswer == Spec => []TimeoutDropsNoAnswer
<1>1. NetInv => TimeoutDropsNoAnswer
  BY DEF NetInv, TimeoutStands
<1> QED BY <1>1, HttpInvariant, PTL
=============================================================================
