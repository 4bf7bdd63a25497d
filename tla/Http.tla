--------------------------------- MODULE Http ---------------------------------
(***************************************************************************)
(* Http.send! (roc_host's send_request and async_send_request, roc_http):  *)
(* one request after the other, each with a client of its own, on a        *)
(* single-threaded runtime that outlives them. What the client starts for  *)
(* a request, its connection task, runs on that runtime, so only while     *)
(* some send_request is blocking in it; a request that timed out leaves    *)
(* its task behind.                                                        *)
(***************************************************************************)
EXTENDS Integers, SequencesExt

CONSTANTS MaxRequests,  \* bound on the requests of a run
          TimeLimits,   \* timeout_ms of a request; 0 is no limit
          MaxTime,      \* bound on the clock of one call
          Statuses,     \* what servers answer
          Chunks,       \* pieces of a body
          MaxChunks     \* bound on the pieces of one body

ASSUME HttpAssumption ==
  /\ MaxRequests \in Nat /\ TimeLimits \subseteq Nat
  /\ MaxTime \in Nat /\ \A ms \in TimeLimits : ms < MaxTime
  /\ Statuses \subseteq 100..999 /\ MaxChunks \in Nat

Requests == 1..MaxRequests

VARIABLES current,   \* the request send_request is blocking on, 0 if none
          last,      \* the last request begun
          limit,     \* its timeout_ms
          now,       \* time since it began
          fired,     \* the timer of its limit went off
          task,      \* task[r]: how far the connection of request r is
          answer,    \* answer[r]: what the task passed to the call
          meant,     \* history: what the server meant to answer to r
          inTime,    \* history: those answered while there was time left
          ret,       \* the last response given to the program
          aborted

vars == <<current, last, limit, now, fired, task, answer, meant, inTime, ret, aborted>>

NoAnswer == [status |-> 0, body |-> <<>>, end |-> "pending"]

(* What a server may mean to answer. A framed body announces its length or
   comes in HTTP chunks; one that is not ends where the connection ends.     *)
Bodies == UNION {[1..n -> Chunks] : n \in 0..MaxChunks}
Answers == [status : Statuses, body : Bodies, framed : BOOLEAN]
Nothing == [status |-> 0, body |-> <<>>, framed |-> TRUE]

Init ==
  /\ current = 0 /\ last = 0 /\ limit = 0 /\ now = 0 /\ fired = FALSE
  /\ task = [r \in Requests |-> "none"]
  /\ answer = [r \in Requests |-> NoAnswer]
  /\ meant = [r \in Requests |-> Nothing]
  /\ inTime = {}
  /\ ret = [req |-> 0, status |-> 0, body |-> <<>>, why |-> "none"]
  /\ aborted = FALSE

Respond(r, status, body, why) ==
  /\ ret' = [req |-> r, status |-> status, body |-> body, why |-> why]
  /\ current' = 0

-----------------------------------------------------------------------------
(* send_request. What is tried first may already end it: hyper knows no such
   method, refuses the URI or a header, or finds no root certificates.       *)
Begin(ms) ==
  /\ current = 0 /\ ~aborted /\ last < MaxRequests
  /\ last' = last + 1 /\ limit' = ms /\ now' = 0 /\ fired' = FALSE

UnknownMethod == aborted' = TRUE /\ UNCHANGED <<current, task, ret>>
Refused == Respond(last + 1, 500, <<>>, "refused") /\ UNCHANGED <<task, aborted>>
NoRoots == Respond(last + 1, 500, <<>>, "no root certificates") /\ UNCHANGED <<task, aborted>>
Started ==
  /\ current' = last + 1
  /\ task' = [task EXCEPT ![last + 1] = "connecting"]
  /\ UNCHANGED <<ret, aborted>>

send_request(ms) ==
  /\ Begin(ms)
  /\ UnknownMethod \/ Refused \/ NoRoots \/ Started
  /\ UNCHANGED <<answer, meant, inTime>>

-----------------------------------------------------------------------------
(* The connection tasks, hyper's and the network's doing. Those of earlier
   requests go on, too, as long as somebody drives the runtime.              *)
Driven(r, state) == current # 0 /\ task[r] = state
Tasks(r, state) ==
  /\ task' = [task EXCEPT ![r] = state]
  /\ UNCHANGED <<current, last, limit, now, fired, ret, aborted>>

(* A task hands what it has to the call that made it. *)
ToLatest(r, a) == answer' = [answer EXCEPT ![last] = a]
Pass(r, a) == answer' = [answer EXCEPT ![r] = a]

(* The last thing it hands over, which may be while the call has time left. *)
PassLast(r, end) ==
  /\ Pass(r, [answer[r] EXCEPT !.end = end])
  /\ inTime' = inTime \cup {q \in {r} : r = current /\ (limit = 0 \/ now < limit)}

Connects(r) ==
  /\ Driven(r, "connecting")
  /\ Tasks(r, "waiting")
  /\ \E a \in Answers : meant' = [meant EXCEPT ![r] = a]
  /\ UNCHANGED <<answer, inTime>>

(* Refused, lost before the headers, or not HTTP at all. *)
RequestFails(r) ==
  /\ Driven(r, "connecting") \/ Driven(r, "waiting")
  /\ Tasks(r, "over")
  /\ PassLast(r, "failed")
  /\ UNCHANGED meant

HeadersArrive(r) ==
  /\ Driven(r, "waiting")
  /\ Tasks(r, "body")
  /\ Pass(r, [answer[r] EXCEPT !.status = meant[r].status])
  /\ UNCHANGED <<meant, inTime>>

ChunkArrives(r) ==
  /\ Driven(r, "body")
  /\ Len(answer[r].body) < Len(meant[r].body)
  /\ Tasks(r, "body")
  /\ Pass(r, [answer[r] EXCEPT
                !.body = Append(@, meant[r].body[Len(answer[r].body) + 1])])
  /\ UNCHANGED <<meant, inTime>>

(* The body ends, or the connection is lost in the middle of it. A reset shows
   in either case; but when the connection just ends, hyper knows whether a
   framed body is all there, and takes one that is not framed to be.         *)
BodyEnd(r) ==
  IF meant[r].framed /\ answer[r].body # meant[r].body THEN {"cut"} ELSE {"complete", "cut"}
BodyEnds(r) ==
  /\ Driven(r, "body")
  /\ Tasks(r, "over")
  /\ \E end \in BodyEnd(r) : PassLast(r, end)
  /\ UNCHANGED meant

(* A task whose call has given up closes its connection when it runs. *)
Abandoned(r) ==
  /\ r # current /\ current # 0 /\ task[r] \notin {"none", "over"}
  /\ Tasks(r, "over")
  /\ UNCHANGED <<answer, meant, inTime>>

-----------------------------------------------------------------------------
(* async_send_request: the response once the body is complete; an error of
   the client or of the body becomes a 500.                                  *)
Ready == answer[current].end # "pending"

async_send_request ==
  LET a == answer[current]
  IN  CASE a.end = "complete" -> Respond(current, a.status, a.body, "server")
        [] a.end = "failed"   -> Respond(current, 500, <<>>, "client error")
        [] a.end = "cut"      -> Respond(current, 500, <<>>, "Bad Body")

GatewayTimeout == 504
TimeoutStatus == 408

TimesOut == Respond(current, TimeoutStatus, <<>>, "RequestTimeout")

(* What block_on polls: tokio::time::timeout around all of async_send_request
   asks for the response first, and for its timer only without one. By then
   either may have been there for a while. Without a limit no timer fires.   *)
TimerFirst == IF fired THEN TimesOut ELSE Ready /\ async_send_request
ResponseFirst == IF Ready THEN async_send_request ELSE fired /\ TimesOut

block_on ==
  /\ current # 0
  /\ ResponseFirst
  /\ UNCHANGED <<last, limit, now, fired, task, answer, meant, inTime, aborted>>

LimitForHeadersOnly == limit > 0 /\ task[current] # "body"
HasTimeout == limit > 0

(* The runtime gets to its timers some time after they are due. *)
TimerFires ==
  /\ current # 0 /\ ~fired /\ HasTimeout /\ now >= limit
  /\ fired' = TRUE
  /\ UNCHANGED <<current, last, limit, now, task, answer, meant, inTime, ret, aborted>>

Tick ==
  /\ current # 0 /\ now < MaxTime
  /\ now' = now + 1
  /\ UNCHANGED <<current, last, limit, fired, task, answer, meant, inTime, ret, aborted>>

Next ==
  \/ \E ms \in TimeLimits : send_request(ms)
  \/ \E r \in Requests : \/ Connects(r) \/ RequestFails(r) \/ HeadersArrive(r)
                         \/ ChunkArrives(r) \/ BodyEnds(r) \/ Abandoned(r)
  \/ block_on \/ TimerFires \/ Tick

(* Time passes, the runtime gets to its timers and polls what it was woken for;
   the network owes nothing.                                                 *)
Fairness == WF_vars(Tick) /\ WF_vars(TimerFires) /\ WF_vars(block_on)

Spec == Init /\ [][Next]_vars /\ Fairness

-----------------------------------------------------------------------------
(* Type correctness. *)
TypeOK ==
  /\ current \in {0, last} /\ last \in 0..MaxRequests
  /\ limit \in TimeLimits \cup {0} /\ now \in 0..MaxTime /\ fired \in BOOLEAN
  /\ inTime \subseteq Requests
  /\ task \in [Requests -> {"none", "connecting", "waiting", "body", "over"}]
  /\ \A r \in Requests : /\ answer[r].status \in Statuses \cup {0}
                         /\ answer[r].body \in Seq(Chunks)
                         /\ answer[r].end \in {"pending", "failed", "cut", "complete"}
  /\ ret.status \in Statuses \cup {0, 408, 500}

(* A response that comes from the server is what it meant to answer to this
   very request, never the late answer to an earlier one that timed out: its
   status and its body from the front, all of it when the body is framed. (One
   that is not framed and was cut by a lost connection cannot be told from a
   whole one.)                                                               *)
ServerAnswerIsWhole ==
  ret.why = "server" =>
    LET a == meant[ret.req]
    IN  /\ task[ret.req] = "over"
        /\ ret.status = a.status
        /\ IsPrefix(ret.body, a.body)
        /\ a.framed => ret.body = a.body

(* "RequestTimeout" takes the place of no answer that was all there in time:
   however late the call is polled, and whether its timer has fired by then or
   not, such an answer is what the program gets. It is only ever reported once
   the limit has passed.                                                     *)
TimeoutDropsNoAnswer ==
  ret.why = "RequestTimeout" =>
    /\ ret.req \notin inTime
    /\ ret.req = last => limit > 0 /\ now >= limit

(* A request with a limit returns, however long the server keeps it waiting
   for a connection, for headers or in the middle of a body.                  *)
LimitedRequestsReturn == current # 0 /\ limit > 0 ~> current = 0
=============================================================================
