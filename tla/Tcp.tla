--------------------------------- MODULE Tcp ---------------------------------
(***************************************************************************)
(* TCP connections of the legacy host: connecting and writing (roc_http),  *)
(* on the handles of Handles. tcp_write is a write_all: as many system     *)
(* calls as the send buffer makes it, each of which may take a part, be    *)
(* interrupted, or find the connection dead. The peer reads when it likes, *)
(* also after the program dropped its last value of the stream.            *)
(***************************************************************************)
EXTENDS Handles, Sequences

CONSTANTS Lengths,    \* lengths of the messages the program writes
          SndBuf,     \* bytes the kernel holds for a peer that does not read
          MaxWrites   \* bound on the calls of tcp_write

ASSUME TcpAssumption ==
  /\ Lengths \subseteq Nat /\ SndBuf \in Nat \ {0} /\ MaxWrites \in Nat

VARIABLES op,     \* the tcp_write in progress
          log,    \* log[c]: the c-th tcp_write: its stream, length and end
          peer,   \* peer[r]: whether connection r has a peer: none yet, up or gone
          wire,   \* wire[r]: what the kernel took and the peer has not read
          got     \* got[r]: what the peer has read

tvars == <<op, log, peer, wire, got>>
vars == <<hvars, tvars>>

Idle == [fn |-> "none"]
Byte(c, i) == [call |-> c, pos |-> i]

-----------------------------------------------------------------------------
(* Refused, or connected and boxed; when the heap is full the stream just
   opened is closed again.                                                  *)
tcp_connect ==
  /\ op = Idle
  /\ Fresh
  /\ \/ NotOpened /\ UNCHANGED peer
     \/ AllocFor("tcp", made + 1) /\ peer' = [peer EXCEPT ![made + 1] = "up"]
     \/ AllocFails("tcp") /\ peer' = [peer EXCEPT ![made + 1] = "up"]
  /\ UNCHANGED <<op, log, wire, got>>

tcp_write(r, n) ==
  /\ op = Idle /\ Len(log) < MaxWrites
  /\ held[r].values > 0 /\ held[r].addr.heap = "tcp"
  /\ BoxToResource(r)
  /\ log' = Append(log, [conn |-> r, len |-> n, end |-> "running"])
  /\ op' = [fn |-> "tcp_write", conn |-> at[held[r].addr], call |-> Len(log) + 1,
            len |-> n, done |-> 0]
  /\ UNCHANGED <<peer, wire, got>>

Writing == op.fn = "tcp_write"
Unfinished == Writing /\ op.done < op.len
Room == SndBuf - Len(wire[op.conn])

(* Ends the call with `end` as its result. *)
WriteEnds(end) ==
  /\ log' = [log EXCEPT ![op.call].end = end]
  /\ op' = Idle
  /\ UNCHANGED <<hvars, peer, wire, got>>

(* One system call takes n more bytes of the message. *)
Send(n) == wire' = [wire EXCEPT ![op.conn] = @ \o [i \in 1..n |-> Byte(op.call, op.done + i)]]

WriteWhole ==
  /\ Unfinished /\ peer[op.conn] = "up" /\ op.len - op.done <= Room
  /\ Send(op.len - op.done) /\ op' = [op EXCEPT !.done = op.len]
  /\ UNCHANGED <<hvars, log, peer, got>>
WriteSome ==
  /\ Unfinished /\ peer[op.conn] = "up"
  /\ \E n \in 1..Room :
       n <= op.len - op.done /\ Send(n) /\ op' = [op EXCEPT !.done = @ + n]
  /\ UNCHANGED <<hvars, log, peer, got>>

(* A signal came before any byte was taken: write_all tries again. *)
WriteStartsOver ==
  /\ Unfinished
  /\ op' = [op EXCEPT !.done = 0]
  /\ UNCHANGED <<hvars, log, peer, wire, got>>
WriteInterrupted == Unfinished /\ UNCHANGED vars

WriteFails == Unfinished /\ peer[op.conn] = "gone" /\ WriteEnds("err")
WriteReturns == Writing /\ op.done = op.len /\ WriteEnds("ok")

-----------------------------------------------------------------------------
(* The peer, which may read, or reset or lose the connection: then nothing
   more arrives.                                                             *)
PeerReads(r) ==
  /\ wire[r] # <<>>
  /\ got' = [got EXCEPT ![r] = Append(@, Head(wire[r]))]
  /\ wire' = [wire EXCEPT ![r] = Tail(@)]
  /\ UNCHANGED <<hvars, op, log, peer>>

PeerGoes(r) ==
  /\ peer[r] = "up"
  /\ peer' = [peer EXCEPT ![r] = "gone"]
  /\ wire' = [wire EXCEPT ![r] = <<>>]
  /\ UNCHANGED <<hvars, op, log, got>>

Init ==
  /\ HandlesInit
  /\ op = Idle /\ log = <<>>
  /\ peer = [r \in Ids |-> "none"]
  /\ wire = [r \in Ids |-> <<>>] /\ got = [r \in Ids |-> <<>>]

(* The program is sequential: handles change hands between its calls. *)
Next ==
  \/ op = Idle /\ HandlesNext /\ UNCHANGED tvars
  \/ tcp_connect
  \/ \E r \in Ids : PeerReads(r) \/ PeerGoes(r) \/ \E n \in Lengths : tcp_write(r, n)
  \/ WriteSome \/ WriteInterrupted \/ WriteFails \/ WriteReturns

(* Only the host's own loop is sure to go on; the peer owes nothing. *)
Fairness == WF_vars(WriteSome) /\ WF_vars(WriteFails) /\ WF_vars(WriteReturns)

Spec == Init /\ [][Next]_vars /\ Fairness

-----------------------------------------------------------------------------
(* Type correctness, of the handles too. *)
TypeOK ==
  /\ HandlesTypeOK
  /\ \/ op = Idle
     \/ /\ op \in [fn : {"tcp_write"}, conn : Ids, call : 1..MaxWrites, len : Lengths, done : Nat]
        /\ op.done <= op.len
  /\ log \in Seq([conn : Ids, len : Lengths, end : {"running", "ok", "err"}])
  /\ Len(log) <= MaxWrites
  /\ peer \in [Ids -> {"none", "up", "gone"}]
  /\ \A r \in Ids : Len(wire[r]) <= SndBuf

(* What a peer reads are the messages written to its own connection, in the
   order of the calls, each from its first byte on without gap or repetition;
   a message is followed by another only when its call returned Ok; and as
   long as the connection lives, a message whose call returned Ok is there
   to its last byte, also when the program has dropped the stream since.      *)
Follows(b, a) ==
  IF b.call = a.call THEN b.pos = a.pos + 1
  ELSE b.call > a.call /\ b.pos = 1 /\ a.pos = log[a.call].len /\ log[a.call].end = "ok"

PeerReceivesInOrder ==
  \A r \in Ids :
    LET s == got[r] \o wire[r]
    IN  /\ s # <<>> => s[1].pos = 1
        /\ \A i \in 1..Len(s) : log[s[i].call].conn = r
        /\ \A i \in 2..Len(s) : Follows(s[i], s[i - 1])
        /\ peer[r] = "up" =>
             \A c \in 1..Len(log) :
               log[c].conn = r /\ log[c].end = "ok" /\ log[c].len > 0 =>
                 \E i \in 1..Len(s) : s[i] = Byte(c, log[c].len)

(* tcp_write has no timeout, but it waits for one thing only: a call that
   never returns has a live connection whose send buffer stays full.          *)
WritesOnlyWaitForRoom ==
  <>[]Writing => <>[](Writing /\ peer[op.conn] = "up" /\ Room = 0)
=============================================================================
