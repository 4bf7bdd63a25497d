---------------------------- MODULE BufferedReader ----------------------------
(***************************************************************************)
(* Reading through a BufReader: file readers (roc_file), TCP connections   *)
(* (roc_http) and standard input (src/src/lib.rs, roc_stdio). One stream,  *)
(* with one call at a time, while its sender goes on. A call loops over    *)
(* fill_buf and consume; every system call may deliver any part of what    *)
(* has arrived, be interrupted by a signal, or fail.                       *)
(***************************************************************************)
EXTENDS Integers, SequencesExt, FiniteSetsExt

CONSTANTS Bytes, NL, Bad,  \* the bytes; newline; one that is not UTF-8
          Counts,          \* the numbers of bytes asked for
          Capacity,        \* of the BufReader
          Chunk,           \* the most stdin_bytes returns
          MaxBytes,        \* bound on what the sender sends
          MaxSignals,      \* bound on interrupted system calls
          MaxCalls         \* bound on the program's calls

ASSUME ReaderAssumption ==
  /\ {NL, Bad} \subseteq Bytes
  /\ Counts \subseteq Nat
  /\ Capacity \in Nat \ {0} /\ Chunk \in Nat /\ Chunk >= Capacity
  /\ MaxBytes \in Nat /\ MaxSignals \in Nat /\ MaxCalls \in Nat

VARIABLES incoming,  \* arrived in the operating system, not read yet
          closed,    \* the sender is done
          waits,     \* a read at the end waits for more: a pipe or a socket
          buf,       \* the part of the BufReader's buffer not consumed yet
          op,        \* the call in progress, with what it has collected
          ret,       \* the result of the last call
          sent, signals, calls

vars == <<incoming, closed, waits, buf, op, ret, sent, signals, calls>>

Idle == [fn |-> "none", delim |-> NL, n |-> 0, acc |-> <<>>]

Init ==
  /\ incoming = <<>> /\ closed = FALSE /\ waits \in BOOLEAN
  /\ buf = <<>>
  /\ op = Idle
  /\ ret = [fn |-> "none", tag |-> "Ok", bytes |-> <<>>]
  /\ sent = 0 /\ signals = 0 /\ calls = 0

SenderSends(b) ==
  /\ ~closed /\ sent < MaxBytes
  /\ incoming' = Append(incoming, b)
  /\ sent' = sent + 1
  /\ UNCHANGED <<closed, waits, buf, op, ret, signals, calls>>

SenderCloses ==
  /\ ~closed
  /\ closed' = TRUE
  /\ UNCHANGED <<incoming, waits, buf, op, ret, sent, signals, calls>>

-----------------------------------------------------------------------------
(* BufReader::fill_buf: what is buffered, or else one read system call. With
   nothing there, a pipe or a socket blocks until there is something or the
   sender is done. A regular file never blocks: it gives 0 bytes at its current
   end, though another program may still append to it; and a terminal gives 0
   bytes for an end of input typed there, though more may be typed later.    *)
DropFirst(s, k) == SubSeq(s, k + 1, Len(s))

AtEnd == closed \/ ~waits
GivesNothing == AtEnd /\ incoming = <<>>

FillOverCapacity ==
  IF buf # <<>> THEN {<<buf, incoming>>}
  ELSE {<<SubSeq(incoming, 1, k), DropFirst(incoming, k)>> : k \in 1..Len(incoming)}
       \cup (IF GivesNothing THEN {<<buf, incoming>>} ELSE {})
FillBuf ==
  IF buf # <<>> THEN {<<buf, incoming>>}
  ELSE {<<SubSeq(incoming, 1, k), DropFirst(incoming, k)>> :
          k \in 1..Min({Capacity, Len(incoming)})}
       \cup (IF GivesNothing THEN {<<buf, incoming>>} ELSE {})

(* Consume `used` bytes of what fill_buf showed. *)
Consume(filled, used) ==
  /\ buf' = DropFirst(filled[1], used)
  /\ incoming' = filled[2]

Return(tag, bytes) ==
  /\ ret' = [fn |-> op.fn, tag |-> tag, bytes |-> bytes]
  /\ op' = Idle

Begin(fn, delim, n) ==
  /\ op = Idle /\ calls < MaxCalls
  /\ calls' = calls + 1
  /\ op' = [fn |-> fn, delim |-> delim, n |-> n, acc |-> <<>>]
  /\ UNCHANGED <<incoming, closed, waits, buf, ret, sent, signals>>

file_read_line == Begin("read_until", NL, 0)
tcp_read_until(d) == waits /\ Begin("read_until", d, 0)
tcp_read_exactly(n) == waits /\ Begin("read_exactly", NL, n)
tcp_read_up_to(n) == waits /\ Begin("read_up_to", NL, n)
stdin_read_to_end == Begin("read_to_end", NL, MaxBytes + 1)
stdin_bytes == Begin("stdin_bytes", NL, Chunk)
stdin_line == Begin("stdin_line", NL, 0)
hosted_stdin_line == Begin("Stdin.line!", NL, 0)

-----------------------------------------------------------------------------
(* read_until, also under read_line and lines: one round of its loop.       *)

Trim(line) == IF line # <<>> /\ Last(line) = NL THEN Front(line) ELSE line

(* What the caller makes of the bytes read_until collected. *)
Collected(line) ==
  CASE op.fn = "read_until"                        -> Return("Ok", line)
    [] op.fn = "stdin_line" /\ line = <<>>          -> Return("EndOfFile", <<>>)
    [] op.fn = "stdin_line" /\ Contains(line, Bad)  -> Return("Err", <<>>)
    [] op.fn = "Stdin.line!" /\ Contains(line, Bad) -> Return("Ok", <<>>)
    [] OTHER                                        -> Return("Ok", Trim(line))

LineCalls == {"read_until", "stdin_line", "Stdin.line!"}

(* memchr: where the delimiter is in `available`, 0 if nowhere.             *)
Find(available, delim) == SelectInSeq(available, LAMBDA b : b = delim)

ReadUntilOkIgnoringEof ==
  \E filled \in FillBuf :
    LET i    == Find(filled[1], op.delim)
        used == IF i # 0 THEN i ELSE Len(filled[1])
        line == op.acc \o SubSeq(filled[1], 1, used)
    IN  /\ Consume(filled, used)
        /\ IF i # 0 THEN Collected(line)
                    ELSE op' = [op EXCEPT !.acc = line] /\ UNCHANGED ret
ReadUntilOkWholeBuffer ==
  \E filled \in FillBuf :
    LET i    == Find(filled[1], op.delim)
        line == op.acc \o filled[1]
    IN  /\ Consume(filled, Len(filled[1]))
        /\ IF i # 0 \/ filled[1] = <<>> THEN Collected(line)
             ELSE op' = [op EXCEPT !.acc = line] /\ UNCHANGED ret
ReadUntilOk ==
  \E filled \in FillBuf :
    LET i    == Find(filled[1], op.delim)
        used == IF i # 0 THEN i ELSE Len(filled[1])
        line == op.acc \o SubSeq(filled[1], 1, used)
    IN  /\ Consume(filled, used)
        /\ IF i # 0 \/ used = 0 THEN Collected(line)
             ELSE op' = [op EXCEPT !.acc = line] /\ UNCHANGED ret

read_until ==
  /\ op.fn \in LineCalls
  /\ ReadUntilOk
  /\ UNCHANGED <<closed, waits, sent, signals, calls>>

-----------------------------------------------------------------------------
(* read_to_end over take(n): reads until n bytes are there or the end.      *)

Complete(got) ==
  IF op.fn = "read_exactly" /\ Len(got) < op.n THEN Return("UnexpectedEof", <<>>)
                                               ELSE Return("Ok", got)

ReadToEndOk ==
  \E filled \in FillBuf :
    LET left == Min({op.n - Len(op.acc), Len(filled[1])})
    IN  \E k \in Min({1, left})..left :
          LET got == op.acc \o SubSeq(filled[1], 1, k)
          IN  /\ Consume(filled, k)
              /\ IF k = 0 THEN Complete(got)
                          ELSE op' = [op EXCEPT !.acc = got] /\ UNCHANGED ret

read_to_end ==
  /\ op.fn \in {"read_exactly", "read_to_end"}
  /\ IF Len(op.acc) = op.n THEN Complete(op.acc) /\ UNCHANGED <<incoming, buf>>
                           ELSE ReadToEndOk
  /\ UNCHANGED <<closed, waits, sent, signals, calls>>

(* take(n).fill_buf, then consume what it showed; 0 bytes touch nothing.    *)
UpToConsumesAll ==
  \E filled \in FillBuf :
    /\ Consume(filled, Len(filled[1]))
    /\ Return("Ok", SubSeq(filled[1], 1, Min({op.n, Len(filled[1])})))
UpToOk ==
  \E filled \in FillBuf :
    LET k == Min({op.n, Len(filled[1])})
    IN  Consume(filled, k) /\ Return("Ok", SubSeq(filled[1], 1, k))

read_up_to ==
  /\ op.fn = "read_up_to"
  /\ IF op.n = 0 THEN Return("Ok", <<>>) /\ UNCHANGED <<incoming, buf>> ELSE UpToOk
  /\ UNCHANGED <<closed, waits, sent, signals, calls>>

(* One read: what is buffered, or else one system call straight into the
   caller's array, which is larger than the buffer.                         *)
DirectRead ==
  \E k \in 0..Min({Chunk, Len(incoming)}) :
    /\ k = 0 => GivesNothing
    /\ Return("Ok", SubSeq(incoming, 1, k))
    /\ incoming' = DropFirst(incoming, k)

read_bytes ==
  /\ op.fn = "stdin_bytes"
  /\ IF buf # <<>> THEN Return("Ok", buf) /\ UNCHANGED incoming ELSE DirectRead
  /\ buf' = <<>>
  /\ UNCHANGED <<closed, waits, sent, signals, calls>>

-----------------------------------------------------------------------------
(* A call waits in the read system call when its next byte is not buffered. *)
InSystemCall ==
  /\ op # Idle /\ buf = <<>>
  /\ op.fn \notin LineCalls => Len(op.acc) < op.n

(* A signal starts the system call over, and is an error for the two calls
   that do not loop.                                                        *)
Interrupted ==
  /\ InSystemCall /\ signals < MaxSignals
  /\ signals' = signals + 1
  /\ IF op.fn \in {"read_up_to", "stdin_bytes"} THEN Return("Err", <<>>) ELSE UNCHANGED <<op, ret>>
  /\ UNCHANGED <<incoming, closed, waits, buf, sent, calls>>

(* Any other error ends the call; Stdin.line! ignores the error and returns
   the text read so far, the others drop it.                                *)
OsFails ==
  /\ InSystemCall
  /\ IF op.fn = "Stdin.line!" THEN Collected(op.acc) ELSE Return("Err", <<>>)
  /\ UNCHANGED <<incoming, closed, waits, buf, sent, signals, calls>>

Next ==
  \/ \E b \in Bytes : SenderSends(b)
  \/ SenderCloses
  \/ file_read_line \/ stdin_read_to_end \/ stdin_bytes \/ stdin_line \/ hosted_stdin_line
  \/ \E d \in Bytes : tcp_read_until(d)
  \/ \E n \in Counts : tcp_read_exactly(n) \/ tcp_read_up_to(n)
  \/ read_until \/ read_to_end \/ read_up_to \/ read_bytes
  \/ Interrupted \/ OsFails

(* Only the rounds of the host's loops are promised to run, and to run without
   an error coming to their help, while there are bytes for them or none can
   come; the sender need not send, and nobody need type an end of input.     *)
Answerable == buf # <<>> \/ incoming # <<>> \/ closed
Fairness == /\ WF_vars(Answerable /\ read_until) /\ WF_vars(Answerable /\ read_to_end)
            /\ WF_vars(Answerable /\ read_up_to) /\ WF_vars(Answerable /\ read_bytes)

Spec == Init /\ [][Next]_vars /\ Fairness

-----------------------------------------------------------------------------
(* Type correctness. *)
TypeOK ==
  /\ incoming \in Seq(Bytes) /\ buf \in Seq(Bytes) /\ op.acc \in Seq(Bytes)
  /\ Len(buf) <= Capacity
  /\ closed \in BOOLEAN /\ waits \in BOOLEAN
  /\ Len(op.acc) <= MaxBytes
  /\ ret.tag \in {"Ok", "Err", "UnexpectedEof", "EndOfFile"}
  /\ sent \in 0..MaxBytes /\ signals \in 0..MaxSignals /\ calls \in 0..MaxCalls

(* However reads and chunk boundaries fall, each call takes its bytes from
   the front of the stream as if nothing were buffered: none is lost between
   calls, returned twice or out of order, and a line ends at its delimiter.   *)
Stream == INSTANCE ByteStream WITH pending <- op.acc \o buf \o incoming
ImplementsByteStream == Stream!Spec

(* The lines File.read_line! returns have no delimiter inside, and one
   without a delimiter is only returned when nothing more had arrived: on a
   connection or a pipe the stream has ended there for good, on a file or a
   terminal this was its end at that moment. An empty line therefore means the
   end, as the reading loops of programs assume.                             *)
LinesAreWhole ==
  [][op.fn = "read_until" /\ op' = Idle /\ ret'.tag = "Ok" =>
       LET line == ret'.bytes
       IN  /\ \A k \in 1..(Len(line) - 1) : line[k] # op.delim
           /\ line = <<>> \/ Last(line) # op.delim =>
                buf' \o incoming' = <<>> /\ (waits => closed)]_vars

(* Once the sender is done every call in progress returns, whatever it asked
   for and however often it was interrupted: no loop waits for bytes that can
   no longer come.                                                           *)
CallsEndAtEof == closed ~> op = Idle
=============================================================================
