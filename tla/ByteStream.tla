----------------------------- MODULE ByteStream -----------------------------
(***************************************************************************)
(* What a program that reads a file, a TCP connection or standard input    *)
(* relies on: the bytes come in the order in which they were sent, every   *)
(* call takes some of them from the front in one go, and which ones it     *)
(* takes depends on the bytes alone, never on how they were cut up on the  *)
(* way. BufferedReader is shown to implement this.                         *)
(***************************************************************************)
EXTENDS Integers, SequencesExt, FiniteSetsExt

CONSTANTS Bytes, NL, Bad,   \* the bytes; newline; one that is not UTF-8
          Counts,           \* the numbers of bytes asked for
          Chunk             \* the most stdin_bytes returns

VARIABLES pending,   \* the bytes sent and not yet taken
          closed,    \* the sender is done
          waits,     \* at the end a call waits for more: a pipe or a socket
          ret        \* the result of the last call

streamVars == <<pending, closed, waits, ret>>

Init ==
  /\ pending = <<>>
  /\ closed = FALSE /\ waits \in BOOLEAN
  /\ ret = [fn |-> "none", tag |-> "Ok", bytes |-> <<>>]

Arrive(b) == ~closed /\ pending' = Append(pending, b) /\ UNCHANGED <<closed, waits, ret>>

Close == closed' = TRUE /\ UNCHANGED <<pending, waits, ret>>

(* The first k bytes are gone; the call returns `bytes` under `tag`. *)
Take(fn, k, tag, bytes) ==
  /\ pending' = SubSeq(pending, k + 1, Len(pending))
  /\ ret' = [fn |-> fn, tag |-> tag, bytes |-> bytes]
  /\ UNCHANGED <<closed, waits>>

First(k) == SubSeq(pending, 1, k)

(* What is pending may be taken for all there is: the sender is done, or this
   is a file or a terminal, whose end is wherever it is when a call gets there. *)
AtEnd == closed \/ ~waits

(* How many bytes reach up to and including the delimiter, or to the end. *)
UpToDelimiter(d) ==
  LET at == {k \in 1..Len(pending) : pending[k] = d}
  IN  IF at # {} THEN {Min(at)} ELSE IF AtEnd THEN {Len(pending)} ELSE {}

Until(d) == \E k \in UpToDelimiter(d) : Take("read_until", k, "Ok", First(k))

Exactly(n) ==
  \/ Len(pending) >= n /\ Take("read_exactly", n, "Ok", First(n))
  \/ AtEnd /\ Len(pending) < n
       /\ Take("read_exactly", Len(pending), "UnexpectedEof", <<>>)

UpTo(fn, n) ==
  \E k \in 0..Len(pending) :
    /\ k <= n
    /\ k = 0 => n = 0 \/ (AtEnd /\ pending = <<>>)
    /\ Take(fn, k, "Ok", First(k))

ToEnd == AtEnd /\ Take("read_to_end", Len(pending), "Ok", pending)

(* A line as text, without its newline; the end of the stream and text that
   is not UTF-8 are errors for one of the two functions and "" for the other. *)
Text(line) == IF line # <<>> /\ Last(line) = NL THEN Front(line) ELSE line
Line(fn) ==
  \E k \in UpToDelimiter(NL) :
    LET bad == \E j \in 1..k : pending[j] = Bad
    IN  CASE fn = "Stdin.line!" -> Take(fn, k, "Ok", IF bad THEN <<>> ELSE Text(First(k)))
          [] fn = "stdin_line" /\ k = 0 -> Take(fn, 0, "EndOfFile", <<>>)
          [] fn = "stdin_line" /\ bad -> Take(fn, k, "Err", <<>>)
          [] OTHER -> Take(fn, k, "Ok", Text(First(k)))

(* The operating system reports an error. What a call had collected is gone,
   except that Stdin.line! returns it; read_up_to and stdin_bytes collect
   nothing first.                                                           *)
Fail ==
  \/ \E fn \in {"read_up_to", "stdin_bytes"} : Take(fn, 0, "Err", <<>>)
  \/ \E fn \in {"read_until", "read_exactly", "read_to_end", "stdin_line"},
        k \in 0..Len(pending) : Take(fn, k, "Err", <<>>)
  \/ \E k \in 0..Len(pending) :
        Take("Stdin.line!", k, "Ok",
             IF \E j \in 1..k : pending[j] = Bad THEN <<>> ELSE First(k))

Next ==
  \/ \E b \in Bytes : Arrive(b)
  \/ Close
  \/ \E d \in Bytes : Until(d)
  \/ \E n \in Counts : Exactly(n) \/ UpTo("read_up_to", n)
  \/ UpTo("stdin_bytes", Chunk)
  \/ ToEnd
  \/ \E fn \in {"Stdin.line!", "stdin_line"} : Line(fn)
  \/ Fail

Spec == Init /\ [][Next]_streamVars
=============================================================================
