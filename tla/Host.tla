-------------------------------- MODULE Host --------------------------------
(***************************************************************************)
(* One run of a Roc program on the host (src/src/lib.rs): rust_main builds  *)
(* the argument list and calls roc__main_for_host; the program prints       *)
(* through the hosted Stdout/Stderr functions and may trigger the dbg,      *)
(* expect and crash callbacks; its result becomes the exit code.            *)
(*                                                                         *)
(* `main` is exported to C, so Rust's runtime start-up does not run:        *)
(* returning from it flushes nothing, std::process::exit flushes stdout,    *)
(* and a panic aborts (panic = "abort").                                    *)
(***************************************************************************)
EXTENDS Integers, Sequences, SequencesExt

CONSTANTS Texts,      \* printed strings; TRUE stands for a newline character
          ExitCodes,  \* codes a program puts into Err(Exit(code))
          Argvs,      \* command lines: what argv points to, entry by entry
          MaxCalls    \* bound on the callbacks one run makes

NULL == "null"
BadUtf8 == "invalid"
Replaced == "replaced"

ASSUME HostAssumption ==
  /\ \A t \in Texts : t \in Seq(BOOLEAN)
  /\ ExitCodes \subseteq Int
  /\ \A v \in Argvs : Len(v) \in Nat
  /\ MaxCalls \in Nat

VARIABLES args,     \* the List(Str) given to main_for_host!
          argv,     \* the command line of this run
          flag,     \* DEBUG_OR_EXPECT_CALLED
          buf,      \* what stdout's LineWriter holds back
          screen,   \* characters that reached the terminal, both streams
          printed,  \* history: characters the program printed, in program order
          failed,   \* history: some write to stdout or stderr failed
          calls,    \* callbacks made so far
          result,   \* what main! returned, once it has
          ended     \* "no", or how the process ended: "return", "exit", "abort"

vars == <<args, argv, flag, buf, screen, printed, failed, calls, result, ended>>

(* A character, identified by who printed it, in which call and where there. *)
Chars(by, text) ==
  [k \in 1..Len(text) |->
     [by |-> by, call |-> calls, pos |-> k, nl |-> text[k]]]

(* The values of main!: Ok({}), Err(Exit(code)) and any other Err. *)
Results == [kind : {"ok", "other"}, code : {0}] \cup [kind : {"exit"}, code : ExitCodes]
NoResult == [kind |-> "none", code |-> 0]

-----------------------------------------------------------------------------
(* Standard streams. A write outcome is [buf, sent, ok]; a write to the file
   descriptor may fail after any number of characters.                      *)

RawWrite(s, cs) ==
  {[buf  |-> s.buf,
    sent |-> s.sent \o SubSeq(cs, 1, k),
    ok   |-> k = Len(cs)] : k \in 0..Len(cs)}

(* BufWriter::flush_buf keeps what was not written. *)
FlushBuf(s) ==
  {[buf  |-> SubSeq(s.buf, k + 1, Len(s.buf)),
    sent |-> s.sent \o SubSeq(s.buf, 1, k),
    ok   |-> k = Len(s.buf)] : k \in 0..Len(s.buf)}

Append2(s, cs) == [s EXCEPT !.buf = @ \o cs]

LastNewline(cs) ==
  CHOOSE k \in 0..Len(cs) : /\ k > 0 => cs[k].nl
                            /\ \A j \in (k + 1)..Len(cs) : ~cs[j].nl

(* LineWriter::write_all: complete lines go out, the rest stays buffered. *)
LineWrite(s, cs) ==
  LET n     == LastNewline(cs)
      lines == SubSeq(cs, 1, n)
      tail  == SubSeq(cs, n + 1, Len(cs))
      first == IF n = 0
                 THEN IF s.buf # <<>> /\ Last(s.buf).nl THEN FlushBuf(s) ELSE {s}
                 ELSE IF s.buf = <<>> THEN RawWrite(s, lines)
                                      ELSE FlushBuf(Append2(s, lines))
  IN  {IF s1.ok THEN Append2(s1, tail) ELSE s1 : s1 \in first}

Fresh == [buf |-> buf, sent |-> <<>>, ok |-> TRUE]

(* writeln!: the text, then its newline, up to the first failure. *)
Writeln(cs) ==
  UNION {IF s.ok THEN LineWrite(s, <<Last(cs)>>) ELSE {s} :
           s \in LineWrite(Fresh, Front(cs))}

(* The state after a stdout operation that ended as `s`. *)
StdoutIs(s, cs) ==
  /\ buf' = s.buf
  /\ screen' = screen \o s.sent
  /\ printed' = printed \o cs
  /\ failed' = (failed \/ ~s.ok)

StderrIs(s, cs) ==
  /\ screen' = screen \o s.sent
  /\ printed' = printed \o cs
  /\ failed' = (failed \/ ~s.ok)
  /\ UNCHANGED buf

-----------------------------------------------------------------------------
(* build_args_list stops at argc or at the first null entry and converts
   every entry lossily.                                                     *)
Lossy(a) == IF a = BadUtf8 THEN Replaced ELSE a
ArgsPastNull(v) == [k \in 1..Len(v) |-> Lossy(v[k])]
BuildArgsList(v) ==
  LET nulls == {k \in 1..Len(v) : v[k] = NULL}
      n     == IF nulls = {} THEN Len(v) ELSE Min(nulls) - 1
  IN  [k \in 1..n |-> Lossy(v[k])]

RunInit ==
  /\ argv \in Argvs
  /\ flag = FALSE
  /\ buf = <<>>
  /\ screen = <<>>
  /\ printed = <<>>
  /\ failed = FALSE
  /\ calls = 0
  /\ result = NoResult
  /\ ended = "no"

Init == RunInit /\ args = BuildArgsList(argv)

Running == ended = "no" /\ result = NoResult /\ calls < MaxCalls
Returned == UNCHANGED <<args, argv, result, ended>> /\ calls' = calls + 1

hosted_stdout_line(t) ==
  LET cs == Chars("stdout", t \o <<TRUE>>)
  IN  /\ Running
      /\ \E s \in Writeln(cs) : StdoutIs(s, cs)
      /\ UNCHANGED flag
      /\ Returned

(* The flush runs whether or not the write succeeded. *)
StdoutWriteNoFlush(t) ==
  LET cs == Chars("stdout", t)
  IN  /\ Running
      /\ \E s \in LineWrite(Fresh, cs) : StdoutIs(s, cs)
      /\ UNCHANGED flag
      /\ Returned
StdoutWriteUnbuffered(t) ==
  LET cs == Chars("stdout", t)
  IN  /\ Running
      /\ \E s \in RawWrite(Fresh, cs) : StdoutIs(s, cs)
      /\ UNCHANGED flag
      /\ Returned
hosted_stdout_write(t) ==
  LET cs == Chars("stdout", t)
  IN  /\ Running
      /\ \E s1 \in LineWrite(Fresh, cs) : \E s2 \in FlushBuf(s1) :
            StdoutIs([s2 EXCEPT !.ok = s1.ok /\ s2.ok], cs)
      /\ UNCHANGED flag
      /\ Returned

hosted_stderr_line(t) ==
  LET cs == Chars("stderr", t \o <<TRUE>>)
  IN  /\ Running
      /\ \E s \in RawWrite(Fresh, cs) : StderrIs(s, cs)
      /\ UNCHANGED flag
      /\ Returned

hosted_stderr_write(t) ==
  LET cs == Chars("stderr", t)
  IN  /\ Running
      /\ \E s \in RawWrite(Fresh, cs) : StderrIs(s, cs)
      /\ UNCHANGED flag
      /\ Returned

(* A command run with inherited streams prints to the same terminal. *)
ChildPrints(t) ==
  LET cs == Chars("child", t)
  IN  /\ Running
      /\ screen' = screen \o cs
      /\ printed' = printed \o cs
      /\ UNCHANGED <<flag, buf, failed>>
      /\ Returned

(* eprintln! panics when stderr cannot be written, and a panic aborts.       *)
Eprintln(by, t, after) ==
  LET cs == Chars(by, t \o <<TRUE>>)
  IN  \E s \in RawWrite(Fresh, cs) :
        /\ StderrIs(s, cs)
        /\ ended' = IF s.ok THEN after ELSE "abort"

roc_dbg_fn(t) ==
  /\ Running
  /\ flag' = TRUE
  /\ Eprintln("dbg", t, "no")
  /\ calls' = calls + 1
  /\ UNCHANGED <<args, argv, result>>

ExpectNotRecorded(t) ==
  /\ Running
  /\ Eprintln("expect", t, "no")
  /\ calls' = calls + 1
  /\ UNCHANGED <<args, argv, flag, result>>
roc_expect_failed_fn(t) ==
  /\ Running
  /\ flag' = TRUE
  /\ Eprintln("expect", t, "no")
  /\ calls' = calls + 1
  /\ UNCHANGED <<args, argv, result>>

(* A last message on stderr, then std::process::exit(1), which flushes stdout
   on its way out.                                                           *)
ReportAndExit(cs) ==
  \E s \in RawWrite(Fresh, cs) :
    IF s.ok
      THEN \E s2 \in FlushBuf(s) : StdoutIs(s2, cs) /\ ended' = "exit"
      ELSE StderrIs(s, cs) /\ ended' = "abort"

roc_crashed_fn(t) ==
  /\ Running
  /\ ReportAndExit(Chars("crash", t \o <<TRUE>>))
  /\ calls' = calls + 1
  /\ UNCHANGED <<args, argv, flag, result>>

(* Utc.now! panics on a clock before 1970. *)
hosted_utc_now(beforeEpoch) ==
  /\ Running
  /\ ended' = IF beforeEpoch THEN "abort" ELSE "no"
  /\ calls' = calls + 1
  /\ UNCHANGED <<args, argv, flag, buf, screen, printed, failed, result>>

-----------------------------------------------------------------------------
(* main_for_host!: an error other than Exit is reported on stderr first. *)
MainReturns(r) ==
  /\ ended = "no" /\ result = NoResult
  /\ result' = r
  /\ IF r.kind = "other"
       THEN LET cs == Chars("stderr", <<FALSE, TRUE>>)
            IN  \E s \in RawWrite(Fresh, cs) : StderrIs(s, cs)
       ELSE UNCHANGED <<buf, screen, printed, failed>>
  /\ UNCHANGED <<args, argv, flag, calls, ended>>

main_for_host == CASE result.kind = "ok"    -> 0
                   [] result.kind = "exit"  -> result.code
                   [] result.kind = "other" -> 1

(* The i32 rust_main returns: dbg or expect turns success into failure. *)
ExitCode == IF flag /\ main_for_host = 0 THEN 1 ELSE main_for_host

RustMainReturns ==
  /\ ended = "no" /\ result # NoResult
  /\ ended' = "return"
  /\ UNCHANGED <<args, argv, flag, buf, screen, printed, failed, calls, result>>

(* What the parent of the process sees: the low 8 bits, or SIGABRT. *)
OsStatus == CASE ended = "return" -> ExitCode % 256
              [] ended = "exit"   -> 1
              [] ended = "abort"  -> 128 + 6

Next ==
  \/ \E t \in Texts : \/ hosted_stdout_line(t) \/ hosted_stdout_write(t)
                      \/ hosted_stderr_line(t) \/ hosted_stderr_write(t)
                      \/ ChildPrints(t)
                      \/ roc_dbg_fn(t) \/ roc_expect_failed_fn(t)
                      \/ roc_crashed_fn(t)
  \/ \E b \in BOOLEAN : hosted_utc_now(b)
  \/ \E r \in Results : MainReturns(r)
  \/ RustMainReturns

Spec == Init /\ [][Next]_vars

-----------------------------------------------------------------------------
(* Type correctness of what both hosts keep. *)
Characters == [by : {"stdout", "stderr", "child", "dbg", "expect", "crash"},
               call : 0..MaxCalls, pos : 1..Len(printed), nl : BOOLEAN]
RunTypeOK ==
  /\ flag \in BOOLEAN /\ failed \in BOOLEAN
  /\ \A s \in {buf, screen, printed} : s \in Seq(Characters)
  /\ calls \in 0..MaxCalls
  /\ result \in Results \cup {NoResult}
  /\ ended \in {"no", "return", "exit", "abort"}
  /\ ended = "return" => ExitCode \in Int

(* Type correctness; main! gets no argument from past the end of argv. *)
TypeOK == RunTypeOK /\ \A k \in DOMAIN args : args[k] \notin {NULL, BadUtf8}

(* As long as no write fails, the terminal shows at every moment what the
   program printed so far, in program order across Stdout, Stderr, dbg and
   the commands it ran: nothing waits in a buffer when a hosted function
   returns, so nothing is lost however the process ends.                     *)
OutputInProgramOrder == ~failed => screen = printed

(* Even when writes to stdout fail part of the way and their errors are
   ignored, what was held back is never shown twice and never overtaken by
   later output of the same stream.                                          *)
Before(c, d) == c.call < d.call \/ (c.call = d.call /\ c.pos < d.pos)
NoDuplicateNoOvertake ==
  \A j, k \in 1..Len(screen) :
    j < k /\ screen[j].by = screen[k].by => Before(screen[j], screen[k])

(* rust_main returns 0 exactly for a run that succeeded and in which neither
   dbg nor a failing expect ever ran.                                        *)
Complained == \E k \in 1..Len(printed) : printed[k].by \in {"dbg", "expect"}
ZeroMeansClean ==
  ended = "return" =>
    (ExitCode = 0 <=> /\ result.kind = "ok" \/ result = [kind |-> "exit", code |-> 0]
                      /\ ~Complained)

(* "If set, program exits with non-zero code to prevent accidental commits":
   what the flag's comment promises of the process.                          *)
DebugExitsNonZero == ended # "no" /\ Complained => OsStatus # 0
=============================================================================
