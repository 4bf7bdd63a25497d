----------------------------- MODULE LegacyHost -----------------------------
(***************************************************************************)
(* The host that crates/ still holds (roc_host, roc_stdio, roc_env), beside *)
(* the one of src/src/lib.rs. Both print through the same std streams. What *)
(* differs: a hosted print answers with its IOErr instead of hiding it, a   *)
(* failing expect ends the program, dbg leaves no flag, the terminal has a  *)
(* raw mode, and there are two entry points: roc_host_lib is the C `main`,  *)
(* roc_host_bin a Rust main that ends with std::process::exit.              *)
(***************************************************************************)
EXTENDS Host

CONSTANT Hosts   \* the hosts a run may be on

ASSUME HostsAssumption == Hosts \subseteq {"live", "library", "binary"}

VARIABLES host,  \* the host of this run
          told,  \* history: the prints that were answered with Ok
          raw    \* the terminal is in raw mode

hostVars == <<vars, host, told, raw>>

(* The arguments reach Roc as the bytes of argv, unconverted. *)
LegacyInit ==
  /\ RunInit
  /\ \A k \in DOMAIN argv : argv[k] # NULL
  /\ args = argv

-----------------------------------------------------------------------------
(* roc_stdio. Each print is write_all, and_then ..., and_then flush: what
   comes after a failure does not run, and the failure is the answer.       *)

Flushed(outcomes) ==
  UNION {IF s.ok THEN FlushBuf(s) ELSE {s} : s \in outcomes}

Answered(ok) ==
  /\ told' = IF ok THEN told \cup {calls} ELSE told
  /\ UNCHANGED <<flag, raw>>
  /\ Returned

stdout_line(t) ==
  LET cs == Chars("stdout", t \o <<TRUE>>)
  IN  /\ Running
      /\ \E s \in Flushed(Writeln(cs)) : StdoutIs(s, cs) /\ Answered(s.ok)

(* stdout_write and stdout_write_bytes. *)
StdoutWriteFlushDecides(t) ==
  LET cs == Chars("stdout", t)
  IN  /\ Running
      /\ \E s1 \in LineWrite(Fresh, cs) : \E s2 \in FlushBuf(s1) :
            StdoutIs([s2 EXCEPT !.ok = s1.ok /\ s2.ok], cs) /\ Answered(s2.ok)
stdout_write(t) ==
  LET cs == Chars("stdout", t)
  IN  /\ Running
      /\ \E s \in Flushed(LineWrite(Fresh, cs)) :
            StdoutIs(s, cs) /\ Answered(s.ok)

stderr_line(t) ==
  LET cs == Chars("stderr", t \o <<TRUE>>)
  IN  /\ Running
      /\ \E s \in RawWrite(Fresh, cs) : StderrIs(s, cs) /\ Answered(s.ok)

(* stderr_write and stderr_write_bytes. *)
stderr_write(t) ==
  LET cs == Chars("stderr", t)
  IN  /\ Running
      /\ \E s \in RawWrite(Fresh, cs) : StderrIs(s, cs) /\ Answered(s.ok)

-----------------------------------------------------------------------------
(* crossterm changes the terminal only when the mode differs; the host
   expects that to succeed, and a panic aborts.                              *)
SetRawMode(on) ==
  /\ Running
  /\ \/ raw' = on /\ UNCHANGED ended
     \/ raw # on /\ UNCHANGED raw /\ ended' = "abort"
  /\ calls' = calls + 1
  /\ UNCHANGED <<args, argv, flag, buf, screen, printed, failed, result, told>>

tty_mode_raw == SetRawMode(TRUE)
tty_mode_canonical == SetRawMode(FALSE)

roc_dbg(t) ==
  /\ Running
  /\ Eprintln("dbg", t, "no")
  /\ calls' = calls + 1
  /\ UNCHANGED <<args, argv, flag, result, told, raw>>

(* A failing expect ends the program and leaves the terminal as it is. *)
roc_expect_failed(t) ==
  /\ Running
  /\ ReportAndExit(Chars("expect", t \o <<TRUE>>))
  /\ calls' = calls + 1
  /\ UNCHANGED <<args, argv, flag, result, told, raw>>

(* A crash first takes the terminal out of raw mode, if it lets it, then
   reports the message and the call stack.                                   *)
roc_panic(t) ==
  /\ Running
  /\ raw' \in {FALSE, raw}
  /\ ReportAndExit(Chars("crash", t \o <<TRUE>>))
  /\ calls' = calls + 1
  /\ UNCHANGED <<args, argv, flag, result, told>>

posix_time(beforeEpoch) == hosted_utc_now(beforeEpoch) /\ UNCHANGED <<told, raw>>

-----------------------------------------------------------------------------
(* roc_main_for_host_caller stores a code and no flag changes it. The library
   returns it from the C main; the binary exits with it, and flushes.        *)
LegacyMainReturns(code) ==
  /\ MainReturns([kind |-> "exit", code |-> code])
  /\ UNCHANGED <<told, raw>>

rust_main ==
  /\ ended = "no" /\ result # NoResult
  /\ \/ host = "library" /\ ended' = "return"
        /\ UNCHANGED <<buf, screen, printed, failed>>
     \/ host = "binary" /\ ended' = "exit"
        /\ \E s \in FlushBuf(Fresh) : StdoutIs(s, <<>>)
  /\ UNCHANGED <<args, argv, flag, calls, result, told, raw>>

LegacyNext ==
  \/ \E t \in Texts : \/ stdout_line(t) \/ stdout_write(t)
                      \/ stderr_line(t) \/ stderr_write(t)
                      \/ ChildPrints(t) /\ UNCHANGED <<told, raw>>
                      \/ roc_dbg(t) \/ roc_expect_failed(t) \/ roc_panic(t)
  \/ tty_mode_raw \/ tty_mode_canonical
  \/ \E b \in BOOLEAN : posix_time(b)
  \/ \E code \in ExitCodes : LegacyMainReturns(code)
  \/ rust_main

HostsInit ==
  /\ host \in Hosts
  /\ IF host = "live" THEN Init ELSE LegacyInit
  /\ told = {} /\ raw = FALSE

HostsNext ==
  /\ UNCHANGED host
  /\ IF host = "live" THEN Next /\ UNCHANGED <<told, raw>> ELSE LegacyNext

HostsSpec == HostsInit /\ [][HostsNext]_hostVars

-----------------------------------------------------------------------------
(* Type correctness of either host; only crates/ hands Roc raw bytes. *)
HostsTypeOK ==
  /\ IF host = "live" THEN TypeOK ELSE RunTypeOK /\ args = argv
  /\ host \in Hosts /\ raw \in BOOLEAN
  /\ told \in SUBSET (0..MaxCalls)

(* The exit code of the live host accounts for dbg and expect. *)
LiveZeroMeansClean == host = "live" => ZeroMeansClean

(* A hosted print of crates/ that answered Ok has every character of its text
   on the terminal, also when earlier prints failed half way and left text in
   the buffer it shares with them, and whatever runs afterwards.             *)
OkMeansShown ==
  \A k \in 1..Len(printed) :
    printed[k].call \in told => \E j \in 1..Len(screen) : screen[j] = printed[k]
=============================================================================
