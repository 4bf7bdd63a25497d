--------------------------------- MODULE Cmd ---------------------------------
(***************************************************************************)
(* Commands: the builder of platform/Cmd.roc, roc_command's translation to *)
(* std::process::Command, and the two ways of running it. The builder only *)
(* collects a record; what the child gets is decided when it is spawned.   *)
(* exec_output! reads the child's two pipes, which hold a bounded amount,  *)
(* while the child writes to them.                                         *)
(***************************************************************************)
EXTENDS IOErr, Integers, FiniteSets

CONSTANTS Keys, Values,   \* names and values of environment variables
          ParentEnv,      \* the host's own environment, a function on some keys
          Args,           \* arguments a program may pass
          EnvLists,       \* what envs may be given: sequences of <<key, value>>
          Scripts,        \* what children print: sequences of "stdout"/"stderr"
          Codes,          \* exit codes of children
          PipeSize,       \* how much an operating-system pipe holds
          MaxBuild        \* bound on the builder calls of one command

ASSUME CmdAssumption ==
  /\ DOMAIN ParentEnv \subseteq Keys
  /\ \A l \in EnvLists : l \in Seq(Keys \X Values)
  /\ \A s \in Scripts : s \in Seq({"stdout", "stderr"})
  /\ Codes \subseteq 0..255
  /\ PipeSize \in Nat \ {0}
  /\ MaxBuild \in Nat

VARIABLES cmd,      \* the Cmd record
          built,    \* history: the builder calls, in order
          phase,    \* "build", "spawned", "done"
          mode,     \* "status" (exec_exit_code!) or "output" (exec_output!)
          child,    \* the process: its arguments, environment, output and end
          pipe,     \* pipe[s]: printed but not read yet
          read,     \* read[s]: what the host has collected
          open,     \* the streams the host still reads
          ret       \* what the call returned

vars == <<cmd, built, phase, mode, child, pipe, read, open, ret>>

Streams == {"stdout", "stderr"}

Init ==
  /\ cmd = [args |-> <<>>, clear_envs |-> FALSE, envs |-> <<>>]
  /\ built = <<>>
  /\ phase = "build"
  /\ mode = "none"
  /\ child = [args |-> <<>>, env |-> <<>>, script |-> <<>>, wrote |-> <<>>,
             end |-> "unborn", code |-> 0]
  /\ pipe = [s \in Streams |-> <<>>]
  /\ read = [s \in Streams |-> <<>>]
  /\ open = {}
  /\ ret = [tag |-> "none"]

-----------------------------------------------------------------------------
(* The builder: each call returns a new record with one field changed. *)

Build(call, record) ==
  /\ phase = "build" /\ Len(built) < MaxBuild
  /\ built' = Append(built, call)
  /\ cmd' = record
  /\ UNCHANGED <<phase, mode, child, pipe, read, open, ret>>

arg(a) == Build([op |-> "arg", a |-> a], [cmd EXCEPT !.args = Append(@, a)])

args(as) == Build([op |-> "args", as |-> as], [cmd EXCEPT !.args = @ \o as])

EnvJoined(k, v) == Build([op |-> "env", kv |-> <<k, v>>], [cmd EXCEPT !.envs = Append(@, k)])
env(k, v) == Build([op |-> "env", kv |-> <<k, v>>], [cmd EXCEPT !.envs = @ \o <<k, v>>])

Flat(pairs) ==
  [n \in 1..(2 * Len(pairs)) |-> IF n % 2 = 1 THEN pairs[(n + 1) \div 2][1] ELSE pairs[n \div 2][2]]
envs(pairs) == Build([op |-> "envs", kvs |-> pairs], [cmd EXCEPT !.envs = @ \o Flat(pairs)])

clear_envs == Build([op |-> "clear_envs"], [cmd EXCEPT !.clear_envs = TRUE])

-----------------------------------------------------------------------------
(* to_std_command: env_clear if asked for, then every complete pair of the
   flat list in order; a later pair replaces an earlier one.                *)
Chunks(flat) == [n \in 1..(Len(flat) \div 2) |-> <<flat[2 * n - 1], flat[2 * n]>>]
Named(pairs, k) == \E i \in 1..Len(pairs) : pairs[i][1] = k
LastFor(pairs, k, i) == pairs[i][1] = k /\ \A j \in (i + 1)..Len(pairs) : pairs[j][1] # k
LastGiven(pairs, k) == pairs[CHOOSE i \in 1..Len(pairs) : LastFor(pairs, k, i)][2]
SetAll(e, pairs) ==
  [k \in DOMAIN e \cup {pairs[i][1] : i \in 1..Len(pairs)} |->
     IF Named(pairs, k) THEN LastGiven(pairs, k) ELSE e[k]]

EmptyEnv == [k \in {} |-> {}]
ClearLastEnv(c) == IF c.clear_envs THEN EmptyEnv ELSE SetAll(ParentEnv, Chunks(c.envs))
ToStdEnv(c) == SetAll(IF c.clear_envs THEN EmptyEnv ELSE ParentEnv, Chunks(c.envs))

(* Starting the process fails, or a child with some behaviour runs. *)
Spawn(m) ==
  /\ phase = "build"
  /\ mode' = m
  /\ \/ \E kind \in {"NotFound", "PermissionDenied"} :
          /\ ret' = [tag |-> "CmdErr", byte |-> FromIoError(kind), kind |-> kind]
          /\ phase' = "done"
          /\ UNCHANGED <<child, open>>
     \/ \E s \in Scripts :
          /\ child' = [args |-> cmd.args, env |-> ToStdEnv(cmd), script |-> s,
                       wrote |-> <<>>, end |-> "running", code |-> 0]
          /\ phase' = "spawned"
          /\ open' = IF m = "output" THEN Streams ELSE {}
          /\ UNCHANGED ret
  /\ UNCHANGED <<cmd, built, pipe, read>>

(* The child prints the next character of its script; into a pipe only while
   there is room. With inherited streams it never waits for the host.       *)
ChildWrites ==
  /\ phase = "spawned" /\ child.end = "running" /\ child.script # <<>>
  /\ LET s == Head(child.script)
     IN  /\ mode = "output" => Len(pipe[s]) < PipeSize
         /\ pipe' = IF mode = "output"
                      THEN [pipe EXCEPT ![s] = Append(@, Len(child.wrote))] ELSE pipe
         /\ child' = [child EXCEPT !.script = Tail(@), !.wrote = Append(@, s)]
  /\ UNCHANGED <<cmd, built, phase, mode, read, open, ret>>

ChildExits ==
  /\ phase = "spawned" /\ child.end = "running" /\ child.script = <<>>
  /\ \E c \in Codes : child' = [child EXCEPT !.end = "exited", !.code = c]
  /\ UNCHANGED <<cmd, built, phase, mode, pipe, read, open, ret>>

(* A signal ends it at any time; its code is not one. *)
ChildKilled ==
  /\ phase = "spawned" /\ child.end = "running"
  /\ child' = [child EXCEPT !.end = "killed"]
  /\ UNCHANGED <<cmd, built, phase, mode, pipe, read, open, ret>>

(* Command::output polls both pipes and takes whatever is there ...         *)
ReadFirstOnly(s) == s = "stdout" \/ "stdout" \notin open
Ready(s) == s \in open
HostReads(s) ==
  /\ phase = "spawned" /\ Ready(s) /\ pipe[s] # <<>>
  /\ read' = [read EXCEPT ![s] = @ \o pipe[s]]
  /\ pipe' = [pipe EXCEPT ![s] = <<>>]
  /\ UNCHANGED <<cmd, built, phase, mode, child, open, ret>>

(* ... until both are at end of file ...                                    *)
HostSeesEof(s) ==
  /\ phase = "spawned" /\ Ready(s) /\ pipe[s] = <<>> /\ child.end # "running"
  /\ open' = open \ {s}
  /\ UNCHANGED <<cmd, built, phase, mode, child, pipe, read, ret>>

(* ... and then waits for the child, as Command::status does at once. *)
Signalled == [tag |-> "CmdErr", byte |-> FromIoError("Signalled"), kind |-> "Signalled"]

SignalIsExit ==
  IF child.code = 0 THEN [tag |-> "Ok", out |-> read]
                    ELSE [tag |-> "NonZeroExit", code |-> child.code, out |-> read]
StreamsSwapped ==
  [tag |-> IF child.end = "killed" THEN "CmdErr" ELSE "Ok",
   out |-> [stdout |-> read["stderr"], stderr |-> read["stdout"]]]
OutputResult ==
  CASE child.end = "killed" -> Signalled
    [] child.end = "exited" /\ child.code = 0 -> [tag |-> "Ok", out |-> read]
    [] child.end = "exited" /\ child.code # 0 ->
         [tag |-> "NonZeroExit", code |-> child.code, out |-> read]

(* exec! and exec_cmd! on top of exec_exit_code!: only code 0 is Ok.        *)
ExecResult ==
  CASE child.end = "killed" -> Signalled
    [] child.end = "exited" /\ child.code = 0 -> [tag |-> "Ok"]
    [] child.end = "exited" /\ child.code # 0 -> [tag |-> "ExecFailed", code |-> child.code]

HostWaits ==
  /\ phase = "spawned" /\ child.end # "running" /\ open = {}
  /\ ret' = IF mode = "output" THEN OutputResult ELSE ExecResult
  /\ phase' = "done"
  /\ UNCHANGED <<cmd, built, mode, child, pipe, read, open>>

Next ==
  \/ \E a \in Args : arg(a)
  \/ \E a, b \in Args : args(<<a, b>>)
  \/ \E k \in Keys, v \in Values : env(k, v)
  \/ \E l \in EnvLists : envs(l)
  \/ clear_envs
  \/ \E m \in {"status", "output"} : Spawn(m)
  \/ ChildWrites \/ ChildExits \/ ChildKilled
  \/ \E s \in Streams : HostReads(s) \/ HostSeesEof(s)
  \/ HostWaits

(* The child is scheduled and its script ends; the host's loop runs. *)
Fairness ==
  /\ WF_vars(ChildWrites) /\ WF_vars(ChildExits)
  /\ \A s \in Streams : WF_vars(HostReads(s)) /\ WF_vars(HostSeesEof(s))
  /\ WF_vars(HostWaits)

Spec == Init /\ [][Next]_vars /\ Fairness

-----------------------------------------------------------------------------
(* Type correctness. *)
Calls ==
  [op : {"arg"}, a : Args] \cup [op : {"args"}, as : Seq(Args)]
    \cup [op : {"env"}, kv : Keys \X Values] \cup [op : {"envs"}, kvs : EnvLists]
    \cup [op : {"clear_envs"}]
TypeOK ==
  /\ cmd.args \in Seq(Args) /\ cmd.envs \in Seq(Keys \cup Values)
  /\ cmd.clear_envs \in BOOLEAN
  /\ Len(cmd.envs) % 2 = 0
  /\ built \in Seq(Calls)
  /\ phase \in {"build", "spawned", "done"}
  /\ mode \in {"none", "status", "output"}
  /\ open \subseteq Streams
  /\ \A s \in Streams : Len(pipe[s]) <= PipeSize
  /\ ret.tag \in {"none", "Ok", "CmdErr", "NonZeroExit", "ExecFailed"}

(* What one builder call gives, and where in the history each argument and
   each pair stands: in call p[1], at place p[2].                            *)
ArgsOf(call) ==
  CASE call.op = "arg"  -> <<call.a>>
    [] call.op = "args" -> call.as
    [] OTHER            -> <<>>
PairsOf(call) ==
  CASE call.op = "env"  -> <<call.kv>>
    [] call.op = "envs" -> call.kvs
    [] OTHER            -> <<>>
ArgPlaces == UNION {{n} \X (1..Len(ArgsOf(built[n]))) : n \in 1..Len(built)}
ArgAt(p) == ArgsOf(built[p[1]])[p[2]]
PairPlaces == UNION {{n} \X (1..Len(PairsOf(built[n]))) : n \in 1..Len(built)}
PairAt(p) == PairsOf(built[p[1]])[p[2]]
NotAfter(q, p) == q[1] < p[1] \/ (q[1] = p[1] /\ q[2] <= p[2])
UpTo(places, p) == {q \in places : NotAfter(q, p)}
Given(k) == {p \in PairPlaces : PairAt(p)[1] = k}
Cleared == \E n \in 1..Len(built) : built[n].op = "clear_envs"

(* The child's environment is what the builder calls say, in any order:
   "Only environment variables added via env or envs" once clear_envs was
   called, whether before or after them, and otherwise the host's own with
   the last value given to each name. Its arguments are all those given, in
   order.                                                                    *)
ChildAsBuilt ==
  child.end # "unborn" =>
    /\ Len(child.args) = Cardinality(ArgPlaces)
    /\ \A p \in ArgPlaces :
         child.args[Cardinality(UpTo(ArgPlaces, p))] = ArgAt(p)
    /\ DOMAIN child.env = {k \in Keys : Given(k) # {}}
                             \cup (IF Cleared THEN {} ELSE DOMAIN ParentEnv)
    /\ \A k \in DOMAIN child.env :
         IF Given(k) = {} THEN child.env[k] = ParentEnv[k]
         ELSE \E p \in Given(k) : /\ child.env[k] = PairAt(p)[2]
                                  /\ \A q \in Given(k) : NotAfter(q, p)

(* A call reports Ok exactly for a child that ran to exit code 0, keeps other
   codes, and never takes a signal for an exit; a process that could not be
   started is an error of its own, never one of a child.                     *)
OutcomeFaithful ==
  phase = "done" =>
    /\ child.end # "running"
    /\ ret.tag = "CmdErr" <=> child.end \in {"killed", "unborn"}
    /\ ret.tag = "CmdErr" => (ret.kind = "Signalled" <=> child.end = "killed")
    /\ ret.tag = "Ok" <=> child.end = "exited" /\ child.code = 0
    /\ ret.tag \in {"NonZeroExit", "ExecFailed"} => ret.code = child.code

(* Whatever the order in which the pipes were filled and drained, a captured
   result holds everything the child printed, each stream in order.          *)
Printed(s) == {n - 1 : n \in {m \in 1..Len(child.wrote) : child.wrote[m] = s}}
InOrder(list, S) ==
  /\ {list[i] : i \in 1..Len(list)} = S
  /\ \A i, j \in 1..Len(list) : i < j => list[i] < list[j]
CaptureComplete ==
  ret.tag \in {"Ok", "NonZeroExit"} /\ mode = "output" =>
    \A s \in Streams : InOrder(ret.out[s], Printed(s))

(* A child that prints more than a pipe holds, to both streams in any order,
   does not leave host and child waiting for each other.                     *)
ExecReturns == phase = "spawned" ~> phase = "done"
=============================================================================
