-------------------------------- MODULE Sqlite --------------------------------
(***************************************************************************)
(* Prepared statements (roc_sqlite): a handle in a heap of bounded size    *)
(* stands for a database path and a query. Every thread that uses it has   *)
(* its own connection, kept in a thread-local list, and its own native     *)
(* statement, prepared when the thread first uses the handle. The last     *)
(* reference to the handle finalizes the native statements of all threads. *)
(*                                                                         *)
(* Every query has the parameters Params and returns them as its columns.  *)
(***************************************************************************)
EXTENDS Integers, SequencesExt, FiniteSets

CONSTANTS Threads, Paths,
          Handles,    \* the slots of the statement heap
          Params,     \* names of the query's parameters
          NulName,    \* a name or path with a NUL byte, which no C string holds
          Values,     \* what is bound to a parameter
          BindLists,  \* arguments of bind: sequences of <<name, value>>
          MaxCalls    \* bound on the program's calls

Null == "Null"

ASSUME SqliteAssumption ==
  /\ NulName \notin Params /\ Null \notin Values
  /\ \A list \in BindLists :
       /\ Len(list) \in Nat /\ DOMAIN list = 1..Len(list)
       /\ \A k \in DOMAIN list : list[k][2] \in Values \cup {Null}

VARIABLES conns,    \* SQLITE_CONNECTIONS of every thread: paths, oldest first
          stmts,    \* stmts[h]: the SqliteStatement in slot h
          native,   \* sqlite's statements: native[<<h, t>>] while not finalized
          given,    \* history: what the last bind of h on t asked for
          panicked, \* "no", or why the process aborted
          ret,      \* the result of the last call
          calls

vars == <<conns, stmts, native, given, panicked, ret, calls>>

Free == [path |-> "", local |-> {}]
Unbound == [p \in Params |-> Null]
Unknown == [p \in {} |-> Null]     \* after a bind that failed
NewStmt == [bound |-> Unbound, phase |-> "ready", row |-> Unbound]

Live == {h \in Handles : stmts[h] # Free}

Put(f, k, v) == [x \in DOMAIN f \cup {k} |-> IF x = k THEN v ELSE f[x]]
Without(f, ks) == [x \in DOMAIN f \ ks |-> f[x]]

Init ==
  /\ conns = [t \in Threads |-> <<>>]
  /\ stmts = [h \in Handles |-> Free]
  /\ native = [x \in {} |-> NewStmt]
  /\ given = [h \in Handles |-> [t \in Threads |-> Unbound]]
  /\ panicked = "no"
  /\ ret = [fn |-> "none", tag |-> "Ok", val |-> Null]
  /\ calls = 0

Return(fn, tag, val) == ret' = [fn |-> fn, tag |-> tag, val |-> val]

-----------------------------------------------------------------------------
(* get_connection: the list of the thread afterwards, or a failed open,
   which leaves no entry.                                                   *)
GetConnectionNoLookup(t, path) ==
  {[ok |-> TRUE, list |-> Append(conns[t], path)], [ok |-> FALSE, list |-> conns[t]]}
GetConnectionForgets(t, path) ==
  {[ok |-> TRUE, list |-> conns[t]], [ok |-> FALSE, list |-> conns[t]]}
GetConnection(t, path) ==
  IF Contains(conns[t], path)
    THEN {[ok |-> TRUE, list |-> conns[t]]}
    ELSE {[ok |-> TRUE, list |-> Append(conns[t], path)],
          [ok |-> FALSE, list |-> conns[t]]}

(* thread_local_prepare on handle h: the connection first, then, if this
   thread has no native statement yet, sqlite3_prepare_v2, which may fail.  *)
ThreadLocalPrepare(t, h) ==
  {[ok |-> FALSE, list |-> c.list, made |-> {}] :
     c \in {c \in GetConnection(t, stmts[h].path) : ~c.ok \/ t \notin stmts[h].local}}
  \cup
  {[ok |-> TRUE, list |-> c.list, made |-> {t} \ stmts[h].local] :
     c \in {c \in GetConnection(t, stmts[h].path) : c.ok}}

(* The state after a call on h found this thread's statement and left it as
   `stmt`; `expect` turns a failure to find it into a panic, which aborts.  *)
Mine(t, h) == IF <<h, t>> \in DOMAIN native THEN native[<<h, t>>] ELSE NewStmt
Found(t, h, local, stmt) ==
  /\ conns' = [conns EXCEPT ![t] = local.list]
  /\ stmts' = [stmts EXCEPT ![h].local = @ \cup local.made]
  /\ native' = Put(native, <<h, t>>, stmt)
Panic(t, list, why) ==
  /\ conns' = [conns EXCEPT ![t] = list]
  /\ panicked' = why
  /\ UNCHANGED <<stmts, native, given, ret>>
PrepareFails(t, h) ==
  \E local \in ThreadLocalPrepare(t, h) :
    ~local.ok /\ Panic(t, local.list, IF t \in stmts[h].local THEN "used" ELSE "first use")

-----------------------------------------------------------------------------
(* prepare: prepared on the calling thread before it gets a slot; without a
   free slot the statement is dropped, which finalizes it. A path with a NUL
   byte panics.                                                              *)
PrepareFull(t, list) ==
  /\ Live = Handles
  /\ conns' = [conns EXCEPT ![t] = list]
  /\ Return("prepare", "Err", Null)
  /\ UNCHANGED <<stmts, native, given, panicked>>

prepare(t, path) ==
  IF path = NulName THEN Panic(t, conns[t], "NUL in a name") ELSE
  \E c \in GetConnection(t, path) :
    \/ /\ conns' = [conns EXCEPT ![t] = c.list]   \* open or prepare_v2 failed
       /\ Return("prepare", "Err", Null)
       /\ UNCHANGED <<stmts, native, given, panicked>>
    \/ c.ok /\ PrepareFull(t, c.list)
    \/ /\ c.ok
       /\ \E h \in Handles \ Live :
            /\ conns' = [conns EXCEPT ![t] = c.list]
            /\ stmts' = [stmts EXCEPT ![h] = [path |-> path, local |-> {t}]]
            /\ native' = Put(native, <<h, t>>, NewStmt)
            /\ given' = [given EXCEPT ![h] = [u \in Threads |-> Unbound]]
            /\ Return("prepare", "Ok", h)
       /\ UNCHANGED panicked

(* bind: clears, then binds one after the other, up to the first that fails:
   an unknown name, a statement that was stepped and not reset, or a value
   sqlite refuses. What is bound last to a parameter stays. A name with a NUL
   byte panics.                                                              *)
Given(list, n, p) == {k \in 1..n : list[k][1] = p}
BindAll(bound, list, n) ==
  [p \in Params |-> IF Given(list, n, p) = {} THEN bound[p] ELSE list[Max(Given(list, n, p))][2]]

Refused(stmt, list, k) == list[k][1] \notin Params \/ stmt.phase # "ready"

NotCleared(stmt) == stmt.bound
Cleared(stmt) == Unbound

bind(t, h, list) ==
  \/ PrepareFails(t, h)
  \/ \E local \in ThreadLocalPrepare(t, h), n \in 0..Len(list) :
       LET stmt == Mine(t, h)
           new  == [stmt EXCEPT !.bound = BindAll(Cleared(stmt), list, n)]
       IN  /\ local.ok
           /\ \A k \in 1..n : ~Refused(stmt, list, k)
           /\ IF n < Len(list) /\ list[n + 1][1] = NulName
                THEN Panic(t, local.list, "NUL in a name")
                ELSE /\ Found(t, h, local, new)
                     /\ Return("bind", IF n = Len(list) THEN "Ok" ELSE "Err", Null)
                     /\ given' = [given EXCEPT ![h][t] =
                          IF n = Len(list) THEN BindAll(Unbound, list, n) ELSE Unknown]
                     /\ UNCHANGED panicked

(* sqlite3_step runs the statement on; finished or failed, it starts over.   *)
step(t, h) ==
  \/ PrepareFails(t, h)
  \/ \E local \in ThreadLocalPrepare(t, h), end \in {"row", "done", "failed"} :
       LET stmt == Mine(t, h)
       IN  /\ local.ok
           /\ Found(t, h, local, [stmt EXCEPT !.phase = end, !.row =
                                    IF end = "row" THEN stmt.bound ELSE Unbound])
           /\ Return("step", CASE end = "row"    -> "Row"
                               [] end = "done"   -> "Done"
                               [] end = "failed" -> "Err", Null)
           /\ UNCHANGED <<given, panicked>>

(* sqlite3_reset resets, and reports the error of the last step once more.   *)
reset(t, h) ==
  \/ PrepareFails(t, h)
  \/ \E local \in ThreadLocalPrepare(t, h) :
       /\ local.ok
       /\ Found(t, h, local, [Mine(t, h) EXCEPT !.phase = "ready", !.row = Unbound])
       /\ Return("reset", IF Mine(t, h).phase = "failed" THEN "Err" ELSE "Ok", Null)
       /\ UNCHANGED <<given, panicked>>

(* Reading the column of a parameter; `out` is an index past the last one.   *)
column_value(t, h, p) ==
  \/ PrepareFails(t, h)
  \/ \E local \in ThreadLocalPrepare(t, h) :
       /\ local.ok
       /\ Found(t, h, local, Mine(t, h))
       /\ IF p \in Params THEN Return("column_value", "Ok", Mine(t, h).row[p])
                          ELSE Return("column_value", "Err", Null)
       /\ UNCHANGED <<given, panicked>>

columns(t, h) ==
  \/ PrepareFails(t, h)
  \/ \E local \in ThreadLocalPrepare(t, h) :
       /\ local.ok
       /\ Found(t, h, local, Mine(t, h))
       /\ Return("columns", "Ok", Params)
       /\ UNCHANGED <<given, panicked>>

(* The last reference goes: roc_dealloc drops the statement.                 *)
FinalizedOnThread(t, h) == {<<h, t>>}
Finalized(t, h) == {<<h, u>> : u \in stmts[h].local}
DropKeepsLocals(t, h) ==
  /\ native' = Without(native, Finalized(t, h))
  /\ stmts' = [stmts EXCEPT ![h].path = ""]
  /\ UNCHANGED <<conns, given, panicked, ret>>
drop(t, h) ==
  /\ native' = Without(native, Finalized(t, h))
  /\ stmts' = [stmts EXCEPT ![h] = Free]
  /\ UNCHANGED <<conns, given, panicked, ret>>

Next ==
  /\ panicked = "no" /\ calls < MaxCalls /\ calls' = calls + 1
  /\ \E t \in Threads :
       \/ \E path \in Paths \cup {NulName} : prepare(t, path)
       \/ \E h \in Live :
            \/ \E list \in BindLists : bind(t, h, list)
            \/ \E p \in Params \cup {"out"} : column_value(t, h, p)
            \/ step(t, h) \/ reset(t, h) \/ columns(t, h) \/ drop(t, h)

Spec == Init /\ [][Next]_vars

-----------------------------------------------------------------------------
(* Type correctness. *)
TypeOK ==
  /\ \A t \in Threads : conns[t] \in Seq(Paths)
  /\ \A h \in Live : stmts[h].path \in Paths /\ stmts[h].local \subseteq Threads
  /\ \A x \in DOMAIN native :
       /\ native[x].bound \in [Params -> Values \cup {Null}]
       /\ native[x].row \in [Params -> Values \cup {Null}]
       /\ native[x].phase \in {"ready", "row", "done", "failed"}
  /\ panicked \in {"no", "first use", "used", "NUL in a name"}

(* sqlite holds exactly the statements that live handles account for: none is
   left behind when a handle is dropped on another thread than the ones that
   used it, when the heap is full, or when a slot is given away again.        *)
StatementsOwned ==
  DOMAIN native = UNION {{h} \X stmts[h].local : h \in Live}

(* A thread opens a database once, whichever of its statements came first, and
   a thread that has a statement has the connection it was prepared on.       *)
ConnectionsReused ==
  /\ \A t \in Threads : IsInjective(conns[t])
  /\ \A h \in Live : \A t \in stmts[h].local : Contains(conns[t], stmts[h].path)

(* "Clear old bindings to ensure the users is setting all bindings": after a
   bind that succeeded, the thread's statement has the values it gave and NULL
   for every other parameter, whatever was bound before, whatever failed
   before, and whatever other threads bind on the same handle.                *)
BindingsTakeEffect ==
  \A h \in Live : \A t \in stmts[h].local :
    given[h][t] # Unknown => native[<<h, t>>].bound = given[h][t]

(* "Prepare already succeeded in another thread. Should not fail here": the
   panic behind it can only strike a thread's first use of a statement, never
   a thread the statement has already worked on.                              *)
PanicOnlyOnFirstUse == panicked # "used"
=============================================================================
