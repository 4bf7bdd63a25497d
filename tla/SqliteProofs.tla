----------------------------- MODULE SqliteProofs -----------------------------
(***************************************************************************)
(* Proofs about prepared statements, for every set of threads, databases,  *)
(* slots, parameters and values, and every argument of bind.               *)
(***************************************************************************)
EXTENDS Sqlite, WellFoundedInduction, TLAPS

Rows == [Params -> Values \cup {Null}]
NativeType == [bound : Rows, phase : {"ready", "row", "done", "failed"}, row : Rows]

(* TypeOK, with the functions and records it looks into. *)
SqliteTypes ==
  /\ conns \in [Threads -> Seq(Paths)]
  /\ stmts \in [Handles -> [path : Paths, local : SUBSET Threads] \cup {Free}]
  /\ \A x \in DOMAIN native : native[x] \in NativeType
  /\ given \in [Handles -> [Threads -> Rows \cup {Unknown}]]
  /\ panicked \in {"no", "first use", "used", "NUL in a name"}

(* A thread that has not used a handle has bound nothing to it. *)
UnusedMeansUnbound ==
  \A h \in Live : \A t \in Threads : t \notin stmts[h].local => given[h][t] = Unbound

(* The inductive invariant. PanicOnlyOnFirstUse rests on ConnectionsReused:
   opening a connection cannot fail where one is open already.               *)
SInv ==
  /\ SqliteTypes /\ StatementsOwned /\ ConnectionsReused
  /\ BindingsTakeEffect /\ UnusedMeansUnbound /\ PanicOnlyOnFirstUse

-----------------------------------------------------------------------------
(* A nonempty set of positions has a last one: the one nearest to the end. *)
LEMMA LastPosition ==
  ASSUME NEW n \in Nat, NEW S \in SUBSET (1..n), S # {}
  PROVE  Max(S) \in S
<1> DEFINE R == {d \in Nat : n - d \in S}
<1>1. R \in SUBSET Nat /\ R # {}
  <2>1. PICK k \in S : TRUE
    OBVIOUS
  <2>2. k \in Nat /\ k <= n
    OBVIOUS
  <2>3. n - k \in Nat /\ n - (n - k) = k
    BY <2>2
  <2>4. n - k \in R
    BY <2>3
  <2> QED BY <2>4
<1>2. IsWellFoundedOn(OpToRel(<, Nat), Nat)
  BY NatLessThanWellFounded
<1> HIDE DEF R
<1>3. PICK d \in R : \A e \in R : ~ (<<e, d>> \in OpToRel(<, Nat))
  BY <1>1, <1>2, WFMin
<1>4. \A e \in R : ~ (e < d)
  BY <1>1, <1>3 DEF OpToRel
<1>5. d \in Nat /\ n - d \in S
  BY <1>3 DEF R
<1>6. ASSUME NEW j \in S PROVE n - d >= j
  <2>1. j \in Nat /\ j <= n /\ n - j \in Nat /\ n - (n - j) = j
    OBVIOUS
  <2>2. n - j \in R
    BY <2>1 DEF R
  <2>3. ~ (n - j < d)
    BY <1>4, <2>2
  <2> QED BY <1>5, <2>1, <2>3
<1> QED BY <1>5, <1>6 DEF Max

(* However much of a list was bound, on top of whatever row, a row results. *)
LEMMA BindAllIsRow ==
  ASSUME NEW bound \in Rows, NEW list \in BindLists, NEW n \in 0..Len(list)
  PROVE  BindAll(bound, list, n) \in Rows
<1>1. Len(list) \in Nat /\ DOMAIN list = 1..Len(list)
      /\ \A k \in DOMAIN list : list[k][2] \in Values \cup {Null}
  BY SqliteAssumption
<1>2. ASSUME NEW p \in Params, Given(list, n, p) # {}
      PROVE  list[Max(Given(list, n, p))][2] \in Values \cup {Null}
  <2>1. Given(list, n, p) \in SUBSET (1..n) /\ n \in Nat
    BY <1>1 DEF Given
  <2>2. Max(Given(list, n, p)) \in 1..n
    BY <1>2, <2>1, LastPosition
  <2>3. Max(Given(list, n, p)) \in DOMAIN list
    BY <1>1, <2>2
  <2> QED BY <1>1, <2>3
<1>3. ASSUME NEW p \in Params PROVE bound[p] \in Values \cup {Null}
  BY DEF Rows
<1> QED BY <1>2, <1>3 DEF BindAll, Rows

LEMMA UnboundIsRow == Unbound \in Rows /\ NewStmt \in NativeType
<1>1. Unbound \in Rows
  BY DEF Unbound, Rows
<1> QED BY <1>1 DEF NewStmt, NativeType

-----------------------------------------------------------------------------
(* What a thread's list of connections may become: nothing it had is lost,
   and nothing is in it twice.                                               *)
GoodList(t, list) ==
  /\ list \in Seq(Paths) /\ IsInjective(list)
  /\ \A p \in Paths : Contains(conns[t], p) => Contains(list, p)

LEMMA AppendFresh ==
  ASSUME NEW s \in Seq(Paths), IsInjective(s), NEW p \in Paths, ~Contains(s, p)
  PROVE  /\ Append(s, p) \in Seq(Paths) /\ IsInjective(Append(s, p))
         /\ Contains(Append(s, p), p)
         /\ \A q \in Paths : Contains(s, q) => Contains(Append(s, p), q)
<1> DEFINE a == Append(s, p)
           n == Len(s)
<1>1. /\ a \in Seq(Paths) /\ n \in Nat /\ Len(a) = n + 1
      /\ DOMAIN s = 1..n /\ DOMAIN a = 1..(n + 1)
      /\ a[n + 1] = p /\ \A i \in 1..n : a[i] = s[i]
  OBVIOUS
<1>2. \A i \in 1..n : s[i] # p
  BY DEF Contains
<1> HIDE DEF a, n
<1>3. IsInjective(a)
  <2> SUFFICES ASSUME NEW i \in 1..(n + 1), NEW j \in 1..(n + 1), a[i] = a[j] PROVE i = j
    BY <1>1 DEF IsInjective
  <2>1. \A k \in 1..(n + 1) : k \in 1..n \/ k = n + 1
    BY <1>1
  <2> QED BY <1>1, <1>2, <2>1 DEF IsInjective
<1>4. Contains(a, p)
  <2>1. n + 1 \in 1..Len(a)
    BY <1>1
  <2> QED BY <1>1, <2>1 DEF Contains
<1>5. ASSUME NEW q \in Paths, Contains(s, q) PROVE Contains(a, q)
  <2>1. PICK i \in 1..Len(s) : s[i] = q
    BY <1>5 DEF Contains
  <2>2. i \in 1..n /\ i \in 1..Len(a)
    BY <1>1, <2>1 DEF n
  <2> QED BY <1>1, <2>1, <2>2 DEF Contains
<1> QED BY <1>1, <1>3, <1>4, <1>5 DEF a

LEMMA GetConnectionFacts ==
  ASSUME SInv, NEW t \in Threads, NEW path \in Paths, NEW c \in GetConnection(t, path)
  PROVE  /\ GoodList(t, c.list) /\ c.ok \in BOOLEAN
         /\ c.ok => Contains(c.list, path)
         /\ ~c.ok => ~Contains(conns[t], path)
<1>1. conns[t] \in Seq(Paths) /\ IsInjective(conns[t])
  BY DEF SInv, SqliteTypes, ConnectionsReused
<1>2. CASE Contains(conns[t], path)
  <2>1. c = [ok |-> TRUE, list |-> conns[t]]
    BY <1>2 DEF GetConnection
  <2> QED BY <1>1, <1>2, <2>1 DEF GoodList
<1>3. CASE ~Contains(conns[t], path)
  <2>1. c \in {[ok |-> TRUE, list |-> Append(conns[t], path)], [ok |-> FALSE, list |-> conns[t]]}
    BY <1>3 DEF GetConnection
  <2>2. CASE c = [ok |-> TRUE, list |-> Append(conns[t], path)]
    BY <1>1, <1>3, <2>2, AppendFresh DEF GoodList
  <2>3. CASE c = [ok |-> FALSE, list |-> conns[t]]
    BY <1>1, <1>3, <2>3 DEF GoodList
  <2> QED BY <2>1, <2>2, <2>3
<1> QED BY <1>2, <1>3

(* thread_local_prepare keeps the connections in order, gives a connection to
   every thread it gives a statement to, and fails only on a first use.       *)
LEMMA LocalPrepareFacts ==
  ASSUME SInv, NEW t \in Threads, NEW h \in Live, NEW local \in ThreadLocalPrepare(t, h)
  PROVE  /\ GoodList(t, local.list)
         /\ local.ok => /\ Contains(local.list, stmts[h].path)
                        /\ local.made = {t} \ stmts[h].local
         /\ ~local.ok => t \notin stmts[h].local
<1> DEFINE path == stmts[h].path
<1>1. h \in Handles /\ path \in Paths
  BY DEF SInv, SqliteTypes, Live
<1>2. t \in stmts[h].local => Contains(conns[t], path)
  BY DEF SInv, ConnectionsReused
<1> HIDE DEF path
<1>3. CASE local \in {[ok |-> TRUE, list |-> c.list, made |-> {t} \ stmts[h].local] :
                       c \in {c \in GetConnection(t, path) : c.ok}}
  <2>1. PICK c \in GetConnection(t, path) :
          c.ok /\ local = [ok |-> TRUE, list |-> c.list, made |-> {t} \ stmts[h].local]
    BY <1>3
  <2> QED BY <1>1, <2>1, GetConnectionFacts DEF path
<1>4. CASE local \in {[ok |-> FALSE, list |-> c.list, made |-> {}] :
                       c \in {c \in GetConnection(t, path) : ~c.ok \/ t \notin stmts[h].local}}
  <2>1. PICK c \in GetConnection(t, path) :
          /\ ~c.ok \/ t \notin stmts[h].local
          /\ local = [ok |-> FALSE, list |-> c.list, made |-> {}]
    BY <1>4
  <2> QED BY <1>1, <1>2, <2>1, GetConnectionFacts DEF path
<1> QED BY <1>3, <1>4 DEF ThreadLocalPrepare, path

-----------------------------------------------------------------------------
(* StatementsOwned, said of one native statement at a time. *)
OwnedOneByOne == \A x : x \in DOMAIN native <=> \E h \in Live : x \in {h} \X stmts[h].local

LEMMA OwnedPointwise ==
  /\ StatementsOwned => OwnedOneByOne
  /\ OwnedOneByOne' => StatementsOwned'
BY DEF StatementsOwned, OwnedOneByOne

LEMMA SqliteStart == ASSUME Init PROVE SInv
<1>1. Live = {}
  BY DEF Init, Live
<1>2. DOMAIN native = {}
  BY DEF Init
<1>3. SqliteTypes
  <2>1. <<>> \in Seq(Paths)
    OBVIOUS
  <2> QED BY <1>2, <2>1, UnboundIsRow DEF Init, SqliteTypes
<1>4. ConnectionsReused
  BY <1>1 DEF Init, ConnectionsReused, IsInjective
<1> QED BY <1>1, <1>2, <1>3, <1>4
        DEF Init, SInv, StatementsOwned, BindingsTakeEffect, UnusedMeansUnbound, PanicOnlyOnFirstUse

(* Only a thread's connections change: opened by a call that then failed, or
   that panicked.                                                            *)
LEMMA ConnectionStep ==
  ASSUME SInv, NEW t \in Threads, NEW list, GoodList(t, list),
         conns' = [conns EXCEPT ![t] = list], UNCHANGED <<stmts, native, given>>,
         panicked' \in {"no", "first use", "NUL in a name"}
  PROVE  SInv'
<1>1. \A u \in Threads : conns'[u] = IF u = t THEN list ELSE conns[u]
  BY DEF SInv, SqliteTypes
<1>2. Live' = Live /\ stmts' = stmts /\ native' = native /\ given' = given
  BY DEF Live
<1>3. SqliteTypes'
  BY <1>2 DEF SInv, SqliteTypes, GoodList
<1>4. ConnectionsReused'
  <2>1. \A u \in Threads : IsInjective(conns'[u])
    BY <1>1 DEF SInv, ConnectionsReused, GoodList
  <2>2. ASSUME NEW h \in Live, NEW u \in stmts[h].local PROVE Contains(conns'[u], stmts[h].path)
    <3>1. Contains(conns[u], stmts[h].path) /\ u \in Threads /\ stmts[h].path \in Paths
      BY DEF SInv, ConnectionsReused, SqliteTypes, Live
    <3> QED BY <1>1, <3>1 DEF GoodList
  <2> QED BY <1>2, <2>1, <2>2 DEF ConnectionsReused
<1>5. StatementsOwned'
  BY <1>2, OwnedPointwise DEF SInv, OwnedOneByOne
<1>6. BindingsTakeEffect'
  BY <1>2, ZenonT(40) DEF SInv, BindingsTakeEffect
<1>7. UnusedMeansUnbound'
  BY <1>2 DEF SInv, UnusedMeansUnbound
<1> QED BY <1>3, <1>4, <1>5, <1>6, <1>7 DEF SInv, PanicOnlyOnFirstUse

(* A call found or made the statement of its thread and left it as `stmt`. *)
LEMMA FoundStep ==
  ASSUME SInv, NEW t \in Threads, NEW h \in Live, NEW list, NEW stmt \in NativeType,
         GoodList(t, list), Contains(list, stmts[h].path),
         conns' = [conns EXCEPT ![t] = list],
         stmts' = [stmts EXCEPT ![h].local = @ \cup ({t} \ stmts[h].local)],
         native' = Put(native, <<h, t>>, stmt),
         panicked' = panicked,
         given' \in [Handles -> [Threads -> Rows \cup {Unknown}]],
         \A k \in Handles, u \in Threads : k # h \/ u # t => given'[k][u] = given[k][u],
         given'[h][t] # Unknown => stmt.bound = given'[h][t]
  PROVE  SInv'
<1>1. h \in Handles /\ stmts[h] \in [path : Paths, local : SUBSET Threads] /\ stmts[h] # Free
  BY DEF SInv, SqliteTypes, Live
<1>2. stmts'[h] = [path |-> stmts[h].path, local |-> stmts[h].local \cup {t}]
      /\ \A k \in Handles : k # h => stmts'[k] = stmts[k]
  BY <1>1 DEF SInv, SqliteTypes
<1>3. Live' = Live
  <2>1. stmts'[h] # Free
    <3>1. t \in stmts'[h].local /\ t \notin Free.local
      BY <1>2 DEF Free
    <3> QED BY <3>1
  <2> QED BY <1>1, <1>2, <2>1 DEF Live
<1>4. \A u \in Threads : conns'[u] = IF u = t THEN list ELSE conns[u]
  BY DEF SInv, SqliteTypes
<1>5. /\ DOMAIN native' = DOMAIN native \cup {<<h, t>>}
      /\ \A x \in DOMAIN native' : native'[x] = IF x = <<h, t>> THEN stmt ELSE native[x]
  BY DEF Put
<1>6. SqliteTypes'
  <2>1. stmts' \in [Handles -> [path : Paths, local : SUBSET Threads] \cup {Free}]
    BY <1>1, <1>2 DEF SInv, SqliteTypes
  <2>2. conns' \in [Threads -> Seq(Paths)]
    BY <1>4 DEF SInv, SqliteTypes, GoodList
  <2>3. \A x \in DOMAIN native' : native'[x] \in NativeType
    BY <1>5 DEF SInv, SqliteTypes
  <2> QED BY <2>1, <2>2, <2>3 DEF SInv, SqliteTypes
<1>7. StatementsOwned'
  <2>1. \A x : x \in {h} \X stmts'[h].local <=> x \in {h} \X stmts[h].local \/ x = <<h, t>>
    BY <1>1, <1>2
  <2>2. \A k \in Live : k # h => stmts'[k] = stmts[k]
    BY <1>2 DEF Live
  <2>3. OwnedOneByOne
    BY OwnedPointwise DEF SInv
  <2> QED BY <1>3, <1>5, <2>1, <2>2, <2>3, OwnedPointwise, ZenonT(40) DEF OwnedOneByOne
<1>8. ConnectionsReused'
  <2>1. \A u \in Threads : IsInjective(conns'[u])
    BY <1>4 DEF SInv, ConnectionsReused, GoodList
  <2>2. ASSUME NEW k \in Live, NEW u \in stmts'[k].local PROVE Contains(conns'[u], stmts'[k].path)
    <3>1. stmts'[k].path = stmts[k].path /\ stmts[k].path \in Paths /\ u \in Threads
      BY <1>1, <1>2, <1>6 DEF SInv, SqliteTypes, Live
    <3>2. (k = h /\ u = t) \/ u \in stmts[k].local
      BY <1>1, <1>2 DEF Live
    <3>3. u \in stmts[k].local => Contains(conns[u], stmts[k].path)
      BY DEF SInv, ConnectionsReused
    <3> QED BY <1>4, <3>1, <3>2, <3>3 DEF GoodList
  <2> QED BY <1>3, <2>1, <2>2 DEF ConnectionsReused
<1>9. BindingsTakeEffect'
  <2> SUFFICES ASSUME NEW k \in Live, NEW u \in stmts'[k].local, given'[k][u] # Unknown
               PROVE  native'[<<k, u>>].bound = given'[k][u]
    BY <1>3 DEF BindingsTakeEffect
  <2>1. k \in Handles /\ u \in Threads
    BY <1>1, <1>2, <1>6 DEF SInv, SqliteTypes, Live
  <2>2. CASE k = h /\ u = t
    BY <1>5, <2>2
  <2>3. CASE k # h \/ u # t
    <3>1. u \in stmts[k].local /\ given'[k][u] = given[k][u] /\ <<k, u>> # <<h, t>>
      BY <1>1, <1>2, <2>1, <2>3
    <3>2. <<k, u>> \in DOMAIN native
      BY <3>1 DEF SInv, StatementsOwned
    <3> QED BY <1>5, <3>1, <3>2 DEF SInv, BindingsTakeEffect
  <2> QED BY <2>2, <2>3
<1>10. UnusedMeansUnbound'
  BY <1>1, <1>2, <1>3 DEF SInv, UnusedMeansUnbound, Live
<1> QED BY <1>6, <1>7, <1>8, <1>9, <1>10 DEF SInv, PanicOnlyOnFirstUse

(* The statement a thread works with is the one its last bind filled. *)
LEMMA MineFacts ==
  ASSUME SInv, NEW t \in Threads, NEW h \in Live
  PROVE  /\ Mine(t, h) \in NativeType
         /\ given[h][t] # Unknown => Mine(t, h).bound = given[h][t]
<1>1. <<h, t>> \in DOMAIN native <=> t \in stmts[h].local
  BY OwnedPointwise DEF SInv, OwnedOneByOne
<1>2. CASE <<h, t>> \in DOMAIN native
  BY <1>1, <1>2 DEF Mine, SInv, SqliteTypes, BindingsTakeEffect
<1>3. CASE <<h, t>> \notin DOMAIN native
  <2>1. given[h][t] = Unbound
    BY <1>1, <1>3 DEF SInv, UnusedMeansUnbound
  <2> QED BY <1>3, <2>1, UnboundIsRow DEF Mine, NewStmt
<1> QED BY <1>2, <1>3

(* A call that leaves the bindings of its statement alone. *)
LEMMA UseStep ==
  ASSUME SInv, NEW t \in Threads, NEW h \in Live, NEW local \in ThreadLocalPrepare(t, h), local.ok,
         NEW stmt \in NativeType, stmt.bound = Mine(t, h).bound,
         conns' = [conns EXCEPT ![t] = local.list],
         stmts' = [stmts EXCEPT ![h].local = @ \cup local.made],
         native' = Put(native, <<h, t>>, stmt),
         given' = given, panicked' = panicked
  PROVE  SInv'
<1>1. GoodList(t, local.list) /\ Contains(local.list, stmts[h].path)
      /\ local.made = {t} \ stmts[h].local
  BY LocalPrepareFacts
<1>2. given[h][t] # Unknown => stmt.bound = given[h][t]
  BY MineFacts
<1>3. given' \in [Handles -> [Threads -> Rows \cup {Unknown}]]
  BY DEF SInv, SqliteTypes
<1> QED BY <1>1, <1>2, <1>3, FoundStep

LEMMA PrepareFailsStep ==
  ASSUME SInv, NEW t \in Threads, NEW h \in Live, PrepareFails(t, h)
  PROVE  SInv'
<1>1. PICK local \in ThreadLocalPrepare(t, h) :
        /\ ~local.ok
        /\ conns' = [conns EXCEPT ![t] = local.list]
        /\ panicked' = IF t \in stmts[h].local THEN "used" ELSE "first use"
        /\ UNCHANGED <<stmts, native, given, ret>>
  BY Zenon DEF PrepareFails, Panic
<1>2. GoodList(t, local.list) /\ t \notin stmts[h].local
  BY <1>1, LocalPrepareFacts
<1>3. panicked' \in {"no", "first use", "NUL in a name"}
  BY <1>1, <1>2, Zenon
<1>4. UNCHANGED <<stmts, native, given>>
  BY <1>1
<1> QED BY <1>1, <1>2, <1>3, <1>4, ConnectionStep

LEMMA BindStep ==
  ASSUME SInv, NEW t \in Threads, NEW h \in Live, NEW list \in BindLists, bind(t, h, list)
  PROVE  SInv'
<1>1. CASE PrepareFails(t, h)
  BY <1>1, PrepareFailsStep
<1>2. ASSUME NEW local \in ThreadLocalPrepare(t, h), NEW n \in 0..Len(list), local.ok,
             Panic(t, local.list, "NUL in a name")
      PROVE  SInv'
  <2>1. GoodList(t, local.list)
    BY LocalPrepareFacts
  <2>2. conns' = [conns EXCEPT ![t] = local.list] /\ UNCHANGED <<stmts, native, given>>
        /\ panicked' \in {"no", "first use", "NUL in a name"}
    BY <1>2, Zenon DEF Panic
  <2> QED BY <2>1, <2>2, ConnectionStep
<1>3. ASSUME NEW local \in ThreadLocalPrepare(t, h), NEW n \in 0..Len(list), local.ok, NEW new,
             new = [Mine(t, h) EXCEPT !.bound = BindAll(Unbound, list, n)],
             Found(t, h, local, new), UNCHANGED panicked,
             given' = [given EXCEPT ![h][t] = IF n = Len(list) THEN BindAll(Unbound, list, n) ELSE Unknown]
      PROVE  SInv'
  <2>1. GoodList(t, local.list) /\ Contains(local.list, stmts[h].path)
        /\ local.made = {t} \ stmts[h].local
    BY <1>3, LocalPrepareFacts
  <2>2. BindAll(Unbound, list, n) \in Rows
    BY BindAllIsRow, UnboundIsRow
  <2>3. new \in NativeType /\ new.bound = BindAll(Unbound, list, n)
    BY <1>3, <2>2, MineFacts DEF NativeType
  <2>4. h \in Handles /\ given \in [Handles -> [Threads -> Rows \cup {Unknown}]]
    BY DEF Live, SInv, SqliteTypes
  <2>5. given' \in [Handles -> [Threads -> Rows \cup {Unknown}]]
    BY <1>3, <2>2, <2>4
  <2>6. \A k \in Handles, u \in Threads : k # h \/ u # t => given'[k][u] = given[k][u]
    BY <1>3, <2>4
  <2>7. given'[h][t] # Unknown => new.bound = given'[h][t]
    BY <1>3, <2>3, <2>4
  <2>8. /\ conns' = [conns EXCEPT ![t] = local.list]
        /\ stmts' = [stmts EXCEPT ![h].local = @ \cup ({t} \ stmts[h].local)]
        /\ native' = Put(native, <<h, t>>, new) /\ panicked' = panicked
    BY <1>3, <2>1 DEF Found
  <2> QED BY <2>1, <2>3, <2>5, <2>6, <2>7, <2>8, FoundStep
<1> QED BY <1>1, <1>2, <1>3, Zenon DEF bind, Cleared

LEMMA StepStep ==
  ASSUME SInv, NEW t \in Threads, NEW h \in Live, step(t, h)
  PROVE  SInv'
<1>1. CASE PrepareFails(t, h)
  BY <1>1, PrepareFailsStep
<1>2. ASSUME NEW local \in ThreadLocalPrepare(t, h), NEW end \in {"row", "done", "failed"}, local.ok,
             NEW new, new = [Mine(t, h) EXCEPT !.phase = end, !.row =
                               IF end = "row" THEN Mine(t, h).bound ELSE Unbound],
             Found(t, h, local, new), UNCHANGED <<given, panicked>>
      PROVE  SInv'
  <2>1. new \in NativeType /\ new.bound = Mine(t, h).bound
    BY <1>2, MineFacts, UnboundIsRow DEF NativeType
  <2> QED BY <1>2, <2>1, UseStep DEF Found
<1> QED BY <1>1, <1>2, Zenon DEF step

LEMMA ResetStep ==
  ASSUME SInv, NEW t \in Threads, NEW h \in Live, reset(t, h)
  PROVE  SInv'
<1>1. CASE PrepareFails(t, h)
  BY <1>1, PrepareFailsStep
<1>2. ASSUME NEW local \in ThreadLocalPrepare(t, h), local.ok,
             NEW new, new = [Mine(t, h) EXCEPT !.phase = "ready", !.row = Unbound],
             Found(t, h, local, new), UNCHANGED <<given, panicked>>
      PROVE  SInv'
  <2>1. new \in NativeType /\ new.bound = Mine(t, h).bound
    BY <1>2, MineFacts, UnboundIsRow DEF NativeType
  <2> QED BY <1>2, <2>1, UseStep DEF Found
<1> QED BY <1>1, <1>2, Zenon DEF reset

(* column_value and columns only read. *)
LEMMA ReadStep ==
  ASSUME SInv, NEW t \in Threads, NEW h \in Live,
         columns(t, h) \/ \E p \in Params \cup {"out"} : column_value(t, h, p)
  PROVE  SInv'
<1>1. CASE PrepareFails(t, h)
  BY <1>1, PrepareFailsStep
<1>2. ASSUME NEW local \in ThreadLocalPrepare(t, h), local.ok,
             Found(t, h, local, Mine(t, h)), UNCHANGED <<given, panicked>>
      PROVE  SInv'
  BY <1>2, MineFacts, UseStep DEF Found
<1> QED BY <1>1, <1>2, Zenon DEF columns, column_value

(* A new handle gets a slot nobody lives in. *)
LEMMA PreparedStep ==
  ASSUME SInv, NEW t \in Threads, NEW path \in Paths, NEW list, NEW h \in Handles \ Live,
         GoodList(t, list), Contains(list, path),
         conns' = [conns EXCEPT ![t] = list],
         stmts' = [stmts EXCEPT ![h] = [path |-> path, local |-> {t}]],
         native' = Put(native, <<h, t>>, NewStmt),
         given' = [given EXCEPT ![h] = [u \in Threads |-> Unbound]],
         panicked' = panicked
  PROVE  SInv'
<1>1. /\ stmts'[h] = [path |-> path, local |-> {t}]
      /\ \A k \in Handles : k # h => stmts'[k] = stmts[k]
      /\ h \in Handles /\ stmts'[h].local = {t} /\ stmts'[h].path = path
  BY DEF SInv, SqliteTypes
<1>2. Live' = Live \cup {h} /\ \A k \in Live : k # h /\ k \in Handles /\ stmts'[k] = stmts[k]
  <2>1. t \in stmts'[h].local /\ t \notin Free.local
    BY <1>1 DEF Free
  <2>2. stmts'[h] # Free
    BY <2>1
  <2> QED BY <1>1, <2>2 DEF Live
<1>3. \A u \in Threads : conns'[u] = IF u = t THEN list ELSE conns[u]
  BY DEF SInv, SqliteTypes
<1>4. /\ DOMAIN native' = DOMAIN native \cup {<<h, t>>}
      /\ \A x \in DOMAIN native' : native'[x] = IF x = <<h, t>> THEN NewStmt ELSE native[x]
  BY DEF Put
<1>5. /\ \A k \in Handles : k # h => given'[k] = given[k]
      /\ \A u \in Threads : given'[h][u] = Unbound
  BY <1>1 DEF SInv, SqliteTypes
<1>6. SqliteTypes'
  <2>1. stmts' \in [Handles -> [path : Paths, local : SUBSET Threads] \cup {Free}]
    BY DEF SInv, SqliteTypes
  <2>2. conns' \in [Threads -> Seq(Paths)]
    BY <1>3 DEF SInv, SqliteTypes, GoodList
  <2>3. \A x \in DOMAIN native' : native'[x] \in NativeType
    BY <1>4, UnboundIsRow DEF SInv, SqliteTypes
  <2>4. given' \in [Handles -> [Threads -> Rows \cup {Unknown}]]
    <3>1. [u \in Threads |-> Unbound] \in [Threads -> Rows \cup {Unknown}]
      BY UnboundIsRow
    <3> QED BY <3>1 DEF SInv, SqliteTypes
  <2> QED BY <2>1, <2>2, <2>3, <2>4 DEF SInv, SqliteTypes
<1>7. StatementsOwned'
  <2>1. \A x : x \in {h} \X stmts'[h].local <=> x = <<h, t>>
    BY <1>1
  <2>2. OwnedOneByOne
    BY OwnedPointwise DEF SInv
  <2> QED BY <1>2, <1>4, <2>1, <2>2, OwnedPointwise DEF OwnedOneByOne
<1>8. ConnectionsReused'
  <2>1. \A u \in Threads : IsInjective(conns'[u])
    BY <1>3 DEF SInv, ConnectionsReused, GoodList
  <2>2. Contains(conns'[t], path)
    BY <1>3
  <2>3. ASSUME NEW k \in Live, NEW u \in stmts[k].local PROVE Contains(conns'[u], stmts[k].path)
    <3>1. Contains(conns[u], stmts[k].path) /\ u \in Threads /\ stmts[k].path \in Paths
      BY DEF SInv, ConnectionsReused, SqliteTypes, Live
    <3> QED BY <1>3, <3>1 DEF GoodList
  <2> QED BY <1>1, <1>2, <2>1, <2>2, <2>3 DEF ConnectionsReused
<1>9. BindingsTakeEffect'
  <2>1. native'[<<h, t>>].bound = given'[h][t]
    BY <1>4, <1>5 DEF NewStmt
  <2>2. ASSUME NEW k \in Live, NEW u \in stmts[k].local, given'[k][u] # Unknown
        PROVE  native'[<<k, u>>].bound = given'[k][u]
    <3>1. <<k, u>> \in DOMAIN native /\ <<k, u>> # <<h, t>> /\ given'[k] = given[k]
      BY <1>2, <1>5, OwnedPointwise DEF SInv, OwnedOneByOne
    <3> QED BY <1>4, <2>2, <3>1 DEF SInv, BindingsTakeEffect
  <2> QED BY <1>1, <1>2, <2>1, <2>2 DEF BindingsTakeEffect
<1>10. UnusedMeansUnbound'
  BY <1>2, <1>5 DEF SInv, UnusedMeansUnbound
<1> QED BY <1>6, <1>7, <1>8, <1>9, <1>10 DEF SInv, PanicOnlyOnFirstUse

LEMMA PrepareStep ==
  ASSUME SInv, NEW t \in Threads, NEW path \in Paths \cup {NulName}, prepare(t, path), panicked = "no"
  PROVE  SInv'
<1>1. CASE path = NulName
  <2>1. conns' = [conns EXCEPT ![t] = conns[t]] /\ UNCHANGED <<stmts, native, given>>
        /\ panicked' \in {"no", "first use", "NUL in a name"}
    BY <1>1, Zenon DEF prepare, Panic
  <2>2. GoodList(t, conns[t])
    BY DEF SInv, SqliteTypes, ConnectionsReused, GoodList
  <2> QED BY <2>1, <2>2, ConnectionStep
<1>2. CASE path # NulName
  <2>1. path \in Paths
    BY <1>2
  <2>2. PICK c \in GetConnection(t, path) :
          \/ conns' = [conns EXCEPT ![t] = c.list] /\ UNCHANGED <<stmts, native, given, panicked>>
          \/ /\ c.ok /\ conns' = [conns EXCEPT ![t] = c.list]
             /\ \E h \in Handles \ Live :
                  /\ stmts' = [stmts EXCEPT ![h] = [path |-> path, local |-> {t}]]
                  /\ native' = Put(native, <<h, t>>, NewStmt)
                  /\ given' = [given EXCEPT ![h] = [u \in Threads |-> Unbound]]
             /\ UNCHANGED panicked
    BY <1>2, Zenon DEF prepare, PrepareFull
  <2>3. GoodList(t, c.list) /\ (c.ok => Contains(c.list, path))
    BY <2>1, GetConnectionFacts
  <2>4. CASE conns' = [conns EXCEPT ![t] = c.list] /\ UNCHANGED <<stmts, native, given, panicked>>
    <3>1. UNCHANGED <<stmts, native, given>> /\ panicked' = "no"
      BY <2>4
    <3>2. panicked' \in {"no", "first use", "NUL in a name"}
      BY <3>1, Zenon
    <3> QED BY <2>3, <2>4, <3>1, <3>2, ConnectionStep
  <2>5. ASSUME c.ok, conns' = [conns EXCEPT ![t] = c.list], NEW h \in Handles \ Live,
               stmts' = [stmts EXCEPT ![h] = [path |-> path, local |-> {t}]],
               native' = Put(native, <<h, t>>, NewStmt),
               given' = [given EXCEPT ![h] = [u \in Threads |-> Unbound]],
               UNCHANGED panicked
        PROVE  SInv'
    BY <2>1, <2>3, <2>5, PreparedStep
  <2> QED BY <2>2, <2>4, <2>5, Zenon
<1> QED BY <1>1, <1>2

(* Dropping a handle finalizes what every thread had of it, and only that. *)
LEMMA DropStep ==
  ASSUME SInv, NEW t \in Threads, NEW h \in Live, drop(t, h)
  PROVE  SInv'
<1>1. /\ native' = Without(native, Finalized(t, h)) /\ stmts' = [stmts EXCEPT ![h] = Free]
      /\ conns' = conns /\ given' = given /\ panicked' = panicked
  BY DEF drop
<1>2. Live' = Live \ {h} /\ \A k \in Live : k # h => stmts'[k] = stmts[k]
  BY <1>1 DEF SInv, SqliteTypes, Live
<1>3. \A x : x \in Finalized(t, h) <=> x \in {h} \X stmts[h].local
  BY DEF Finalized
<1>4. /\ DOMAIN native' = DOMAIN native \ Finalized(t, h)
      /\ \A x \in DOMAIN native' : native'[x] = native[x]
  BY <1>1 DEF Without
<1>5. StatementsOwned'
  <2>1. OwnedOneByOne
    BY OwnedPointwise DEF SInv
  <2>2. ASSUME NEW x, NEW k \in Live, k # h, x \in {k} \X stmts[k].local PROVE x \notin {h} \X stmts[h].local
    BY <2>2
  <2> QED BY <1>2, <1>3, <1>4, <2>1, <2>2, OwnedPointwise DEF OwnedOneByOne
<1>6. SqliteTypes'
  <2>1. stmts' \in [Handles -> [path : Paths, local : SUBSET Threads] \cup {Free}]
    BY <1>1 DEF SInv, SqliteTypes
  <2>2. \A x \in DOMAIN native' : native'[x] \in NativeType
    BY <1>4 DEF SInv, SqliteTypes
  <2> QED BY <1>1, <2>1, <2>2 DEF SInv, SqliteTypes
<1>7. ConnectionsReused'
  BY <1>1, <1>2 DEF SInv, ConnectionsReused
<1>8. BindingsTakeEffect'
  <2> SUFFICES ASSUME NEW k \in Live \ {h}, NEW u \in stmts[k].local, given[k][u] # Unknown
               PROVE  native'[<<k, u>>].bound = given[k][u]
    BY <1>1, <1>2 DEF BindingsTakeEffect
  <2>1. <<k, u>> \in DOMAIN native /\ <<k, u>> \notin {h} \X stmts[h].local
    BY OwnedPointwise DEF SInv, OwnedOneByOne
  <2>2. native'[<<k, u>>] = native[<<k, u>>]
    BY <1>3, <1>4, <2>1
  <2> QED BY <2>2 DEF SInv, BindingsTakeEffect
<1>9. UnusedMeansUnbound'
  BY <1>1, <1>2 DEF SInv, UnusedMeansUnbound
<1> QED BY <1>1, <1>5, <1>6, <1>7, <1>8, <1>9 DEF SInv, PanicOnlyOnFirstUse

LEMMA SqliteStutter == ASSUME SInv, UNCHANGED vars PROVE SInv'
<1>1. /\ conns' = conns /\ stmts' = stmts /\ native' = native
      /\ given' = given /\ panicked' = panicked /\ Live' = Live
  BY DEF vars, Live
<1>2. SqliteTypes' /\ ConnectionsReused'
  BY <1>1 DEF SInv, SqliteTypes, ConnectionsReused
<1>3. StatementsOwned'
  BY <1>1, OwnedPointwise DEF SInv, OwnedOneByOne
<1>4. BindingsTakeEffect'
  BY <1>1 DEF SInv, BindingsTakeEffect
<1>5. UnusedMeansUnbound'
  BY <1>1 DEF SInv, UnusedMeansUnbound
<1> QED BY <1>1, <1>2, <1>3, <1>4, <1>5 DEF SInv, PanicOnlyOnFirstUse

-----------------------------------------------------------------------------
(* The inductive invariant holds in every reachable state. *)
THEOREM SqliteInvariant == Spec => []SInv
<1>1. Init => SInv
  BY SqliteStart
<1>2. SInv /\ [Next]_vars => SInv'
  <2> SUFFICES ASSUME SInv, [Next]_vars PROVE SInv'
    OBVIOUS
  <2>1. CASE UNCHANGED vars
    BY <2>1, SqliteStutter
  <2>2. ASSUME NEW t \in Threads, NEW path \in Paths \cup {NulName}, prepare(t, path), panicked = "no"
        PROVE  SInv'
    BY <2>2, PrepareStep
  <2>3. ASSUME NEW t \in Threads, NEW h \in Live,
               \/ \E list \in BindLists : bind(t, h, list)
               \/ \E p \in Params \cup {"out"} : column_value(t, h, p)
               \/ step(t, h) \/ reset(t, h) \/ columns(t, h) \/ drop(t, h)
        PROVE  SInv'
    BY <2>3, BindStep, ReadStep, StepStep, ResetStep, DropStep
  <2> QED BY <2>1, <2>2, <2>3, Zenon DEF Next
<1> QED BY <1>1, <1>2, PTL DEF Spec

(* The variables of Sqlite keep their types; what bind leaves in a statement
   is a value for every parameter.                                           *)
THEOREM SqliteTypeCorrect == Spec => []TypeOK
<1>1. SInv => TypeOK
  BY DEF SInv, SqliteTypes, TypeOK, NativeType, Rows, Live
<1> QED BY <1>1, SqliteInvariant, PTL

(* However handles are prepared, shared between threads, dropped and given
   away again, sqlite holds exactly the statements live handles account for.  *)
THEOREM SqliteStatementsOwned == Spec => []StatementsOwned
<1>1. SInv => StatementsOwned
  BY DEF SInv
<1> QED BY <1>1, SqliteInvariant, PTL

(* No thread opens a database twice or loses the connection it works on. *)
THEOREM SqliteConnectionsReused == Spec => []ConnectionsReused
<1>1. SInv => ConnectionsReused
  BY DEF SInv
<1> QED BY <1>1, SqliteInvariant, PTL

(* A successful bind leaves exactly its own values on its thread's statement. *)
THEOREM SqliteBindingsTakeEffect == Spec => []BindingsTakeEffect
<1>1. SInv => BindingsTakeEffect
  BY DEF SInv
<1> QED BY <1>1, SqliteInvariant, PTL

(* The panic behind a failed prepare never strikes a thread that the statement
   has already worked on.                                                    *)
THEOREM SqlitePanicsOnlyOnFirstUse == Spec => []PanicOnlyOnFirstUse
<1>1. SInv => PanicOnlyOnFirstUse
  BY DEF SInv
<1> QED BY <1>1, SqliteInvariant, PTL
=============================================================================
