------------------------------ MODULE TcpProofs ------------------------------
(***************************************************************************)
(* Proofs about Tcp: first about the handles, for every limit, number of   *)
(* places and number of allocations, whatever the connections do; then     *)
(* about what a peer receives, for every number of connections and calls,  *)
(* every message length and send buffer, whatever happens to the handles.  *)
(* That a handle finds its connection is what the second part takes from   *)
(* the first.                                                              *)
(***************************************************************************)
EXTENDS Tcp, SequenceTheorems, TLAPS

(* What the next allocation relies on: nothing beyond `made` is held. *)
FreshIdsUnused == \A r \in Ids : r > made => held[r].values = 0

(* A resource has an address as long as it has values, and none after. *)
NoStaleAddress == \A r \in Ids : held[r].values = 0 <=> held[r].addr = Nowhere

(* The inductive invariant. *)
HInv == HandlesTypeOK /\ AddressesFindTheirOwner /\ FreshIdsUnused /\ NoStaleAddress

-----------------------------------------------------------------------------
(* An address lies in one of the resource heaps or in libc's, and Nowhere in
   none.                                                                     *)
LEMMA AddressHeaps ==
  /\ \A a \in Addresses : a.heap \in Heaps \cup {"libc"}
  /\ Nowhere \notin Addresses
<1>1. ASSUME NEW a \in Addresses
      PROVE  a.heap \in Heaps \cup {"libc"}
  <2>1. PICK k \in Heaps \cup {"libc"} : a \in {[heap |-> k, slot |-> i] : i \in Places(k)}
    BY <1>1 DEF Addresses
  <2>2. PICK i \in Places(k) : a = [heap |-> k, slot |-> i]
    BY <2>1
  <2> QED BY <2>2
<1>2. Nowhere.heap \notin Heaps \cup {"libc"}
  BY DEF Nowhere, Heaps
<1> QED BY <1>1, <1>2

(* Whatever heap an address is in, roc_dealloc frees that very place. *)
LEMMA DeallocFindsPlace ==
  ASSUME NEW a \in Addresses, roc_dealloc(a)
  PROVE  HeapDealloc(a)
<1>1. a.heap \in {"file", "tcp", "sqlite", "libc"}
  BY AddressHeaps DEF Heaps
<1>2. CASE a.heap = "file"
  BY <1>2 DEF roc_dealloc, InRange
<1>3. CASE a.heap = "tcp"
  BY <1>3 DEF roc_dealloc, InRange
<1>4. CASE a.heap = "sqlite"
  BY <1>4 DEF roc_dealloc, InRange
<1>5. CASE a.heap = "libc"
  BY <1>5 DEF roc_dealloc, InRange, LibcFree
<1> QED BY <1>1, <1>2, <1>3, <1>4, <1>5

(* What the program holds it holds at an address. *)
LEMMA HeldAtAddress ==
  ASSUME HInv, NEW r \in Ids, held[r].values > 0
  PROVE  /\ held[r].addr \in Addresses
         /\ at[held[r].addr] = r
         /\ count[held[r].addr] = held[r].values
<1>1. held[r] \in [addr : Addresses \cup {Nowhere}, values : 0..MaxCopies]
  BY DEF HInv, HandlesTypeOK
<1>2. held[r].addr # Nowhere
  BY DEF HInv, NoStaleAddress
<1> QED BY <1>1, <1>2 DEF HInv, AddressesFindTheirOwner

-----------------------------------------------------------------------------
(* One lemma per thing that can happen to the handles: it preserves the
   invariant and is a step of Resources.                                     *)

LEMMA AllocStep ==
  ASSUME HInv, NEW k, NEW r, r = made + 1, Fresh, AllocFor(k, r)
  PROVE  HInv' /\ Abstract!Next
<1>1. PICK a \in FreePlaces(k) :
         /\ at' = [at EXCEPT ![a] = r]
         /\ count' = [count EXCEPT ![a] = 1]
         /\ held' = [held EXCEPT ![r] = [addr |-> a, values |-> 1]]
         /\ open' = open \cup {r} /\ acted' = 0
         /\ UNCHANGED crashed
  BY DEF AllocFor
<1>2. a \in Addresses /\ at[a] = Free /\ a # Nowhere
  BY AddressHeaps DEF FreePlaces
<1>3. made \in Nat /\ MaxIds \in Nat /\ MaxCopies \in Nat \ {0}
  BY HandlesAssumption DEF HInv, HandlesTypeOK
<1>4. r \in Ids /\ held[r].values = 0 /\ r # Free /\ made' = r
  BY <1>3 DEF Fresh, HInv, FreshIdsUnused, Ids, Free
<1>5. \A b \in Addresses : at[b] # r
  <2> SUFFICES ASSUME NEW b \in Addresses, at[b] = r PROVE FALSE
    OBVIOUS
  <2>1. held[r].addr = b
    BY <1>4 DEF HInv, AddressesFindTheirOwner
  <2>2. held[r].addr = Nowhere
    BY <1>4 DEF HInv, NoStaleAddress
  <2> QED BY <2>1, <2>2, AddressHeaps
<1>6. HandlesTypeOK'
  BY <1>1, <1>2, <1>3, <1>4 DEF HInv, HandlesTypeOK, Fresh
<1>7. held' \in [Ids -> [addr : Addresses \cup {Nowhere}, values : 0..MaxCopies]]
  BY <1>6 DEF HandlesTypeOK
<1>8. AddressesFindTheirOwner'
  <2>1. ~crashed' /\ \A q \in Ids : q \in open' <=> held'[q].values > 0
    BY <1>1, <1>4 DEF HInv, HandlesTypeOK, AddressesFindTheirOwner
  <2>2. ASSUME NEW q \in Ids, held'[q].values > 0
        PROVE  at'[held'[q].addr] = q /\ count'[held'[q].addr] = held'[q].values
    <3>1. CASE q = r
      BY <3>1, <1>1, <1>2, <1>4 DEF HInv, HandlesTypeOK
    <3>2. CASE q # r
      <4>1. held'[q] = held[q]
        BY <3>2, <1>1, <1>4 DEF HInv, HandlesTypeOK
      <4>2. held[q].addr # a
        BY <4>1, <2>2, <1>2, HeldAtAddress DEF Ids, Free
      <4> QED BY <4>1, <4>2, <2>2, <1>1, <1>2, HeldAtAddress DEF HInv, HandlesTypeOK
    <3> QED BY <3>1, <3>2
  <2>3. ASSUME NEW b \in Addresses, at'[b] # Free
        PROVE  held'[at'[b]].addr = b
    <3>1. CASE b = a
      BY <3>1, <1>1, <1>2, <1>4 DEF HInv, HandlesTypeOK
    <3>2. CASE b # a
      <4>1. at'[b] = at[b] /\ at[b] \in Ids /\ at[b] # r
        BY <3>2, <2>3, <1>1, <1>5 DEF HInv, HandlesTypeOK
      <4>2. held'[at[b]] = held[at[b]]
        BY <4>1, <1>1 DEF HInv, HandlesTypeOK
      <4> QED BY <4>1, <4>2, <2>3 DEF HInv, AddressesFindTheirOwner
    <3> QED BY <3>1, <3>2
  <2> QED BY <2>1, <2>2, <2>3 DEF AddressesFindTheirOwner
<1>9. FreshIdsUnused' /\ NoStaleAddress'
  <2>1. \A q \in Ids : held'[q] = IF q = r THEN [addr |-> a, values |-> 1] ELSE held[q]
    BY <1>1, <1>4 DEF HInv, HandlesTypeOK
  <2>2. FreshIdsUnused'
    BY <2>1, <1>3, <1>4 DEF HInv, FreshIdsUnused, Ids
  <2> QED BY <2>1, <2>2, <1>2 DEF HInv, NoStaleAddress
<1>10. Abstract!Acquire(r)
  <2>1. r \notin open
    BY <1>4 DEF HInv, AddressesFindTheirOwner
  <2>2. [q \in Ids |-> held[q].values]' = [[q \in Ids |-> held[q].values] EXCEPT ![r] = 1]
    BY <1>1, <1>4 DEF HInv, HandlesTypeOK
  <2> QED BY <1>1, <2>1, <2>2 DEF Abstract!Acquire
<1> QED BY <1>4, <1>6, <1>8, <1>9, <1>10 DEF HInv, Abstract!Next

LEMMA NotOpenedStep ==
  ASSUME HInv, Fresh, NotOpened
  PROVE  HInv' /\ Abstract!Next
<1>1. made \in Nat /\ made' = made + 1 /\ made' \in 0..MaxIds
  BY HandlesAssumption DEF Fresh, HInv, HandlesTypeOK
<1>2. HandlesTypeOK' /\ AddressesFindTheirOwner' /\ NoStaleAddress'
  BY <1>1 DEF HInv, NotOpened, HandlesTypeOK, AddressesFindTheirOwner, NoStaleAddress
<1>3. FreshIdsUnused'
  BY <1>1 DEF HInv, NotOpened, FreshIdsUnused, Ids
<1>4. Abstract!Pass
  BY DEF NotOpened, Abstract!Pass
<1> QED BY <1>2, <1>3, <1>4 DEF HInv, Abstract!Next

LEMMA CopyStep ==
  ASSUME HInv, NEW r \in Ids, CopyValue(r)
  PROVE  HInv' /\ Abstract!Next
<1> DEFINE a == held[r].addr
<1>1. /\ a \in Addresses /\ at[a] = r /\ count[a] = held[r].values
      /\ held[r].values \in 1..(MaxCopies - 1) /\ MaxCopies \in Nat
  BY HeldAtAddress, HandlesAssumption DEF CopyValue
<1>2. \A q \in Ids : held'[q] = IF q = r THEN [held[r] EXCEPT !.values = held[r].values + 1]
                                         ELSE held[q]
  BY DEF CopyValue, HInv, HandlesTypeOK
<1>3. \A b \in Addresses : count'[b] = IF b = a THEN count[a] + 1 ELSE count[b]
  BY <1>1 DEF CopyValue, HInv, HandlesTypeOK
<1>4. held[r] \in [addr : Addresses \cup {Nowhere}, values : 0..MaxCopies]
  BY DEF HInv, HandlesTypeOK
<1>5. held'[r].addr = a /\ held'[r].values = held[r].values + 1 /\ held'[r].values \in 1..MaxCopies
  BY <1>1, <1>2, <1>4
<1>6. HandlesTypeOK'
  <2>1. held' \in [Ids -> [addr : Addresses \cup {Nowhere}, values : 0..MaxCopies]]
    BY <1>1, <1>4 DEF CopyValue, HInv, HandlesTypeOK
  <2>2. count' \in [Addresses -> 0..MaxCopies]
    BY <1>1 DEF CopyValue, HInv, HandlesTypeOK
  <2> QED BY <2>1, <2>2 DEF CopyValue, HInv, HandlesTypeOK
<1>7. AddressesFindTheirOwner'
  <2>1. ~crashed' /\ \A q \in Ids : q \in open' <=> held'[q].values > 0
    BY <1>1, <1>2, <1>5 DEF CopyValue, HInv, AddressesFindTheirOwner
  <2>2. ASSUME NEW q \in Ids, held'[q].values > 0
        PROVE  at'[held'[q].addr] = q /\ count'[held'[q].addr] = held'[q].values
    <3>1. CASE q = r
      BY <3>1, <1>1, <1>3, <1>5 DEF CopyValue
    <3>2. CASE q # r
      <4>1. held'[q] = held[q]
        BY <3>2, <1>2
      <4>2. held[q].addr \in Addresses /\ at[held[q].addr] = q /\ count[held[q].addr] = held[q].values
        BY <4>1, <2>2, HeldAtAddress
      <4>3. held[q].addr # a
        BY <4>2, <3>2, <1>1
      <4> QED BY <4>1, <4>2, <4>3, <1>3 DEF CopyValue
    <3> QED BY <3>1, <3>2
  <2>3. \A b \in Addresses : at'[b] # Free => held'[at'[b]].addr = b
    BY <1>2, <1>5 DEF CopyValue, HInv, HandlesTypeOK, AddressesFindTheirOwner
  <2> QED BY <2>1, <2>2, <2>3 DEF AddressesFindTheirOwner
<1>8. FreshIdsUnused' /\ NoStaleAddress'
  BY <1>1, <1>2, <1>5 DEF CopyValue, HInv, FreshIdsUnused, NoStaleAddress
<1>9. Abstract!Copy(r)
  <2>1. [q \in Ids |-> held[q].values]'
          = [[q \in Ids |-> held[q].values] EXCEPT ![r] = @ + 1]
    BY <1>2, <1>5
  <2> QED BY <2>1, <1>1 DEF CopyValue, Abstract!Copy
<1> QED BY <1>6, <1>7, <1>8, <1>9 DEF HInv, Abstract!Next

LEMMA DropStep ==
  ASSUME HInv, NEW r \in Ids, DropValue(r)
  PROVE  HInv' /\ Abstract!Next
<1> DEFINE a == held[r].addr
           n == held[r].values
<1>1. /\ a \in Addresses /\ at[a] = r /\ count[a] = n
      /\ n \in 1..MaxCopies /\ MaxCopies \in Nat
      /\ held[r] \in [addr : Addresses \cup {Nowhere}, values : 0..MaxCopies]
  BY HeldAtAddress, HandlesAssumption DEF DropValue, HInv, HandlesTypeOK
<1>2. \A b \in Addresses : count'[b] = IF b = a THEN n - 1 ELSE count[b]
  BY <1>1 DEF DropValue, HInv, HandlesTypeOK
<1>3. \A q \in Ids : q # r => held'[q] = held[q]
  BY DEF DropValue, HInv, HandlesTypeOK
<1>4. CASE n = 1
  <2>1. HeapDealloc(a)
    BY <1>1, <1>4, DeallocFindsPlace DEF DropValue
  <2>2. held'[r] = [addr |-> Nowhere, values |-> 0]
    BY <1>4 DEF DropValue, HInv, HandlesTypeOK
  <2>3. at' = [at EXCEPT ![a] = Free] /\ open' = open \ {r} /\ UNCHANGED crashed
    BY <2>1, <1>1 DEF HeapDealloc
  <2>4. \A b \in Addresses : at'[b] = IF b = a THEN Free ELSE at[b]
    BY <2>3 DEF HInv, HandlesTypeOK
  <2>5. HandlesTypeOK'
    <3>1. held' \in [Ids -> [addr : Addresses \cup {Nowhere}, values : 0..MaxCopies]]
      BY <1>1, <1>4 DEF DropValue, HInv, HandlesTypeOK
    <3>2. count' \in [Addresses -> 0..MaxCopies]
      BY <1>1 DEF DropValue, HInv, HandlesTypeOK
    <3> QED BY <3>1, <3>2, <2>3 DEF DropValue, HInv, HandlesTypeOK
  <2>6. AddressesFindTheirOwner'
    <3>1. ~crashed' /\ \A q \in Ids : q \in open' <=> held'[q].values > 0
      BY <2>2, <2>3, <1>3 DEF HInv, AddressesFindTheirOwner
    <3>2. ASSUME NEW q \in Ids, held'[q].values > 0
          PROVE  at'[held'[q].addr] = q /\ count'[held'[q].addr] = held'[q].values
      <4>1. q # r /\ held'[q] = held[q]
        BY <3>2, <2>2, <1>3
      <4>2. held[q].addr \in Addresses /\ at[held[q].addr] = q /\ count[held[q].addr] = held[q].values
        BY <4>1, <3>2, HeldAtAddress
      <4>3. held[q].addr # a
        BY <4>1, <4>2, <1>1
      <4> QED BY <4>1, <4>2, <4>3, <2>4, <1>2
    <3>3. ASSUME NEW b \in Addresses, at'[b] # Free
          PROVE  held'[at'[b]].addr = b
      <4>1. b # a /\ at'[b] = at[b] /\ at[b] \in Ids
        BY <3>3, <2>4 DEF HInv, HandlesTypeOK
      <4>2. held[at[b]].addr = b
        BY <4>1, <3>3 DEF HInv, AddressesFindTheirOwner
      <4> QED BY <4>1, <4>2, <1>3
    <3> QED BY <3>1, <3>2, <3>3 DEF AddressesFindTheirOwner
  <2>7. FreshIdsUnused' /\ NoStaleAddress'
    BY <2>2, <1>3 DEF DropValue, HInv, FreshIdsUnused, NoStaleAddress
  <2>8. Abstract!Drop(r)
    <3>1. \A q \in Ids : held'[q].values = IF q = r THEN held[r].values - 1 ELSE held[q].values
      BY <2>2, <1>3, <1>4
    <3>2. [q \in Ids |-> held[q].values]'
            = [[q \in Ids |-> held[q].values] EXCEPT ![r] = @ - 1]
      BY <3>1
    <3> QED BY <3>2, <2>3, <1>4 DEF DropValue, Abstract!Drop
  <2> QED BY <2>5, <2>6, <2>7, <2>8 DEF HInv, Abstract!Next
<1>5. CASE n # 1
  <2>1. UNCHANGED <<at, open, crashed>>
    BY <1>1, <1>5 DEF DropValue
  <2>2. held' = [held EXCEPT ![r] = [addr |-> a, values |-> n - 1]]
    BY <1>5 DEF DropValue
  <2>3. held'[r].addr = a /\ held'[r].values = n - 1 /\ n - 1 \in 1..MaxCopies
    <3>1. held'[r] = [addr |-> a, values |-> n - 1]
      BY <2>2 DEF HInv, HandlesTypeOK
    <3> QED BY <3>1, <1>1, <1>5
  <2>4. HandlesTypeOK'
    <3>1. held' \in [Ids -> [addr : Addresses \cup {Nowhere}, values : 0..MaxCopies]]
      <4>1. [addr |-> a, values |-> n - 1] \in [addr : Addresses \cup {Nowhere}, values : 0..MaxCopies]
        BY <1>1, <1>5
      <4> QED BY <4>1, <2>2 DEF HInv, HandlesTypeOK
    <3>2. count' \in [Addresses -> 0..MaxCopies]
      BY <1>1 DEF DropValue, HInv, HandlesTypeOK
    <3> QED BY <3>1, <3>2, <2>1 DEF DropValue, HInv, HandlesTypeOK
  <2>5. AddressesFindTheirOwner'
    <3>1. ~crashed' /\ \A q \in Ids : q \in open' <=> held'[q].values > 0
      BY <2>1, <2>3, <1>1, <1>3 DEF HInv, AddressesFindTheirOwner
    <3>2. ASSUME NEW q \in Ids, held'[q].values > 0
          PROVE  at'[held'[q].addr] = q /\ count'[held'[q].addr] = held'[q].values
      <4>1. CASE q = r
        BY <4>1, <2>1, <2>3, <1>1, <1>2
      <4>2. CASE q # r
        <5>1. held'[q] = held[q]
          BY <4>2, <1>3
        <5>2. held[q].addr \in Addresses /\ at[held[q].addr] = q
              /\ count[held[q].addr] = held[q].values
          BY <5>1, <3>2, HeldAtAddress
        <5>3. held[q].addr # a
          BY <4>2, <5>2, <1>1
        <5> QED BY <5>1, <5>2, <5>3, <2>1, <1>2
      <4> QED BY <4>1, <4>2
    <3>3. ASSUME NEW b \in Addresses, at'[b] # Free
          PROVE  held'[at'[b]].addr = b
      <4>1. at'[b] \in Ids /\ held[at'[b]].addr = b
        BY <3>3, <2>1 DEF HInv, HandlesTypeOK, AddressesFindTheirOwner
      <4> QED BY <4>1, <2>3, <1>3
    <3> QED BY <3>1, <3>2, <3>3 DEF AddressesFindTheirOwner
  <2>6. FreshIdsUnused' /\ NoStaleAddress'
    <3>1. \A q \in Ids : (held'[q].values = 0 <=> held[q].values = 0)
                        /\ held'[q].addr = held[q].addr
      BY <2>3, <1>1, <1>3
    <3> QED BY <3>1 DEF DropValue, HInv, FreshIdsUnused, NoStaleAddress
  <2>7. Abstract!Drop(r)
    <3>1. [q \in Ids |-> held[q].values]'
            = [[q \in Ids |-> held[q].values] EXCEPT ![r] = @ - 1]
      BY <2>3, <1>3
    <3> QED BY <3>1, <2>1, <1>1, <1>5 DEF DropValue, Abstract!Drop
  <2> QED BY <2>4, <2>5, <2>6, <2>7 DEF HInv, Abstract!Next
<1> QED BY <1>4, <1>5

LEMMA UseStep ==
  ASSUME HInv, NEW r \in Ids, held[r].values > 0, BoxToResource(r)
  PROVE  HInv' /\ Abstract!Next
<1>1. at[held[r].addr] = r
  BY HeldAtAddress
<1>2. HInv'
  BY <1>1 DEF HInv, BoxToResource, HandlesTypeOK, AddressesFindTheirOwner, FreshIdsUnused,
              NoStaleAddress
<1>3. Abstract!Use(r)
  BY <1>1 DEF BoxToResource, Abstract!Use
<1> QED BY <1>2, <1>3 DEF Abstract!Next

LEMMA HandlesStart ==
  ASSUME HandlesInit
  PROVE  HInv /\ Abstract!Init
<1>1. MaxCopies \in Nat /\ MaxIds \in Nat
  BY HandlesAssumption
<1>2. \A r \in Ids : held[r] = [addr |-> Nowhere, values |-> 0]
  BY DEF HandlesInit
<1>3. HandlesTypeOK
  <2>1. 0 \in 0..MaxCopies /\ 0 \in 0..MaxIds
    BY <1>1
  <2>2. [addr |-> Nowhere, values |-> 0] \in [addr : Addresses \cup {Nowhere}, values : 0..MaxCopies]
    BY <2>1
  <2> QED BY <2>1, <2>2 DEF HandlesInit, HandlesTypeOK
<1>4. AddressesFindTheirOwner /\ FreshIdsUnused /\ NoStaleAddress
  BY <1>2 DEF HandlesInit, AddressesFindTheirOwner, FreshIdsUnused, NoStaleAddress
<1>5. Abstract!Init
  BY <1>2 DEF HandlesInit, Abstract!Init
<1> QED BY <1>3, <1>4, <1>5 DEF HInv

LEMMA StutterStep ==
  ASSUME HInv, UNCHANGED hvars
  PROVE  HInv' /\ UNCHANGED Abstract!rvars
BY DEF HInv, HandlesTypeOK, AddressesFindTheirOwner, FreshIdsUnused, NoStaleAddress, hvars,
       Abstract!rvars

LEMMA HandlesStep ==
  ASSUME HInv, HandlesNext
  PROVE  HInv' /\ Abstract!Next
<1>1. CASE roc_alloc
  BY <1>1, AllocStep DEF roc_alloc
<1>2. CASE file_reader
  BY <1>2, AllocStep, NotOpenedStep DEF file_reader, AllocFails
<1>3. CASE prepare
  BY <1>3, AllocStep, NotOpenedStep DEF prepare, AllocFails
<1>4. ASSUME NEW r \in Ids, CopyValue(r)
      PROVE  HInv' /\ Abstract!Next
  BY <1>4, CopyStep
<1>5. ASSUME NEW r \in Ids, DropValue(r)
      PROVE  HInv' /\ Abstract!Next
  BY <1>5, DropStep
<1>6. ASSUME NEW r \in Ids, UseValue(r)
      PROVE  HInv' /\ Abstract!Next
  BY <1>6, UseStep DEF UseValue
<1> QED BY <1>1, <1>2, <1>3, <1>4, <1>5, <1>6 DEF HandlesNext

(* Connecting and writing are calls on handles too; the rest of a write and
   the peers leave the handles alone.                                        *)
LEMMA TcpStep ==
  ASSUME HInv, [Next]_vars
  PROVE  HInv' /\ [Abstract!Next]_(Abstract!rvars)
<1>1. CASE HandlesNext
  BY <1>1, HandlesStep
<1>2. CASE tcp_connect
  BY <1>2, AllocStep, NotOpenedStep DEF tcp_connect, AllocFails
<1>3. ASSUME NEW r \in Ids, NEW n \in Lengths, tcp_write(r, n)
      PROVE  HInv' /\ [Abstract!Next]_(Abstract!rvars)
  BY <1>3, UseStep DEF tcp_write
<1>4. CASE UNCHANGED hvars
  BY <1>4, StutterStep
<1>5. (\E r \in Ids : PeerReads(r) \/ PeerGoes(r)) => UNCHANGED hvars
  BY DEF PeerReads, PeerGoes
<1>6. WriteSome \/ WriteInterrupted \/ WriteFails \/ WriteReturns => UNCHANGED hvars
  BY DEF WriteSome, WriteInterrupted, WriteFails, WriteReturns, WriteEnds, vars
<1>7. UNCHANGED vars => UNCHANGED hvars
  BY DEF vars
<1> QED BY <1>1, <1>2, <1>3, <1>4, <1>5, <1>6, <1>7 DEF Next

-----------------------------------------------------------------------------
(* The inductive invariant holds in every reachable state. *)
THEOREM HandlesInvariant == Spec => []HInv
<1>1. Init => HInv
  BY HandlesStart DEF Init
<1>2. HInv /\ [Next]_vars => HInv'
  BY TcpStep
<1> QED BY <1>1, <1>2, PTL DEF Spec

(* However handles and memory are allocated, shared and dropped, roc_dealloc
   recognises from the address alone whose it is, and what is open is what
   some value still reaches.                                                 *)
THEOREM HandlesFindTheirOwner == Spec => []AddressesFindTheirOwner
<1>1. HInv => AddressesFindTheirOwner
  BY DEF HInv
<1> QED BY <1>1, HandlesInvariant, PTL

(* Handles behave like the resources they stand for. *)
THEOREM HandlesImplementResources == Spec => ImplementsResources
<1>1. Init => Abstract!Init
  BY HandlesStart DEF Init
<1>2. HInv /\ [Next]_vars => [Abstract!Next]_(Abstract!rvars)
  BY TcpStep
<1> QED BY <1>1, <1>2, HandlesInvariant, PTL DEF Spec, ImplementsResources, Abstract!Spec

-----------------------------------------------------------------------------
(* What the peers receive. *)

Bytes == [call : Nat, pos : Nat]
Entries == [conn : Ids, len : Lengths, end : {"running", "ok", "err"}]
WriteOps == [fn : {"tcp_write"}, conn : Ids, call : 1..MaxWrites, len : Lengths, done : Nat]

(* Everything connection r carried and the peer has read or still can read. *)
Sent(r) == got[r] \o wire[r]

(* In a log l: byte a ends a message whose call returned Ok; b is next after a. *)
Whole(l, a) == a.pos = l[a.call].len /\ l[a.call].end = "ok"
FollowsIn(l, b, a) ==
  IF b.call = a.call THEN b.pos = a.pos + 1
                     ELSE b.call > a.call /\ b.pos = 1 /\ Whole(l, a)

(* s is made of messages of connection r, in order and without gaps. *)
Messages(s, r, l) ==
  /\ s # <<>> => s[1].pos = 1
  /\ \A i \in 1..Len(s) : s[i].call \in 1..Len(l) /\ l[s[i].call].conn = r
  /\ \A i \in 2..Len(s) : FollowsIn(l, s[i], s[i - 1])

(* Whatever was answered with Ok on r is in s to its last byte. *)
Arrived(s, r, l) ==
  \A c \in 1..Len(l) :
    l[c].conn = r /\ l[c].end = "ok" /\ l[c].len > 0 =>
      \E i \in 1..Len(s) : s[i] = Byte(c, l[c].len)

(* Where s ends while no call is half way: after a whole message. *)
EndsWhole(s, l) == s # <<>> => Whole(l, s[Len(s)])

(* Where it ends while one is. *)
EndsAt(s, c, d) == s # <<>> /\ s[Len(s)] = Byte(c, d)

HalfWay(r) == Writing /\ op.conn = r /\ op.done > 0

-----------------------------------------------------------------------------
WriteTypes ==
  /\ op = Idle \/ (op \in WriteOps /\ op.done <= op.len)
  /\ log \in Seq(Entries) /\ Len(log) <= MaxWrites
  /\ peer \in [Ids -> {"none", "up", "gone"}]
  /\ wire \in [Ids -> Seq(Bytes)] /\ got \in [Ids -> Seq(Bytes)]
  /\ \A r \in Ids : Len(wire[r]) <= SndBuf

(* The call in progress is the last one, and the only one without an end. *)
LastRuns ==
  /\ Writing => /\ op.call = Len(log)
                /\ log[op.call] = [conn |-> op.conn, len |-> op.len, end |-> "running"]
  /\ \A c \in 1..Len(log) : log[c].end = "running" => Writing /\ c = op.call

(* Calls were made on connections there were. *)
Known == \A c \in 1..Len(log) : log[c].conn <= made

(* What a connection carried, and where that ends as long as it lives. *)
Carries(r) ==
  /\ Messages(Sent(r), r, log)
  /\ peer[r] = "up" =>
       /\ Arrived(Sent(r), r, log)
       /\ HalfWay(r) => EndsAt(Sent(r), op.call, op.done)
       /\ ~HalfWay(r) => EndsWhole(Sent(r), log)

(* The inductive invariant, on top of that of the handles. *)
TcpInv == HInv /\ WriteTypes /\ LastRuns /\ Known /\ \A r \in Ids : Carries(r)

-----------------------------------------------------------------------------
(* Logs and byte strings.                                                    *)

(* l2 is l with more calls, or with an end for one that had none. *)
Continues(l, l2) ==
  /\ Len(l) \in Nat /\ Len(l2) \in Nat /\ Len(l) <= Len(l2)
  /\ \A c \in 1..Len(l) :
       /\ l2[c].conn = l[c].conn /\ l2[c].len = l[c].len
       /\ l[c].end = "ok" => l2[c].end = "ok"

LEMMA LogContinues ==
  ASSUME NEW l, NEW l2, Continues(l, l2), NEW r, NEW s \in Seq(Bytes), Messages(s, r, l)
  PROVE  /\ Messages(s, r, l2)
         /\ EndsWhole(s, l) => EndsWhole(s, l2)
<1>1. Len(s) \in Nat /\ \A i \in 1..Len(s) : s[i] \in Bytes
  OBVIOUS
<1>2. \A i \in 1..Len(s) : Whole(l, s[i]) => Whole(l2, s[i])
  BY DEF Messages, Continues, Whole
<1>3. \A i \in 1..Len(s) : s[i].call \in 1..Len(l2) /\ l2[s[i].call].conn = r
  <2>1. \A i \in 1..Len(s) : s[i].call \in 1..Len(l) /\ l[s[i].call].conn = r
    BY DEF Messages
  <2>2. \A c \in 1..Len(l) : l2[c].conn = l[c].conn
    BY DEF Continues
  <2>3. \A c \in 1..Len(l) : c \in 1..Len(l2)
    BY DEF Continues
  <2> QED BY <2>1, <2>2, <2>3
<1>4. \A i \in 2..Len(s) : i - 1 \in 1..Len(s)
  BY <1>1
<1>5. \A i \in 2..Len(s) : FollowsIn(l2, s[i], s[i - 1])
  BY <1>2, <1>4 DEF Messages, FollowsIn
<1>6. s # <<>> => Len(s) \in 1..Len(s)
  BY <1>1, EmptySeq
<1> QED BY <1>2, <1>3, <1>5, <1>6 DEF Messages, EndsWhole

(* The start of what was carried was carried. *)
LEMMA StartCarried ==
  ASSUME NEW l, NEW r, NEW s \in Seq(Bytes), Messages(s, r, l), NEW t \in Seq(Bytes),
         Len(t) <= Len(s), \A i \in 1..Len(t) : t[i] = s[i]
  PROVE  Messages(t, r, l)
<1>1. Len(s) \in Nat /\ Len(t) \in Nat /\ (t # <<>> => Len(t) > 0) /\ (s = <<>> => Len(s) = 0)
  BY EmptySeq
<1>2. t # <<>> => s # <<>> /\ t[1] = s[1]
  BY <1>1
<1>3. \A i \in 2..Len(t) : i - 1 \in 1..Len(t) /\ i \in 1..Len(t) /\ i \in 2..Len(s)
  BY <1>1
<1>4. \A i \in 1..Len(t) : i \in 1..Len(s)
  BY <1>1
<1> QED BY <1>2, <1>3, <1>4 DEF Messages

(* t is s and then n more bytes of message c, from d on. *)
Adds(t, s, c, d, n) ==
  /\ Len(t) = Len(s) + n
  /\ \A i \in 1..Len(s) : t[i] = s[i]
  /\ \A i \in 1..n : t[Len(s) + i] = Byte(c, d + i)

(* More of the last message, or the start of the next one, can be sent. *)
LEMMA MoreCarried ==
  ASSUME NEW l, NEW r, NEW s \in Seq(Bytes), NEW t \in Seq(Bytes),
         NEW n \in Nat, n > 0, NEW c, NEW d \in Nat, Len(l) \in Nat,
         Messages(s, r, l), Adds(t, s, c, d, n), c = Len(l), c > 0,
         l[c].conn = r, l[c].end = "running",
         IF d > 0 THEN EndsAt(s, c, d) ELSE EndsWhole(s, l)
  PROVE  Messages(t, r, l) /\ EndsAt(t, c, d + n)
<1>1. Len(s) \in Nat /\ (s # <<>> <=> Len(s) > 0) /\ Len(t) = Len(s) + n /\ t # <<>>
  <2>1. Len(t) = Len(s) + n
    BY DEF Adds
  <2> QED BY <2>1, EmptySeq
<1>2. \A i \in 1..Len(t) : i \in 1..Len(s) \/ (i - Len(s) \in 1..n /\ Len(s) + (i - Len(s)) = i)
  <2> DEFINE a == Len(s)
  <2>1. a \in Nat /\ Len(t) = a + n
    BY <1>1
  <2> HIDE DEF a
  <2>2. ASSUME NEW i \in 1..(a + n)
        PROVE  i \in 1..a \/ (i - a \in 1..n /\ a + (i - a) = i)
    BY <2>1
  <2> QED BY <2>1, <2>2 DEF a
<1>3. \A i \in 1..Len(s) : t[i] = s[i] /\ s[i].call \in 1..Len(l) /\ l[s[i].call].conn = r
  BY DEF Adds, Messages
<1>4. \A i \in 1..n : t[Len(s) + i].call = c /\ t[Len(s) + i].pos = d + i
  <2>1. \A i \in 1..n : t[Len(s) + i] = Byte(c, d + i)
    BY DEF Adds
  <2>2. \A i \in 1..n : Byte(c, d + i).call = c /\ Byte(c, d + i).pos = d + i
    BY DEF Byte
  <2> QED BY <2>1, <2>2
<1>5. \A i \in 1..Len(t) : t[i].call \in 1..Len(l) /\ l[t[i].call].conn = r
  <2> TAKE i \in 1..Len(t)
  <2>1. CASE i \in 1..Len(s)
    BY <1>3, <2>1
  <2>2. CASE i \notin 1..Len(s)
    <3>1. i - Len(s) \in 1..n /\ Len(s) + (i - Len(s)) = i
      BY <1>2, <2>2
    <3>2. PICK k \in 1..n : Len(s) + k = i
      BY <3>1
    <3>3. t[i].call = c
      BY <1>4, <3>2
    <3>4. c \in 1..Len(l) /\ l[c].conn = r
      OBVIOUS
    <3> QED BY <3>3, <3>4
  <2> QED BY <2>1, <2>2
<1>6. t[1].pos = 1
  <2>1. CASE Len(s) > 0
    BY <1>1, <1>3, <2>1 DEF Messages
  <2>2. CASE Len(s) = 0
    <3>1. d = 0
      BY <1>1, <2>2 DEF EndsAt
    <3>2. 1 \in 1..n /\ Len(s) + 1 = 1 /\ d + 1 = 1
      BY <2>2, <3>1
    <3> QED BY <1>4, <3>2
  <2> QED BY <1>1, <2>1, <2>2
<1>7. ASSUME NEW i \in 2..Len(t) PROVE FollowsIn(l, t[i], t[i - 1])
  <2>1. CASE i \in 2..Len(s)
    <3>1. i \in 1..Len(s) /\ i - 1 \in 1..Len(s)
      BY <1>1, <2>1
    <3> QED BY <1>3, <2>1, <3>1 DEF Messages
  <2>2. CASE i = Len(s) + 1
    <3>1. 1 \in 1..n /\ t[i].call = c /\ t[i].pos = d + 1
      BY <1>4, <2>2
    <3>2. i - 1 = Len(s) /\ Len(s) \in 1..Len(s) /\ s # <<>>
      BY <1>1, <2>2
    <3>3. t[i - 1] = s[Len(s)] /\ s[Len(s)].call \in 1..Len(l)
      BY <1>3, <3>2
    <3>4. CASE d > 0
      <4>1. s[Len(s)].call = c /\ s[Len(s)].pos = d
        BY <3>4 DEF EndsAt, Byte
      <4> QED BY <3>1, <3>3, <4>1 DEF FollowsIn
    <3>5. CASE d = 0
      <4>1. Whole(l, s[Len(s)])
        BY <3>2, <3>5 DEF EndsWhole
      <4>2. s[Len(s)].call # c
        BY <4>1 DEF Whole
      <4>3. c > s[Len(s)].call
        BY <3>3, <4>2
      <4> QED BY <3>1, <3>3, <3>5, <4>1, <4>2, <4>3 DEF FollowsIn
    <3> QED BY <3>4, <3>5
  <2>3. CASE i > Len(s) + 1
    <3>1. /\ i - Len(s) \in 1..n /\ Len(s) + (i - Len(s)) = i
          /\ (i - 1) - Len(s) \in 1..n /\ Len(s) + ((i - 1) - Len(s)) = i - 1
      BY <1>1, <2>3
    <3>2. /\ t[i].call = c /\ t[i].pos = d + (i - Len(s))
          /\ t[i - 1].call = c /\ t[i - 1].pos = d + ((i - 1) - Len(s))
      BY <1>4, <3>1
    <3>3. t[i].pos = t[i - 1].pos + 1
      BY <1>1, <3>2
    <3> QED BY <3>2, <3>3 DEF FollowsIn
  <2> QED BY <1>1, <2>1, <2>2, <2>3
<1>8. EndsAt(t, c, d + n)
  <2>1. t[Len(s) + n] = Byte(c, d + n)
    <3>1. n \in 1..n
      OBVIOUS
    <3> QED BY <3>1 DEF Adds
  <2> QED BY <1>1, <2>1 DEF EndsAt
<1> QED BY <1>5, <1>6, <1>7, <1>8 DEF Messages

(* What has arrived stays there when more is sent. *)
LEMMA StaysArrived ==
  ASSUME NEW l, NEW r, NEW s \in Seq(Bytes), NEW t \in Seq(Bytes), Arrived(s, r, l),
         Len(s) <= Len(t), \A i \in 1..Len(s) : t[i] = s[i]
  PROVE  Arrived(t, r, l)
<1>1. \A i \in 1..Len(s) : i \in 1..Len(t)
  OBVIOUS
<1> QED BY <1>1 DEF Arrived

-----------------------------------------------------------------------------
(* What sending and reading do to the bytes of a connection.                 *)

LEMMA SentIsBytes ==
  ASSUME WriteTypes, NEW r \in Ids
  PROVE  /\ Sent(r) \in Seq(Bytes) /\ got[r] \in Seq(Bytes) /\ wire[r] \in Seq(Bytes)
         /\ Len(Sent(r)) = Len(got[r]) + Len(wire[r])
         /\ Len(Sent(r)) \in Nat /\ Len(got[r]) \in Nat /\ Len(wire[r]) \in Nat
         /\ \A i \in 1..Len(got[r]) + Len(wire[r]) :
              Sent(r)[i] = IF i <= Len(got[r]) THEN got[r][i] ELSE wire[r][i - Len(got[r])]
<1> DEFINE g == got[r]
           w == wire[r]
<1>1. g \in Seq(Bytes) /\ w \in Seq(Bytes)
  BY DEF WriteTypes
<1> HIDE DEF g, w
<1>2. /\ g \o w \in Seq(Bytes) /\ Len(g \o w) = Len(g) + Len(w)
      /\ \A i \in 1..Len(g) + Len(w) : (g \o w)[i] = IF i <= Len(g) THEN g[i] ELSE w[i - Len(g)]
  BY <1>1, ConcatProperties
<1>3. Sent(r) = g \o w /\ Len(g) \in Nat /\ Len(w) \in Nat
  BY <1>1 DEF Sent, g, w
<1>4. Len(Sent(r)) \in Nat
  BY <1>2, <1>3
<1> QED BY <1>1, <1>2, <1>3, <1>4 DEF g, w

Sends(g, w, x, c, d, n) ==
  /\ w \o x \in Seq(Bytes) /\ Len(w \o x) = Len(w) + n
  /\ g \o (w \o x) \in Seq(Bytes)
  /\ Adds(g \o (w \o x), g \o w, c, d, n)
LEMMA SendAdds ==
  ASSUME NEW g \in Seq(Bytes), NEW w \in Seq(Bytes), NEW c, NEW d \in Nat, NEW n \in Nat, c \in Nat,
         NEW x, x = [i \in 1..n |-> Byte(c, d + i)]
  PROVE  Sends(g, w, x, c, d, n)
<1>1. x \in Seq(Bytes) /\ Len(x) = n /\ \A i \in 1..n : x[i] = Byte(c, d + i)
  BY DEF Bytes, Byte
<1>2. /\ w \o x \in Seq(Bytes) /\ Len(w \o x) = Len(w) + n
      /\ \A i \in 1..Len(w) + n : (w \o x)[i] = IF i <= Len(w) THEN w[i] ELSE x[i - Len(w)]
  BY <1>1, ConcatProperties
<1>3. /\ g \o w \in Seq(Bytes) /\ Len(g \o w) = Len(g) + Len(w)
      /\ \A i \in 1..Len(g) + Len(w) : (g \o w)[i] = IF i <= Len(g) THEN g[i] ELSE w[i - Len(g)]
  BY ConcatProperties
<1>a. Len(g) \in Nat /\ Len(w) \in Nat
  OBVIOUS
<1> DEFINE y == w \o x
           s == g \o w
           t == g \o y
<1>4. /\ t \in Seq(Bytes) /\ Len(t) = Len(g) + Len(y)
      /\ \A i \in 1..Len(g) + Len(y) : t[i] = IF i <= Len(g) THEN g[i] ELSE y[i - Len(g)]
  BY <1>2, ConcatProperties
<1>b. /\ y \in Seq(Bytes) /\ Len(y) = Len(w) + n
      /\ \A i \in 1..Len(w) + n : y[i] = IF i <= Len(w) THEN w[i] ELSE x[i - Len(w)]
  BY <1>2
<1>c. /\ s \in Seq(Bytes) /\ Len(s) = Len(g) + Len(w)
      /\ \A i \in 1..Len(g) + Len(w) : s[i] = IF i <= Len(g) THEN g[i] ELSE w[i - Len(g)]
  BY <1>3
<1> HIDE DEF y, s, t
<1>5. Len(t) = Len(s) + n
  BY <1>4, <1>a, <1>b, <1>c
<1>6. ASSUME NEW i \in 1..Len(s) PROVE t[i] = s[i]
  <2>1. i \in 1..Len(g) + Len(y) /\ i \in 1..Len(g) + Len(w)
    BY <1>a, <1>b, <1>c
  <2>2. CASE i <= Len(g)
    BY <1>4, <1>c, <2>1, <2>2
  <2>3. CASE ~(i <= Len(g))
    <3>1. i - Len(g) \in 1..Len(w) + n /\ i - Len(g) <= Len(w)
      BY <1>a, <1>b, <1>c, <2>3
    <3> QED BY <1>4, <1>b, <1>c, <2>1, <2>3, <3>1
  <2> QED BY <2>2, <2>3
<1>7. ASSUME NEW i \in 1..n PROVE t[Len(s) + i] = Byte(c, d + i)
  <2>1. /\ Len(s) + i \in 1..Len(g) + Len(y) /\ ~(Len(s) + i <= Len(g))
        /\ (Len(s) + i) - Len(g) = Len(w) + i
        /\ Len(w) + i \in 1..Len(w) + n /\ ~(Len(w) + i <= Len(w)) /\ (Len(w) + i) - Len(w) = i
    BY <1>a, <1>b, <1>c
  <2>2. t[Len(s) + i] = y[Len(w) + i]
    BY <1>4, <2>1
  <2>3. y[Len(w) + i] = x[i]
    BY <1>b, <2>1
  <2> QED BY <1>1, <2>2, <2>3
<1>8. Adds(t, s, c, d, n)
  BY <1>5, <1>6, <1>7 DEF Adds
<1> QED BY <1>2, <1>4, <1>8 DEF y, s, t, Sends

LEMMA ReadKeeps ==
  ASSUME NEW g \in Seq(Bytes), NEW w \in Seq(Bytes), w # <<>>
  PROVE  /\ Append(g, Head(w)) \in Seq(Bytes) /\ Tail(w) \in Seq(Bytes)
         /\ Len(Tail(w)) = Len(w) - 1
         /\ Append(g, Head(w)) \o Tail(w) = g \o w
<1>1. /\ Head(w) \in Bytes /\ Tail(w) \in Seq(Bytes) /\ Len(Tail(w)) = Len(w) - 1
      /\ Len(w) \in Nat \ {0} /\ Head(w) = w[1]
  BY HeadTailProperties, EmptySeq
<1>2. \A i \in 1..Len(Tail(w)) : Tail(w)[i] = w[i + 1]
  BY HeadTailProperties
<1> DEFINE a == Append(g, Head(w))
           v == Tail(w)
<1>3. /\ a \in Seq(Bytes) /\ Len(a) = Len(g) + 1 /\ Len(g) \in Nat
      /\ a[Len(g) + 1] = w[1] /\ \A i \in 1..Len(g) : a[i] = g[i]
  BY <1>1, AppendProperties
<1>4. v \in Seq(Bytes) /\ Len(v) = Len(w) - 1 /\ \A i \in 1..Len(v) : v[i] = w[i + 1]
  BY <1>1, <1>2
<1> HIDE DEF a, v
<1> DEFINE p == a \o v
           q == g \o w
<1>5. /\ p \in Seq(Bytes) /\ Len(p) = Len(a) + Len(v)
      /\ \A i \in 1..Len(a) + Len(v) : p[i] = IF i <= Len(a) THEN a[i] ELSE v[i - Len(a)]
  BY <1>3, <1>4, ConcatProperties
<1>6. /\ q \in Seq(Bytes) /\ Len(q) = Len(g) + Len(w)
      /\ \A i \in 1..Len(g) + Len(w) : q[i] = IF i <= Len(g) THEN g[i] ELSE w[i - Len(g)]
  BY ConcatProperties
<1> HIDE DEF p, q
<1>7. Len(p) = Len(q)
  BY <1>1, <1>3, <1>4, <1>5, <1>6
<1>8. ASSUME NEW i \in 1..Len(p) PROVE p[i] = q[i]
  <2>1. i \in 1..Len(a) + Len(v) /\ i \in 1..Len(g) + Len(w)
    BY <1>5, <1>6, <1>7
  <2>2. CASE i <= Len(g)
    BY <1>3, <1>5, <1>6, <2>1, <2>2
  <2>3. CASE i = Len(g) + 1
    <3>1. i - Len(g) = 1 /\ i <= Len(a) /\ ~(i <= Len(g))
      BY <1>3, <2>3
    <3> QED BY <1>3, <1>5, <1>6, <2>1, <2>3, <3>1
  <2>4. CASE i > Len(g) + 1
    <3>1. i - Len(a) \in 1..Len(v) /\ (i - Len(a)) + 1 = i - Len(g)
          /\ ~(i <= Len(a)) /\ ~(i <= Len(g))
      BY <1>1, <1>3, <1>4, <2>1, <2>4
    <3>2. p[i] = v[i - Len(a)] /\ q[i] = w[i - Len(g)]
      BY <1>5, <1>6, <2>1, <3>1
    <3> QED BY <1>4, <3>1, <3>2
  <2> QED BY <1>3, <2>1, <2>2, <2>3, <2>4
<1>9. p = q
  BY <1>5, <1>6, <1>7, <1>8, SeqEqual
<1> QED BY <1>1, <1>3, <1>4, <1>9 DEF p, q, a, v

-----------------------------------------------------------------------------
(* One lemma per kind of step.                                               *)

(* A connection no byte of which moves. *)
LEMMA StillCarries ==
  ASSUME TcpInv, NEW q \in Ids, Continues(log, log'), got'[q] = got[q], wire'[q] = wire[q],
         peer'[q] = peer[q], HalfWay(q)' <=> HalfWay(q),
         HalfWay(q) => op'.call = op.call /\ op'.done = op.done,
         \A c \in 1..Len(log') : log'[c].conn = q /\ log'[c].end = "ok" =>
           /\ c \in 1..Len(log) /\ log[c].conn = q /\ log[c].end = "ok"
           /\ log'[c].len = log[c].len
  PROVE  Carries(q)'
<1>1. Sent(q)' = Sent(q) /\ Sent(q) \in Seq(Bytes) /\ Carries(q)
  BY SentIsBytes DEF Sent, TcpInv
<1> DEFINE s == Sent(q)
<1>2. s' = s /\ s \in Seq(Bytes)
  BY <1>1
<1>3. /\ Messages(s, q, log)
      /\ peer[q] = "up" =>
           /\ Arrived(s, q, log)
           /\ HalfWay(q) => EndsAt(s, op.call, op.done)
           /\ ~HalfWay(q) => EndsWhole(s, log)
  BY <1>1 DEF Carries
<1> HIDE DEF s
<1>4. Messages(s, q, log') /\ (EndsWhole(s, log) => EndsWhole(s, log'))
  BY <1>2, <1>3, LogContinues
<1>5. Arrived(s, q, log) => Arrived(s, q, log')
  <2> SUFFICES ASSUME Arrived(s, q, log), NEW c \in 1..Len(log'),
                      log'[c].conn = q, log'[c].end = "ok", log'[c].len > 0
               PROVE  \E i \in 1..Len(s) : s[i] = Byte(c, log'[c].len)
    BY DEF Arrived
  <2>1. /\ c \in 1..Len(log) /\ log[c].conn = q /\ log[c].end = "ok"
        /\ log'[c].len = log[c].len
    OBVIOUS
  <2> QED BY <2>1 DEF Arrived
<1>6. /\ Messages(s, q, log')
      /\ peer'[q] = "up" =>
           /\ Arrived(s, q, log')
           /\ HalfWay(q)' => EndsAt(s, op'.call, op'.done)
           /\ ~HalfWay(q)' => EndsWhole(s, log')
  BY <1>3, <1>4, <1>5
<1>7. Sent(q)' = s
  BY <1>1 DEF s
<1> QED BY <1>6, <1>7 DEF Carries, Messages, Arrived, EndsAt, EndsWhole

(* A log continues itself. *)
LEMMA LogIsLog ==
  ASSUME WriteTypes
  PROVE  /\ Continues(log, log) /\ Len(log) \in Nat
         /\ \A c \in 1..Len(log) : log[c] \in Entries
BY DEF Continues, WriteTypes

(* Handles come, are shared and go between the writes. *)
LEMMA HandlesQuiet ==
  ASSUME TcpInv, HandlesNext, UNCHANGED tvars
  PROVE  WriteTypes' /\ LastRuns' /\ Known' /\ \A r \in Ids : Carries(r)'
<1>1. made \in Nat /\ (made' = made \/ made' = made + 1)
  <2>1. made \in Nat
    BY DEF TcpInv, HInv, HandlesTypeOK
  <2> QED BY <2>1 DEF HandlesNext, roc_alloc, file_reader, prepare, Fresh, CopyValue,
            DropValue, UseValue, BoxToResource
<1>2. WriteTypes' /\ LastRuns'
  BY DEF TcpInv, WriteTypes, LastRuns, Writing, tvars
<1>3. Known'
  <2>1. \A c \in 1..Len(log) : log[c].conn \in Ids /\ log[c].conn <= made
    BY LogIsLog DEF TcpInv, Known, Entries
  <2>2. \A c \in 1..Len(log) : log[c].conn <= made'
    BY <1>1, <2>1 DEF Ids
  <2> QED BY <2>2 DEF Known, tvars
<1>4. ASSUME NEW r \in Ids PROVE Carries(r)'
  <2>1. /\ log' = log /\ op' = op /\ got'[r] = got[r] /\ wire'[r] = wire[r]
        /\ peer'[r] = peer[r] /\ (HalfWay(r)' <=> HalfWay(r))
    BY DEF tvars, HalfWay, Writing
  <2>2. Continues(log, log')
    BY <2>1, LogIsLog DEF TcpInv
  <2> QED BY <2>1, <2>2, StillCarries
<1> QED BY <1>2, <1>3, <1>4

(* A new connection has carried nothing, and nothing was written to it. *)
LEMMA ConnectStep ==
  ASSUME TcpInv, tcp_connect
  PROVE  WriteTypes' /\ LastRuns' /\ Known' /\ \A r \in Ids : Carries(r)'
<1>a. made \in Nat /\ MaxIds \in Nat /\ made < MaxIds
  BY HandlesAssumption DEF tcp_connect, Fresh, TcpInv, HInv, HandlesTypeOK
<1>b. made + 1 \in Ids
  BY <1>a DEF Ids
<1>0. PICK n \in Ids : n = made + 1
  BY <1>b
<1>1. /\ op = Idle /\ UNCHANGED <<op, log, wire, got>> /\ made' = n /\ made < MaxIds
      /\ made \in Nat /\ n \in Ids
      /\ peer' = peer \/ peer' = [peer EXCEPT ![n] = "up"]
  BY <1>0, <1>a DEF tcp_connect, Fresh
<1>2. WriteTypes' /\ LastRuns'
  BY <1>1 DEF TcpInv, WriteTypes, LastRuns, Writing
<1>3. /\ \A c \in 1..Len(log) : log[c].conn \in Nat /\ log[c].conn <= made
      /\ made < n /\ n \in Nat
  BY <1>0, <1>1, LogIsLog DEF TcpInv, Known, Entries, Ids
<1>4. Known'
  <2>1. \A c \in 1..Len(log) : log[c].conn <= n
    BY <1>1, <1>3
  <2> QED BY <1>1, <2>1 DEF Known
<1>5. ~Writing /\ ~Writing'
  BY <1>1 DEF Writing, Idle
<1>6. ASSUME NEW r \in Ids, peer'[r] = peer[r] PROVE Carries(r)'
  <2>1. /\ Continues(log, log') /\ got'[r] = got[r] /\ wire'[r] = wire[r]
        /\ (HalfWay(r)' <=> HalfWay(r)) /\ op'.call = op.call /\ op'.done = op.done
        /\ log' = log
    BY <1>1, <1>5, LogIsLog DEF TcpInv, HalfWay
  <2> QED BY <1>6, <2>1, StillCarries
<1>7. Carries(n)'
  <2> DEFINE s == Sent(n)
  <2>1. Sent(n)' = s /\ s \in Seq(Bytes) /\ Messages(s, n, log)
    BY <1>1, SentIsBytes DEF Sent, TcpInv, Carries
  <2> HIDE DEF s
  <2>2. \A i \in 1..Len(s) : s[i].call \in 1..Len(log) /\ log[s[i].call].conn = n
    BY <2>1 DEF Messages
  <2>3. \A c \in 1..Len(log) : log[c].conn # n
    BY <1>1, <1>3
  <2>4. s = <<>>
    <3>1. s # <<>> => Len(s) \in Nat \ {0} /\ 1 \in 1..Len(s)
      BY <2>1, EmptySeq
    <3> QED BY <2>2, <2>3, <3>1
  <2>5. Messages(s, n, log) /\ Arrived(s, n, log) /\ EndsWhole(s, log) /\ ~HalfWay(n)'
    BY <1>5, <2>1, <2>3, <2>4 DEF Arrived, EndsWhole, HalfWay
  <2> QED BY <1>1, <2>1, <2>5 DEF Carries, Messages, Arrived, EndsWhole
<1>8. \A r \in Ids : r # n => peer'[r] = peer[r]
  BY <1>1 DEF TcpInv, WriteTypes
<1> QED BY <1>2, <1>4, <1>6, <1>7, <1>8

(* A call begins behind whole messages. *)
LEMMA WriteStep ==
  ASSUME TcpInv, NEW r \in Ids, NEW n \in Lengths, tcp_write(r, n)
  PROVE  WriteTypes' /\ LastRuns' /\ Known' /\ \A q \in Ids : Carries(q)'
<1> DEFINE e == [conn |-> r, len |-> n, end |-> "running"]
           c == Len(log) + 1
<1>1. /\ op = Idle /\ Len(log) < MaxWrites /\ held[r].values > 0
      /\ log' = Append(log, e) /\ UNCHANGED <<peer, wire, got, made>>
      /\ op' = [fn |-> "tcp_write", conn |-> at[held[r].addr], call |-> c,
                 len |-> n, done |-> 0]
  BY DEF tcp_write, BoxToResource
<1>2. at[held[r].addr] = r /\ r <= made /\ n \in Nat /\ MaxWrites \in Nat
  <2>1. HInv
    BY DEF TcpInv
  <2>2. made \in Nat /\ r \in Nat /\ ~(r > made)
    <3>1. held[r].values # 0
      BY <1>1
    <3> QED BY <2>1, <3>1 DEF HInv, FreshIdsUnused, HandlesTypeOK, Ids
  <2> QED BY <1>1, <2>1, <2>2, HeldAtAddress, TcpAssumption
<1>3. e \in Entries /\ log \in Seq(Entries) /\ Len(log) \in Nat
      /\ \A i \in 1..Len(log) : log[i] \in Entries
  BY LogIsLog DEF TcpInv, WriteTypes, Entries
<1>4. /\ log' \in Seq(Entries) /\ Len(log') = c /\ log'[c] = e
      /\ \A i \in 1..Len(log) : log'[i] = log[i]
  BY <1>1, <1>3, AppendProperties
<1>5. \A i \in 1..Len(log') : i = c \/ i \in 1..Len(log)
  BY <1>3, <1>4
<1>6. op' \in WriteOps /\ op'.done = 0 /\ op'.call = c /\ op'.conn = r /\ op'.len = n
      /\ op'.fn = "tcp_write" /\ op'.done <= op'.len /\ c \in 1..Len(log')
  BY <1>1, <1>2, <1>3, <1>4 DEF WriteOps
<1> HIDE DEF e, c
<1>7. WriteTypes'
  <2>1. Len(log') <= MaxWrites
    BY <1>1, <1>2, <1>3, <1>4 DEF c
  <2> QED BY <1>1, <1>4, <1>6, <2>1 DEF TcpInv, WriteTypes
<1>8. \A i \in 1..Len(log) : log[i].end # "running"
  BY <1>1 DEF TcpInv, LastRuns, Writing, Idle
<1>9. LastRuns'
  BY <1>4, <1>5, <1>6, <1>8 DEF LastRuns, Writing, e
<1>10. Known'
  <2>1. e.conn = r
    BY DEF e
  <2> QED BY <1>1, <1>2, <1>4, <1>5, <2>1 DEF Known, TcpInv
<1>11. Continues(log, log')
  BY <1>3, <1>4 DEF Continues, c
<1>12. ASSUME NEW q \in Ids PROVE Carries(q)'
  <2>1. ~HalfWay(q) /\ ~HalfWay(q)'
    BY <1>1, <1>6 DEF HalfWay, Writing, Idle
  <2>2. \A i \in 1..Len(log') : log'[i].end = "ok" => i \in 1..Len(log) /\ log'[i] = log[i]
    <3>1. e.end = "running"
      BY DEF e
    <3> QED BY <1>4, <1>5, <3>1
  <2> QED BY <1>1, <1>11, <2>1, <2>2, StillCarries
<1> QED BY <1>7, <1>9, <1>10, <1>12

(* The kernel takes more of the message: it follows what the connection carried. *)
LEMMA SendStep ==
  ASSUME TcpInv, WriteSome
  PROVE  WriteTypes' /\ LastRuns' /\ Known' /\ \A q \in Ids : Carries(q)'
<1>0. Writing /\ op.done < op.len /\ peer[op.conn] = "up" /\ UNCHANGED <<made, log, peer, got>>
  BY DEF WriteSome, Unfinished, hvars
<1>3. op \in WriteOps /\ op.done <= op.len
  BY <1>0 DEF TcpInv, WriteTypes, Writing, Idle
<1>a. op.conn \in Ids
  BY <1>3 DEF WriteOps
<1>r. PICK r \in Ids : r = op.conn
  BY <1>a
<1>1. Writing /\ op.done < op.len /\ peer[r] = "up" /\ UNCHANGED <<made, log, peer, got>>
  BY <1>0, <1>r
<1>2. PICK n \in 1..Room :
        n <= op.len - op.done /\ Send(n) /\ op' = [op EXCEPT !.done = @ + n]
  BY DEF WriteSome
<1>4. r \in Ids /\ op.call \in Nat /\ op.call > 0 /\ op.done \in Nat /\ op.len \in Nat
      /\ op.fn = "tcp_write"
  <2>1. op.call \in 1..MaxWrites /\ op.len \in Lengths /\ op.done \in Nat /\ op.fn = "tcp_write"
    BY <1>3 DEF WriteOps
  <2>2. op.call \in Nat /\ op.call > 0
    BY <2>1, TcpAssumption
  <2>3. op.len \in Nat
    BY <2>1, TcpAssumption
  <2> QED BY <2>1, <2>2, <2>3
<1>5. /\ wire \in [Ids -> Seq(Bytes)] /\ got \in [Ids -> Seq(Bytes)]
      /\ wire[r] \in Seq(Bytes) /\ got[r] \in Seq(Bytes) /\ Len(wire[r]) \in Nat
  BY <1>4 DEF TcpInv, WriteTypes
<1>6. n \in Nat /\ n > 0 /\ Len(wire[r]) + n <= SndBuf /\ op.done + n <= op.len
  <2>1. n \in 1..(SndBuf - Len(wire[r]))
    BY <1>r DEF Room
  <2> QED BY <1>2, <1>4, <1>5, <2>1, TcpAssumption
<1>7. /\ op'.fn = "tcp_write" /\ op'.conn = r /\ op'.call = op.call /\ op'.len = op.len
      /\ op'.done = op.done + n /\ op' \in WriteOps /\ op'.done <= op'.len
  BY <1>2, <1>3, <1>6, <1>r DEF WriteOps
<1> DEFINE x == [i \in 1..n |-> Byte(op.call, op.done + i)]
<1>8. wire' = [wire EXCEPT ![r] = wire[r] \o x]
  BY <1>2, <1>r DEF Send
<1>9. /\ wire[r] \o x \in Seq(Bytes) /\ Len(wire[r] \o x) = Len(wire[r]) + n
      /\ got[r] \o (wire[r] \o x) \in Seq(Bytes)
      /\ Adds(got[r] \o (wire[r] \o x), got[r] \o wire[r], op.call, op.done, n)
  <2> DEFINE g == got[r]
             w == wire[r]
             d == op.done
             c == op.call
  <2>1. g \in Seq(Bytes) /\ w \in Seq(Bytes) /\ c \in Nat /\ d \in Nat /\ n \in Nat
    BY <1>4, <1>5, <1>6
  <2>2. x = [i \in 1..n |-> Byte(c, d + i)]
    OBVIOUS
  <2> HIDE DEF g, w, x, d, c
  <2>3. Sends(g, w, x, c, d, n)
    BY <2>1, <2>2, SendAdds
  <2> QED BY <2>3 DEF Sends, g, w, d, c
<1> HIDE DEF x
<1>10. /\ wire'[r] = wire[r] \o x /\ wire' \in [Ids -> Seq(Bytes)]
       /\ \A q \in Ids : q # r => wire'[q] = wire[q]
  BY <1>4, <1>5, <1>8, <1>9
<1>11. WriteTypes'
  <2>1. \A q \in Ids : Len(wire'[q]) <= SndBuf
    BY <1>6, <1>9, <1>10 DEF TcpInv, WriteTypes
  <2> QED BY <1>1, <1>7, <1>10, <2>1 DEF TcpInv, WriteTypes
<1>12. log[op.call] = [conn |-> r, len |-> op.len, end |-> "running"] /\ op.call = Len(log)
  BY <1>1, <1>r DEF TcpInv, LastRuns
<1>13. LastRuns'
  BY <1>1, <1>7, <1>12 DEF TcpInv, LastRuns, Writing
<1>14. Known'
  BY <1>1 DEF TcpInv, Known
<1>15. ASSUME NEW q \in Ids, q # r PROVE Carries(q)'
  <2>1. ~HalfWay(q) /\ ~HalfWay(q)'
    BY <1>7, <1>15, <1>r DEF HalfWay
  <2> QED BY <1>1, <1>10, <1>15, <2>1, LogIsLog, StillCarries DEF TcpInv
<1>16. Carries(r)'
  <2> DEFINE s == Sent(r)
             t == got[r] \o (wire[r] \o x)
             d == op.done
             c == op.call
             l == log
  <2>1. Sent(r)' = t /\ t \in Seq(Bytes)
    BY <1>1, <1>9, <1>10 DEF Sent
  <2>2. s \in Seq(Bytes) /\ Adds(t, s, c, d, n)
    BY <1>4, <1>9, SentIsBytes DEF TcpInv, Sent
  <2>3. /\ Messages(s, r, l) /\ Arrived(s, r, l)
        /\ IF d > 0 THEN EndsAt(s, c, d) ELSE EndsWhole(s, l)
    BY <1>1, <1>4, <1>r DEF TcpInv, Carries, HalfWay
  <2>4. /\ c = Len(l) /\ c > 0 /\ l[c].conn = r /\ l[c].end = "running"
        /\ d \in Nat /\ Len(l) \in Nat /\ n \in Nat /\ n > 0
    BY <1>4, <1>6, <1>12
  <2> HIDE DEF s, t, d, c, l
  <2>5. Messages(t, r, l) /\ EndsAt(t, c, d + n)
    BY <2>1, <2>2, <2>3, <2>4, MoreCarried
  <2>6. Arrived(t, r, l)
    <3>1. Len(s) <= Len(t) /\ \A i \in 1..Len(s) : t[i] = s[i]
      BY <2>2, <2>4 DEF Adds
    <3> QED BY <2>1, <2>2, <2>3, <3>1, StaysArrived
  <2>7. HalfWay(r)'
    <3>1. d + n > 0
      BY <2>4
    <3> QED BY <1>7, <3>1 DEF HalfWay, Writing, d
  <2>8. op'.call = c /\ op'.done = d + n /\ log' = l
    BY <1>1, <1>7 DEF c, d, l
  <2> QED BY <2>1, <2>5, <2>6, <2>7, <2>8 DEF Carries, Messages, Arrived, EndsAt
<1> QED BY <1>11, <1>13, <1>14, <1>15, <1>16

(* A call ends: with Ok only when the kernel took all of its message, with an
   error only when nothing more arrives on its connection.                   *)
LEMMA EndStep ==
  ASSUME TcpInv, Writing, NEW end \in {"ok", "err"}, WriteEnds(end),
         end = "ok" => op.done = op.len,
         end = "err" => peer[op.conn] # "up"
  PROVE  WriteTypes' /\ LastRuns' /\ Known' /\ \A q \in Ids : Carries(q)'
<1>0. op \in WriteOps
  BY DEF TcpInv, WriteTypes, Writing, Idle
<1>a. op.conn \in Ids /\ op.len \in Lengths /\ op.done \in Nat
  BY <1>0 DEF WriteOps
<1>b. log[op.call] = [conn |-> op.conn, len |-> op.len, end |-> "running"]
      /\ op.call = Len(log) /\ op.call \in 1..MaxWrites
  BY <1>0 DEF TcpInv, LastRuns, WriteOps
<1>c. Len(log) \in Nat /\ log \in Seq(Entries)
  BY LogIsLog DEF TcpInv, WriteTypes
<1>1. PICK r \in Ids, k \in 1..Len(log), n \in Lengths :
         r = op.conn /\ k = op.call /\ n = op.len
  <2>1. op.call \in 1..Len(log)
    BY <1>b, <1>c
  <2> QED BY <1>a, <2>1
<1>2. /\ log' = [log EXCEPT ![k].end = end] /\ op' = Idle
      /\ UNCHANGED <<made, peer, wire, got>>
  BY <1>1 DEF WriteEnds, hvars
<1>3. /\ log[k] = [conn |-> r, len |-> n, end |-> "running"]
      /\ log'[k] = [conn |-> r, len |-> n, end |-> end]
      /\ Len(log') = Len(log) /\ log' \in Seq(Entries)
      /\ \A c \in 1..Len(log) : c # k => log'[c] = log[c]
  <2> DEFINE e == [conn |-> r, len |-> n, end |-> end]
  <2>1. log[k] = [conn |-> r, len |-> n, end |-> "running"] /\ e \in Entries
    BY <1>1, <1>b DEF Entries
  <2>2. log' = [log EXCEPT ![k] = e]
    <3>1. [log[k] EXCEPT !.end = end] = e
      BY <2>1
    <3>2. [log EXCEPT ![k].end = end] = [log EXCEPT ![k] = [log[k] EXCEPT !.end = end]]
      BY Zenon
    <3> QED BY <1>2, <3>1, <3>2
  <2> HIDE DEF e
  <2>3. /\ log' \in Seq(Entries) /\ Len(log') = Len(log)
        /\ \A j \in 1..Len(log) : log'[j] = IF j = k THEN e ELSE log[j]
    BY <1>c, <2>1, <2>2, ExceptSeq
  <2> QED BY <2>1, <2>3 DEF e
<1>4. ~Writing' /\ WriteTypes'
  BY <1>2, <1>3 DEF TcpInv, WriteTypes, Writing, Idle
<1>5. LastRuns'
  <2>1. \A c \in 1..Len(log) : c # k => log[c].end # "running"
    BY <1>1 DEF TcpInv, LastRuns
  <2>2. log'[k].end # "running"
    BY <1>3
  <2>3. \A c \in 1..Len(log') : log'[c].end # "running"
    BY <1>3, <2>1, <2>2
  <2> QED BY <1>4, <2>3 DEF LastRuns
<1>6. \A c \in 1..Len(log) : log'[c].conn = log[c].conn /\ log'[c].len = log[c].len
  <2> TAKE c \in 1..Len(log)
  <2>1. log'[k].conn = log[k].conn /\ log'[k].len = log[k].len
    BY <1>3
  <2> QED BY <1>3, <2>1
<1>7. Known'
  BY <1>2, <1>3, <1>6 DEF Known, TcpInv
<1>8. Continues(log, log')
  <2>1. log[k].end # "ok"
    BY <1>3
  <2> QED BY <1>3, <1>6, <1>c, <2>1 DEF Continues
<1>9. \A q : ~HalfWay(q)'
  BY <1>4 DEF HalfWay
<1>10. ASSUME NEW q \in Ids, q # r PROVE Carries(q)'
  <2>1. ~HalfWay(q) /\ ~HalfWay(q)'
    BY <1>1, <1>9, <1>10 DEF HalfWay
  <2>2. ASSUME NEW c \in 1..Len(log'), log'[c].conn = q PROVE c # k /\ log'[c] = log[c] /\ c \in 1..Len(log)
    BY <1>3, <1>10, <2>2
  <2> QED BY <1>2, <1>8, <2>1, <2>2, StillCarries
<1>11. Carries(r)'
  <2> DEFINE s == Sent(r)
  <2>1. Sent(r)' = s /\ s \in Seq(Bytes)
    BY <1>2, SentIsBytes DEF Sent, TcpInv
  <2>2. /\ Messages(s, r, log)
        /\ peer[r] = "up" =>
             /\ Arrived(s, r, log)
             /\ HalfWay(r) => EndsAt(s, op.call, op.done)
             /\ ~HalfWay(r) => EndsWhole(s, log)
    BY DEF TcpInv, Carries
  <2> HIDE DEF s
  <2>3. Messages(s, r, log') /\ (EndsWhole(s, log) => EndsWhole(s, log'))
    BY <1>8, <2>1, <2>2, LogContinues
  <2>4. ASSUME peer[r] = "up" PROVE Arrived(s, r, log') /\ EndsWhole(s, log')
    <3>1. end = "ok" /\ op.done = n /\ n \in Nat /\ log'[k].end = "ok" /\ log'[k].len = n
      BY <1>1, <1>3, <2>4, TcpAssumption
    <3>2. n > 0 => EndsAt(s, k, n)
      <4>1. n > 0 => HalfWay(r)
        BY <1>1, <3>1 DEF HalfWay
      <4> QED BY <1>1, <2>2, <2>4, <3>1, <4>1
    <3>3. EndsWhole(s, log')
      <4>1. CASE n > 0
        <5>1. s[Len(s)].call = k /\ s[Len(s)].pos = n
          BY <3>2, <4>1 DEF EndsAt, Byte
        <5> QED BY <3>1, <5>1 DEF EndsWhole, Whole
      <4>2. CASE ~(n > 0)
        <5>1. ~HalfWay(r)
          BY <3>1, <4>2 DEF HalfWay
        <5> QED BY <2>2, <2>3, <2>4, <5>1
      <4> QED BY <4>1, <4>2
    <3>4. Arrived(s, r, log')
      <4> SUFFICES ASSUME NEW c \in 1..Len(log'), log'[c].conn = r, log'[c].end = "ok",
                          log'[c].len > 0
                   PROVE  \E i \in 1..Len(s) : s[i] = Byte(c, log'[c].len)
        BY DEF Arrived
      <4>1. CASE c = k
        <5>1. EndsAt(s, k, n) /\ s # <<>>
          BY <3>1, <3>2, <4>1 DEF EndsAt
        <5>2. Len(s) \in 1..Len(s)
          BY <2>1, <5>1, EmptySeq
        <5> QED BY <3>1, <4>1, <5>1, <5>2 DEF EndsAt
      <4>2. CASE c # k
        <5>1. c \in 1..Len(log) /\ log'[c] = log[c]
          BY <1>3, <4>2
        <5> QED BY <2>2, <2>4, <5>1 DEF Arrived
      <4> QED BY <4>1, <4>2
    <3> QED BY <3>3, <3>4
  <2>5. peer' = peer /\ ~HalfWay(r)'
    BY <1>2, <1>9
  <2> QED BY <2>1, <2>3, <2>4, <2>5 DEF Carries, Messages, Arrived, EndsWhole
<1> QED BY <1>4, <1>5, <1>7, <1>10, <1>11

(* Reading moves a byte from the wire to the peer. *)
LEMMA ReadStep ==
  ASSUME TcpInv, NEW r \in Ids, PeerReads(r)
  PROVE  WriteTypes' /\ LastRuns' /\ Known' /\ \A q \in Ids : Carries(q)'
<1>1. /\ wire[r] # <<>> /\ UNCHANGED <<made, op, log, peer>>
      /\ got' = [got EXCEPT ![r] = Append(got[r], Head(wire[r]))]
      /\ wire' = [wire EXCEPT ![r] = Tail(wire[r])]
  BY DEF PeerReads, hvars
<1>2. got \in [Ids -> Seq(Bytes)] /\ wire \in [Ids -> Seq(Bytes)]
  BY DEF TcpInv, WriteTypes
<1>3. /\ Append(got[r], Head(wire[r])) \in Seq(Bytes) /\ Tail(wire[r]) \in Seq(Bytes)
      /\ Len(Tail(wire[r])) = Len(wire[r]) - 1 /\ Len(wire[r]) \in Nat
      /\ Append(got[r], Head(wire[r])) \o Tail(wire[r]) = Sent(r)
  BY <1>1, <1>2, ReadKeeps, SentIsBytes DEF Sent, TcpInv
<1>4. /\ got' \in [Ids -> Seq(Bytes)] /\ wire' \in [Ids -> Seq(Bytes)]
      /\ \A q \in Ids : Sent(q)' = Sent(q)
  <2>1. /\ got'[r] = Append(got[r], Head(wire[r])) /\ wire'[r] = Tail(wire[r])
        /\ \A q \in Ids : q # r => got'[q] = got[q] /\ wire'[q] = wire[q]
    BY <1>1, <1>2
  <2>2. Sent(r)' = Sent(r)
    BY <1>3, <2>1 DEF Sent
  <2> QED BY <1>1, <1>2, <1>3, <2>1, <2>2 DEF Sent
<1>5. WriteTypes'
  <2>1. \A q \in Ids : Len(wire'[q]) <= SndBuf
    <3>1. SndBuf \in Nat /\ \A q \in Ids : Len(wire[q]) <= SndBuf
      BY TcpAssumption DEF TcpInv, WriteTypes
    <3>2. \A q \in Ids : wire'[q] = IF q = r THEN Tail(wire[r]) ELSE wire[q]
      BY <1>1, <1>2
    <3>3. Len(Tail(wire[r])) <= SndBuf
      BY <1>3, <3>1
    <3> QED BY <3>1, <3>2, <3>3
  <2> QED BY <1>1, <1>4, <2>1 DEF TcpInv, WriteTypes
<1>6. LastRuns' /\ Known'
  BY <1>1 DEF TcpInv, LastRuns, Known, Writing
<1>7. ASSUME NEW q \in Ids PROVE Carries(q)'
  <2>1. Sent(q)' = Sent(q) /\ Carries(q) /\ (HalfWay(q)' <=> HalfWay(q))
    BY <1>1, <1>4 DEF TcpInv, HalfWay, Writing
  <2> QED BY <1>1, <2>1 DEF Carries, Messages, Arrived, EndsAt, EndsWhole, FollowsIn, Whole
<1> QED BY <1>5, <1>6, <1>7

(* A connection that goes takes what was not read with it. *)
LEMMA GoStep ==
  ASSUME TcpInv, NEW r \in Ids, PeerGoes(r)
  PROVE  WriteTypes' /\ LastRuns' /\ Known' /\ \A q \in Ids : Carries(q)'
<1>1. /\ UNCHANGED <<made, op, log, got>>
      /\ peer' = [peer EXCEPT ![r] = "gone"]
      /\ wire' = [wire EXCEPT ![r] = <<>>]
  BY DEF PeerGoes, hvars
<1>2. /\ got \in [Ids -> Seq(Bytes)] /\ wire \in [Ids -> Seq(Bytes)]
      /\ peer \in [Ids -> {"none", "up", "gone"}] /\ SndBuf \in Nat
      /\ \A q \in Ids : Len(wire[q]) <= SndBuf
  BY TcpAssumption DEF TcpInv, WriteTypes
<1>3. <<>> \in Seq(Bytes) /\ Len(<<>>) <= SndBuf
  BY <1>2, EmptySeq
<1>4. /\ wire' \in [Ids -> Seq(Bytes)] /\ peer' \in [Ids -> {"none", "up", "gone"}]
      /\ wire'[r] = <<>> /\ peer'[r] = "gone"
      /\ \A q \in Ids : q # r => wire'[q] = wire[q] /\ peer'[q] = peer[q]
  BY <1>1, <1>2, <1>3
<1>5. WriteTypes'
  <2>1. \A q \in Ids : Len(wire'[q]) <= SndBuf
    BY <1>2, <1>3, <1>4
  <2> QED BY <1>1, <1>4, <2>1 DEF TcpInv, WriteTypes
<1>6. LastRuns' /\ Known'
  BY <1>1 DEF TcpInv, LastRuns, Known, Writing
<1>7. ASSUME NEW q \in Ids, q # r PROVE Carries(q)'
  <2>1. HalfWay(q)' <=> HalfWay(q)
    BY <1>1 DEF HalfWay, Writing
  <2>2. Continues(log, log')
    BY <1>1, LogIsLog DEF TcpInv
  <2> QED BY <1>1, <1>4, <1>7, <2>1, <2>2, StillCarries
<1>8. Carries(r)'
  <2> DEFINE s == Sent(r)
             t == got[r]
  <2>1. /\ s \in Seq(Bytes) /\ t \in Seq(Bytes) /\ Len(t) <= Len(s)
        /\ \A i \in 1..Len(t) : t[i] = s[i]
    <3>1. /\ Sent(r) \in Seq(Bytes) /\ got[r] \in Seq(Bytes)
          /\ Len(Sent(r)) = Len(got[r]) + Len(wire[r])
          /\ Len(got[r]) \in Nat /\ Len(wire[r]) \in Nat
          /\ \A i \in 1..Len(got[r]) + Len(wire[r]) :
               Sent(r)[i] = IF i <= Len(got[r]) THEN got[r][i] ELSE wire[r][i - Len(got[r])]
      BY SentIsBytes DEF TcpInv
    <3> DEFINE w == wire[r]
    <3>2. /\ s \in Seq(Bytes) /\ t \in Seq(Bytes) /\ Len(s) = Len(t) + Len(w)
          /\ Len(t) \in Nat /\ Len(w) \in Nat
          /\ \A i \in 1..Len(t) + Len(w) : s[i] = IF i <= Len(t) THEN t[i] ELSE w[i - Len(t)]
      BY <3>1
    <3> HIDE DEF s, t, w
    <3> QED BY <3>2
  <2>2. Sent(r)' = t
    BY <1>1, <1>4, <2>1, ConcatEmptySeq DEF Sent
  <2>3. Messages(s, r, log)
    BY DEF TcpInv, Carries
  <2> HIDE DEF s, t
  <2>4. Messages(t, r, log)
    BY <2>1, <2>3, StartCarried
  <2> QED BY <1>1, <1>4, <2>2, <2>4 DEF Carries, Messages
<1> QED BY <1>5, <1>6, <1>7, <1>8

LEMMA TcpStart == Init => TcpInv
<1> SUFFICES ASSUME Init PROVE TcpInv
  OBVIOUS
<1>1. /\ HInv /\ op = Idle /\ log = <<>> /\ peer = [r \in Ids |-> "none"]
      /\ wire = [r \in Ids |-> <<>>] /\ got = [r \in Ids |-> <<>>]
  BY HandlesStart DEF Init
<1>2. /\ \A S : <<>> \in Seq(S)
      /\ Len(<<>>) = 0 /\ <<>> \o <<>> = <<>>
      /\ SndBuf \in Nat /\ MaxWrites \in Nat
  <2>1. \A S : <<>> \in Seq(S)
    BY EmptySeq
  <2> QED BY <2>1, ConcatEmptySeq, TcpAssumption
<1>3. WriteTypes
  BY <1>1, <1>2 DEF WriteTypes
<1>4. LastRuns /\ Known
  BY <1>1 DEF LastRuns, Known, Writing, Idle
<1>5. ASSUME NEW r \in Ids PROVE Carries(r)
  <2>1. Sent(r) = <<>> /\ peer[r] # "up"
    BY <1>1, <1>2 DEF Sent
  <2> QED BY <1>2, <2>1 DEF Carries, Messages
<1> QED BY <1>1, <1>3, <1>4, <1>5 DEF TcpInv

LEMMA TcpInvStep == TcpInv /\ [Next]_vars => TcpInv'
<1> SUFFICES ASSUME TcpInv, [Next]_vars PROVE TcpInv'
  OBVIOUS
<1> DEFINE Kept == WriteTypes' /\ LastRuns' /\ Known' /\ \A q \in Ids : Carries(q)'
<1>1. HInv'
  BY TcpStep DEF TcpInv
<1>2. ASSUME op = Idle /\ HandlesNext /\ UNCHANGED tvars PROVE Kept
  BY <1>2, HandlesQuiet
<1>3. ASSUME tcp_connect PROVE Kept
  BY <1>3, ConnectStep
<1>4. ASSUME NEW r \in Ids, PeerReads(r) PROVE Kept
  BY <1>4, ReadStep
<1>5. ASSUME NEW r \in Ids, PeerGoes(r) PROVE Kept
  BY <1>5, GoStep
<1>6. ASSUME NEW r \in Ids, NEW n \in Lengths, tcp_write(r, n) PROVE Kept
  BY <1>6, WriteStep
<1>7. ASSUME WriteSome PROVE Kept
  BY <1>7, SendStep
<1>8. ASSUME WriteFails PROVE Kept
  BY <1>8, EndStep DEF WriteFails, Unfinished
<1>9. ASSUME WriteReturns PROVE Kept
  BY <1>9, EndStep DEF WriteReturns
<1>10. ASSUME UNCHANGED vars PROVE Kept
  <2>1. UNCHANGED <<made, op, log, peer, wire, got>>
    BY <1>10 DEF vars, hvars, tvars
  <2>2. WriteTypes' /\ LastRuns' /\ Known'
    BY <2>1 DEF TcpInv, WriteTypes, LastRuns, Known, Writing
  <2>3. ASSUME NEW q \in Ids PROVE Carries(q)'
    <3>1. (HalfWay(q)' <=> HalfWay(q)) /\ Continues(log, log')
      BY <2>1, LogIsLog DEF TcpInv, HalfWay, Writing
    <3> QED BY <2>1, <3>1, StillCarries
  <2> QED BY <2>2, <2>3
<1>11. ASSUME WriteInterrupted PROVE Kept
  BY <1>10, <1>11 DEF WriteInterrupted
<1>12. Kept
  BY <1>2, <1>3, <1>4, <1>5, <1>6, <1>7, <1>8, <1>9, <1>10, <1>11 DEF Next
<1> QED BY <1>1, <1>12 DEF TcpInv

-----------------------------------------------------------------------------
(* The inductive invariant holds in every reachable state. *)
THEOREM TcpInvariant == Spec => []TcpInv
<1>1. Init => TcpInv
  BY TcpStart
<1>2. TcpInv /\ [Next]_vars => TcpInv'
  BY TcpInvStep
<1> QED BY <1>1, <1>2, PTL DEF Spec

(* Handles, calls and connections keep their types, and the kernel never holds
   more for a peer than its buffer.                                           *)
THEOREM TcpTypeCorrect == Spec => []TypeOK
<1>1. TcpInv => TypeOK
  BY DEF TcpInv, HInv, WriteTypes, TypeOK, WriteOps, Entries
<1> QED BY <1>1, TcpInvariant, PTL

(* Each peer reads the messages written to its connection, in the order of the
   calls and without gap or repetition, and on a living connection every one
   that was answered with Ok is on its way to the last byte.                  *)
THEOREM PeersReceiveInOrder == Spec => []PeerReceivesInOrder
<1>1. TcpInv => PeerReceivesInOrder
  <2> SUFFICES ASSUME TcpInv, NEW r \in Ids
               PROVE  LET s == got[r] \o wire[r]
                      IN  /\ s # <<>> => s[1].pos = 1
                          /\ \A i \in 1..Len(s) : log[s[i].call].conn = r
                          /\ \A i \in 2..Len(s) : Follows(s[i], s[i - 1])
                          /\ peer[r] = "up" =>
                               \A c \in 1..Len(log) :
                                 log[c].conn = r /\ log[c].end = "ok" /\ log[c].len > 0 =>
                                   \E i \in 1..Len(s) : s[i] = Byte(c, log[c].len)
    BY DEF PeerReceivesInOrder
  <2>1. Messages(Sent(r), r, log) /\ (peer[r] = "up" => Arrived(Sent(r), r, log))
    BY DEF TcpInv, Carries
  <2>2. \A b, a : FollowsIn(log, b, a) => Follows(b, a)
    BY DEF FollowsIn, Whole, Follows
  <2> QED BY <2>1, <2>2 DEF Messages, Arrived, Sent
<1> QED BY <1>1, TcpInvariant, PTL
=============================================================================
