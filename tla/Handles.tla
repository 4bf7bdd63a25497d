------------------------------- MODULE Handles -------------------------------
(***************************************************************************)
(* The handles of the legacy host. file_reader, tcp_connect and prepare    *)
(* put what they open into one of three heaps of reference-counted boxes   *)
(* (roc_std_heap) and give the Roc program the box's address; every other  *)
(* Roc value lives in libc's heap. When a count reaches zero the program   *)
(* calls roc_dealloc with the address and nothing else, and the host has   *)
(* to find out from the address what to do with it.                        *)
(***************************************************************************)
EXTENDS Naturals

CONSTANTS EnvLimit,      \* the limits that ROC_BASIC_CLI_MAX_* give as a number
          DefaultLimit,  \* the limit of a heap without one
          MemPlaces,     \* how many places libc's malloc has
          MaxIds,        \* bound on what the program ever allocates
          MaxCopies      \* bound on the Roc values that share one allocation

Heaps == {"file", "tcp", "sqlite"}
Ids == 1..MaxIds

ASSUME HandlesAssumption ==
  /\ DOMAIN EnvLimit \subseteq Heaps
  /\ \A k \in DOMAIN EnvLimit : EnvLimit[k] \in Nat \ {0}
  /\ DefaultLimit \in Nat \ {0} /\ MemPlaces \in Nat
  /\ MaxIds \in Nat /\ MaxCopies \in Nat \ {0}

(* heap(): the variable when it parses, the default otherwise. *)
Limit(k) == IF k \in DOMAIN EnvLimit THEN EnvLimit[k] ELSE DefaultLimit

Places(k) == 1..(IF k = "libc" THEN MemPlaces ELSE Limit(k))
Addresses == UNION {{[heap |-> k, slot |-> i] : i \in Places(k)} : k \in Heaps \cup {"libc"}}
Nowhere == [heap |-> "none", slot |-> 0]
Free == 0

VARIABLES at,       \* at[a]: what lives at address a, Free if nothing does
          count,    \* count[a]: the reference count kept with it
          held,     \* held[r]: the address the program has for r, and its values of it
          open,     \* the resources not yet closed, finalized or freed
          acted,    \* what the call just made acted on, 0 if it made or dropped a value
          made,     \* how many allocations there have been
          crashed   \* libc was given an address that is not its own

hvars == <<at, count, held, open, acted, made, crashed>>

-----------------------------------------------------------------------------
(* The resource heaps, as the host uses them, and libc. *)

FreePlaces(k) == {a \in Addresses : a.heap = k /\ at[a] = Free}
InRange(k, a) == a.heap = k

(* alloc_for: the box comes with a count of 1, owned by the program. *)
AllocFor(k, r) ==
  \E a \in FreePlaces(k) :
    /\ at' = [at EXCEPT ![a] = r]
    /\ count' = [count EXCEPT ![a] = 1]
    /\ held' = [held EXCEPT ![r] = [addr |-> a, values |-> 1]]
    /\ open' = open \cup {r} /\ acted' = 0
    /\ UNCHANGED crashed

(* There is no such file, no answer, no such table: nothing to hold. *)
NotOpened == acted' = 0 /\ UNCHANGED <<at, count, held, open, crashed>>

AllocFailsLeaking(k) ==
  /\ FreePlaces(k) = {}
  /\ open' = open \cup {made + 1} /\ acted' = 0
  /\ UNCHANGED <<at, count, held, crashed>>

(* A heap at its limit drops what it was given and answers OutOfMemory. *)
AllocFails(k) == FreePlaces(k) = {} /\ NotOpened

HeapDealloc(a) ==
  /\ at' = [at EXCEPT ![a] = Free]
  /\ open' = open \ {at[a]}
  /\ UNCHANGED crashed

LibcFree(a) ==
  IF a.heap = "libc" THEN HeapDealloc(a)
                     ELSE crashed' = TRUE /\ UNCHANGED <<at, open>>

-----------------------------------------------------------------------------
roc_deallocForgettingSqlite(a) ==
  IF InRange("file", a) \/ InRange("tcp", a) THEN HeapDealloc(a) ELSE LibcFree(a)
roc_dealloc(a) ==
  CASE InRange("file", a)   -> HeapDealloc(a)
    [] InRange("tcp", a)    -> HeapDealloc(a)
    [] InRange("sqlite", a) -> HeapDealloc(a)
    [] OTHER                -> LibcFree(a)

(* The program gains a value in a call that opens something: r is new. *)
Fresh == made < MaxIds /\ made' = made + 1
roc_alloc == Fresh /\ AllocFor("libc", made + 1)
file_reader == Fresh /\ (NotOpened \/ AllocFor("file", made + 1) \/ AllocFails("file"))
prepare == Fresh /\ (NotOpened \/ AllocFor("sqlite", made + 1) \/ AllocFails("sqlite"))

(* Another Roc value for the same box. *)
CopyValue(r) ==
  /\ held[r].values \in 1..(MaxCopies - 1)
  /\ held' = [held EXCEPT ![r].values = @ + 1]
  /\ count' = [count EXCEPT ![held[r].addr] = @ + 1]
  /\ acted' = 0
  /\ UNCHANGED <<at, open, made, crashed>>

(* A Roc value goes away; the last one hands its address to the host. *)
DropValue(r) ==
  LET a == held[r].addr
      n == held[r].values
  IN  /\ n > 0
      /\ held' = [held EXCEPT ![r] = IF n = 1 THEN [addr |-> Nowhere, values |-> 0]
                                             ELSE [addr |-> a, values |-> n - 1]]
      /\ count' = [count EXCEPT ![a] = @ - 1]
      /\ IF count[a] = 1 THEN roc_dealloc(a) ELSE UNCHANGED <<at, open, crashed>>
      /\ acted' = 0
      /\ UNCHANGED made

(* box_to_resource: a hosted function borrows the box, it does not count. *)
BoxToResourceConsuming(r) ==
  /\ acted' = at[held[r].addr]
  /\ count' = [count EXCEPT ![held[r].addr] = @ - 1]
  /\ IF count[held[r].addr] = 1 THEN roc_dealloc(held[r].addr)
                                ELSE UNCHANGED <<at, open, crashed>>
  /\ UNCHANGED <<held, made>>
BoxToResource(r) ==
  /\ acted' = at[held[r].addr]
  /\ UNCHANGED <<at, count, held, open, made, crashed>>

UseValue(r) == held[r].values > 0 /\ held[r].addr.heap # "libc" /\ BoxToResource(r)

HandlesInit ==
  /\ at = [a \in Addresses |-> Free]
  /\ count = [a \in Addresses |-> 0]
  /\ held = [r \in Ids |-> [addr |-> Nowhere, values |-> 0]]
  /\ open = {} /\ acted = 0 /\ made = 0 /\ crashed = FALSE

HandlesNext ==
  \/ roc_alloc \/ file_reader \/ prepare
  \/ \E r \in Ids : CopyValue(r) \/ DropValue(r) \/ UseValue(r)

-----------------------------------------------------------------------------
HandlesTypeOK ==
  /\ at \in [Addresses -> Ids \cup {Free}]
  /\ count \in [Addresses -> 0..MaxCopies]
  /\ held \in [Ids -> [addr : Addresses \cup {Nowhere}, values : 0..MaxCopies]]
  /\ open \subseteq Ids /\ acted \in Ids \cup {0} /\ made \in 0..MaxIds
  /\ crashed \in BOOLEAN

(* However handles and memory are allocated, shared and dropped, roc_dealloc
   recognises from the address alone whose it is: libc is never given a box
   of a resource heap, and a resource is open exactly when it sits at the one
   address from which its values would reach it.                             *)
AddressesFindTheirOwner ==
  /\ ~crashed
  /\ \A r \in Ids : r \in open <=> held[r].values > 0
  /\ \A r \in Ids : held[r].values > 0 =>
       /\ at[held[r].addr] = r
       /\ count[held[r].addr] = held[r].values
  /\ \A a \in Addresses : at[a] # Free => held[at[a]].addr = a

(* Handles behave like the resources they stand for: no call reaches another
   resource through a reused box, nothing is closed while a value of it is
   left, and nothing stays open after the last one, nor after a call that
   found its heap full.                                                      *)
Abstract == INSTANCE Resources WITH holders <- [r \in Ids |-> held[r].values]
ImplementsResources == Abstract!Spec
=============================================================================
