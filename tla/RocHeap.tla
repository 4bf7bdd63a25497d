------------------------------ MODULE RocHeap ------------------------------
(***************************************************************************)
(* What the Roc program relies on when it calls RocOps.roc_alloc,          *)
(* roc_realloc and roc_dealloc: every object it holds is a private run of  *)
(* bytes that only it writes, a resize keeps the common prefix, and when   *)
(* memory runs out the process ends instead of handing out a bad pointer.  *)
(* RocAllocator (src/src/lib.rs) is shown to implement this.               *)
(***************************************************************************)
EXTENDS Naturals

CONSTANTS Ids,      \* names of the objects the program may hold
          Lengths,  \* the byte lengths it asks for
          Bytes     \* what a byte may hold

VARIABLES live,     \* the objects the program holds
          content,  \* content[i]: the bytes of object i, empty when not live
          halted    \* the process has exited

heapVars == <<live, content, halted>>

Strings(n) == [0..(n - 1) -> Bytes]

Empty == [k \in {} |-> {}]

Init ==
  /\ live = {}
  /\ content = [i \in Ids |-> Empty]
  /\ halted = FALSE

(* A new object of length n, with unspecified bytes. *)
Allocate(i, n) ==
  /\ i \notin live
  /\ live' = live \cup {i}
  /\ content'[i] \in Strings(n)
  /\ content' = [content EXCEPT ![i] = content'[i]]
  /\ UNCHANGED halted

(* The program overwrites the bytes of an object it holds. *)
Store(i) ==
  /\ i \in live
  /\ content'[i] \in [DOMAIN content[i] -> Bytes]
  /\ content' = [content EXCEPT ![i] = content'[i]]
  /\ UNCHANGED <<live, halted>>

(* A resize to n bytes keeps the bytes below both lengths. *)
Resize(i, n) ==
  /\ i \in live
  /\ content'[i] \in Strings(n)
  /\ \A k \in (DOMAIN content[i]) \cap (0..(n - 1)) :
        content'[i][k] = content[i][k]
  /\ content' = [content EXCEPT ![i] = content'[i]]
  /\ UNCHANGED <<live, halted>>

Release(i) ==
  /\ i \in live
  /\ live' = live \ {i}
  /\ content' = [content EXCEPT ![i] = Empty]
  /\ UNCHANGED halted

Halt ==
  /\ halted' = TRUE
  /\ UNCHANGED <<live, content>>

Next ==
  /\ ~halted
  /\ \/ \E i \in Ids : Store(i) \/ Release(i)
     \/ \E i \in Ids, n \in Lengths : Allocate(i, n) \/ Resize(i, n)
     \/ Halt

Spec == Init /\ [][Next]_heapVars
=============================================================================
