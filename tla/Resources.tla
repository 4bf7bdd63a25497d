------------------------------ MODULE Resources ------------------------------
(***************************************************************************)
(* What a Roc program relies on when it holds file readers, TCP streams,   *)
(* prepared statements and plain memory: a value keeps what it stands for  *)
(* alive, a call on it acts on that and nothing else, and the last value   *)
(* that goes away takes the resource with it, at once. There are no        *)
(* addresses, heaps or limits here.                                        *)
(***************************************************************************)
EXTENDS Naturals

CONSTANT Ids        \* every resource of one execution

VARIABLES open,     \* the resources the operating system or sqlite holds
          holders,  \* holders[r]: how many Roc values stand for r
          acted     \* what the call just made acted on, 0 if it made or dropped a value

rvars == <<open, holders, acted>>

Init == open = {} /\ holders = [r \in Ids |-> 0] /\ acted = 0

Acquire(r) ==
  /\ r \notin open
  /\ open' = open \cup {r}
  /\ holders' = [holders EXCEPT ![r] = 1]
  /\ acted' = 0

Copy(r) ==
  /\ holders[r] > 0
  /\ holders' = [holders EXCEPT ![r] = @ + 1]
  /\ acted' = 0
  /\ UNCHANGED open

Drop(r) ==
  /\ holders[r] > 0
  /\ holders' = [holders EXCEPT ![r] = @ - 1]
  /\ open' = IF holders[r] = 1 THEN open \ {r} ELSE open
  /\ acted' = 0

Use(r) ==
  /\ holders[r] > 0
  /\ acted' = r
  /\ UNCHANGED <<open, holders>>

(* A call that fails, or acts on nothing that is held. *)
Pass == acted' = 0 /\ UNCHANGED <<open, holders>>

Next == Pass \/ \E r \in Ids : Acquire(r) \/ Copy(r) \/ Drop(r) \/ Use(r)

Spec == Init /\ [][Next]_rvars
=============================================================================
