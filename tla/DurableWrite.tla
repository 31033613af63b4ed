---------------------------- MODULE DurableWrite ----------------------------
(***************************************************************************)
(* What a caller of a memory-storing tool is promised: Ok carries one blob *)
(* per item, in the order of the items, and is said only when every item   *)
(* is durable.  An error is of one of two kinds.  After a settled one      *)
(* nothing more of the call becomes durable; after one that leaves the     *)
(* call in doubt items may still be stored, with nobody waiting for them.  *)
(***************************************************************************)
EXTENDS Naturals, Sequences

CONSTANTS Calls, MaxItems

VARIABLES
  size,      \* size[c]: how many items call c asks to store
  durable,   \* durable[c]: the items of c that are stored on Walrus
  verdict,   \* verdict[c]: what the caller knows
  blobs      \* blobs[c]: the blob ids that c returned

vars == <<size, durable, verdict, blobs>>

Blob(c, i) == [call |-> c, item |-> i]

Init ==
  /\ size = [c \in Calls |-> 0]
  /\ durable = [c \in Calls |-> {}]
  /\ verdict = [c \in Calls |-> "idle"]
  /\ blobs = [c \in Calls |-> <<>>]

Begin(c) ==
  /\ verdict[c] = "idle"
  /\ \E n \in 1 .. MaxItems : size' = [size EXCEPT ![c] = n]
  /\ verdict' = [verdict EXCEPT ![c] = "open"]
  /\ UNCHANGED <<durable, blobs>>

Land(c) ==
  /\ verdict[c] \in {"open", "doubt"}
  /\ \E i \in (1 .. size[c]) \ durable[c] :
       durable' = [durable EXCEPT ![c] = @ \cup {i}]
  /\ UNCHANGED <<size, verdict, blobs>>

Confirm(c) ==
  /\ verdict[c] = "open"
  /\ durable[c] = 1 .. size[c]
  /\ verdict' = [verdict EXCEPT ![c] = "ok"]
  /\ blobs' = [blobs EXCEPT ![c] = [i \in 1 .. size[c] |-> Blob(c, i)]]
  /\ UNCHANGED <<size, durable>>

\* A call can be refused before it began: nothing of it was sent.
GiveUp(c) ==
  /\ \/ /\ verdict[c] = "idle"
        /\ verdict' = [verdict EXCEPT ![c] = "settled"]
     \/ /\ verdict[c] = "open"
        /\ \E v \in {"settled", "doubt"} : verdict' = [verdict EXCEPT ![c] = v]
  /\ UNCHANGED <<size, durable, blobs>>

Next == \E c \in Calls : Begin(c) \/ Land(c) \/ Confirm(c) \/ GiveUp(c)

Spec == Init /\ [][Next]_vars
============================================================================
