---------------------------- MODULE DocumentGate ----------------------------
(***************************************************************************)
(* What the ingest pipeline promises of each document, however its jobs    *)
(* overlap, fail or are repeated.  A document comes in; it is cleared      *)
(* once, with one kept copy, and from there offered to a reviewer; or it   *)
(* is blocked before it was cleared; or it is handed to a person.  The     *)
(* last three are for good, and so is the copy.  Of cleared documents with *)
(* the same content all but the first name an earlier one.                 *)
(***************************************************************************)
CONSTANTS Documents, Contents,
          Kept,       \* names of copies
          Nothing     \* no copy, no earlier document

VARIABLES content,    \* what is in each document
          stage,      \* how far each document is
          kept,       \* the copy of a cleared document
          original    \* an earlier document with the same content

vars == <<content, stage, kept, original>>

Init ==
  /\ content \in [Documents -> Contents]
  /\ stage = [d \in Documents |-> "absent"]
  /\ kept = [d \in Documents |-> Nothing]
  /\ original = [d \in Documents |-> Nothing]

Receive(d) ==
  /\ stage[d] = "absent"
  /\ stage' = [stage EXCEPT ![d] = "received"]
  /\ UNCHANGED <<content, kept, original>>

Earlier(d) == {e \in Documents : kept[e] # Nothing /\ content[e] = content[d]}

Clear(d, k, e) ==
  /\ stage[d] = "received"
  /\ IF Earlier(d) = {} THEN e = Nothing ELSE e \in Earlier(d)
  /\ stage' = [stage EXCEPT ![d] = "cleared"]
  /\ kept' = [kept EXCEPT ![d] = k]
  /\ original' = [original EXCEPT ![d] = e]
  /\ UNCHANGED content

Moves(d, from, to) ==
  /\ stage[d] \in from
  /\ stage' = [stage EXCEPT ![d] = to]
  /\ UNCHANGED <<content, kept, original>>

Offer(d) == Moves(d, {"cleared"}, "reviewable")

Block(d) == Moves(d, {"received"}, "blocked")

HandOver(d) == Moves(d, {"received", "cleared"}, "manual")

Next ==
  \E d \in Documents :
    \/ Receive(d)
    \/ \E k \in Kept, e \in Documents \cup {Nothing} : Clear(d, k, e)
    \/ Offer(d)
    \/ Block(d)
    \/ HandOver(d)

Spec == Init /\ [][Next]_vars
=============================================================================
