------------------------------- MODULE MCInbox -------------------------------
(* The inbox of an organization for TLC.  Its parts are explored side by   *)
(* side: a behaviour moves one of them.                                    *)
EXTENDS Inbox, FiniteSets, Sequences, TLC

SideBySide == \/ Browser!PageInit /\ Crm!CrmPageInit /\ Processes
              \/ Init /\ Crm!CrmPageInit /\ Reviews
              \/ Init /\ Browser!PageInit /\ Manages
MCInboxSpec == InboxInit /\ [][SideBySide]_<<vars, review, crm>>

(* Bound: beside a request that its user waits for, the page of buildings  *)
(* and vendors has one call under way, the invoice page none.  The second  *)
(* invoice is uploaded and read by the worker, and stays so.               *)
Explored ==
  /\ write # None => calls = {}
  /\ server[2] # None => /\ server[2].version = 1
                         /\ server[2].status \in {"PROCESSING", "NEEDS_REVIEW"}
  /\ request # None =>
       Cardinality(loads) + Len(fetches["building"]) + Len(fetches["vendor"]) <= 1

Interchangeable == Permutations(Buildings)
=============================================================================
