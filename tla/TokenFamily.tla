---------------------------- MODULE TokenFamily ----------------------------
(***************************************************************************)
(* What refresh tokens promise: a family starts with one token, a rotation *)
(* replaces it by one never seen before, and a family that has died is     *)
(* never continued.  Sessions implements it.                               *)
(***************************************************************************)
CONSTANTS Families, Tokens, None

VARIABLES life,    \* "unborn", "live" or "dead", by family
          head,    \* the one token a live family is continued with
          spent    \* every token that is or has been a head

familyVars == <<life, head, spent>>

Init == /\ life = [f \in Families |-> "unborn"]
        /\ head = [f \in Families |-> None]
        /\ spent = {}

Continue(f, t, before) == /\ life[f] = before
                          /\ t \notin spent
                          /\ life' = [life EXCEPT ![f] = "live"]
                          /\ head' = [head EXCEPT ![f] = t]
                          /\ spent' = spent \cup {t}

Start(f, t)   == Continue(f, t, "unborn")
Advance(f, t) == Continue(f, t, "live")

Kill(F) == /\ \A f \in F : life[f] = "live"
           /\ life' = [f \in Families |-> IF f \in F THEN "dead" ELSE life[f]]
           /\ UNCHANGED <<head, spent>>

Next == \/ \E f \in Families, t \in Tokens : Start(f, t) \/ Advance(f, t)
        \/ \E F \in SUBSET Families : Kill(F)

Spec == Init /\ [][Next]_familyVars
=============================================================================
