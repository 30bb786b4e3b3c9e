---------------------------- MODULE BoundedGrants ----------------------------
(***************************************************************************)
(* What every gate of the extractor promises: at most Capacity actors hold *)
(* a grant at once, and an actor that has given its grant back never       *)
(* gives it back again.                                                    *)
(***************************************************************************)
EXTENDS Naturals, FiniteSets

CONSTANTS Actors, Capacity

VARIABLES held,   \* the actors that own a grant
          spent   \* the actors that have given theirs back

Init == held = {} /\ spent = {}

Grant(a) ==
    /\ a \in Actors \ (held \cup spent)
    /\ Cardinality(held) < Capacity
    /\ held' = held \cup {a} /\ UNCHANGED spent

GiveBack(a) ==
    /\ a \in held
    /\ held' = held \ {a} /\ spent' = spent \cup {a}

Next == \E a \in Actors : Grant(a) \/ GiveBack(a)

Spec == Init /\ [][Next]_<<held, spent>>
=============================================================================
