------------------------------ MODULE Lifecycle ------------------------------
(***************************************************************************)
(* What the platform may expect of the instances that it asks for under    *)
(* one ID, without handlers, rows or AWS.  The ID belongs to one of them   *)
(* at a time, which has it from the moment it is known until nothing of it *)
(* is there any more; nothing that was removed comes back.                 *)
(***************************************************************************)
CONSTANT Request     \* the requests for an instance with the ID

VARIABLE life        \* how far the instance of each request has got

Stages == {"new", "kept", "leaving", "left", "gone"}

Init == life = [p \in Request |-> "new"]

Become(p, stage) == life' = [life EXCEPT ![p] = stage]

\* The ID is free, and p gets it.  A removal of the instance before that is late
\* may have met this one by then.
Claim(p) ==
    /\ life[p] = "new"
    /\ \A q \in Request : life[q] \in {"new", "gone"}
    /\ \E stage \in {"kept", "leaving", "left"} : Become(p, stage)

\* AWS is removing it.
Leave(p) == life[p] = "kept" /\ Become(p, "leaving")

\* Its database is not there any more, though the ID is still its own.
Vanish(p) == life[p] \in {"kept", "leaving"} /\ Become(p, "left")

\* The ID is free again.
End(p) == life[p] = "left" /\ Become(p, "gone")

Next == \E p \in Request : Claim(p) \/ Leave(p) \/ Vanish(p) \/ End(p)

Spec == Init /\ [][Next]_life
=============================================================================
