----------------------------- MODULE Credentials -----------------------------
(***************************************************************************)
(* What the platform may expect of the credentials that a broker hands     *)
(* out, without requests, rows or SQL users.  Each goes its own way:       *)
(* credentials that were given to an application work until the            *)
(* application is unbound, and those that have stopped working never work  *)
(* again.  One Unbind may release several at once, so a step may move many.*)
(***************************************************************************)
CONSTANT Credential     \* everything that may be handed out

VARIABLE status         \* how far each of them has got

Stages == {"new", "works", "given", "dead"}

Init == status = [c \in Credential |-> "new"]

\* The login and the privileges are there; nobody has been told.
Activate(c) == status[c] = "new" /\ status'[c] = "works"

\* The setting up was given up.
Abandon(c) == status[c] = "new" /\ status'[c] = "dead"

\* An application receives credentials, which work.
Give(c) == status[c] = "works" /\ status'[c] = "given"

\* The last application that holds them is being unbound.
Release(c) == status[c] = "given" /\ status'[c] = "works"

\* Only credentials that nobody holds stop working.
Retire(c) == status[c] = "works" /\ status'[c] = "dead"

Keep(c) == status'[c] = status[c]

Next ==
    /\ status' \in [Credential -> Stages]
    /\ \A c \in Credential :
          \/ Keep(c)
          \/ Activate(c) \/ Abandon(c) \/ Give(c) \/ Release(c) \/ Retire(c)

Spec == Init /\ [][Next]_status
=============================================================================
