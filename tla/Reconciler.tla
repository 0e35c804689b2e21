----------------------------- MODULE Reconciler -----------------------------
(***************************************************************************)
(* What the supervisor promises, as its module docstring puts it: desired  *)
(* state is a column in the database, actual state is whether the bot has  *)
(* a live process, and the controller keeps making the second match the    *)
(* first without knowing why the first changed.                            *)
(*                                                                         *)
(* The controller acts on an observation of desired, not on desired        *)
(* itself.  It launches a bot only if it observed it desired and it is not *)
(* running, and retires the bots it observed undesired.  Bots exit when    *)
(* they like, and the controller may lose everything at once.              *)
(***************************************************************************)
CONSTANTS Bots

VARIABLES desired, observed, running

vars == <<desired, observed, running>>

Init == desired = {} /\ observed = {} /\ running = {}

Want(b) ==
    /\ b \notin desired
    /\ desired' = desired \cup {b}
    /\ UNCHANGED <<observed, running>>

Unwant(b) ==
    /\ b \in desired
    /\ desired' = desired \ {b}
    /\ UNCHANGED <<observed, running>>

Observe ==
    /\ observed' = desired
    /\ UNCHANGED <<desired, running>>

Launch(b) ==
    /\ b \in observed /\ b \notin running
    /\ running' = running \cup {b}
    /\ UNCHANGED <<desired, observed>>

Exit(b) ==
    /\ b \in running
    /\ running' = running \ {b}
    /\ UNCHANGED <<desired, observed>>

Retire(b) == b \notin observed /\ Exit(b)

Collapse ==
    /\ observed' = {} /\ running' = {}
    /\ UNCHANGED desired

Next ==
    \/ \E b \in Bots : Want(b) \/ Unwant(b) \/ Launch(b) \/ Exit(b)
    \/ Observe \/ Collapse

SafeSpec == Init /\ [][Next]_vars

Spec == SafeSpec /\ WF_vars(Observe) /\ \A b \in Bots : WF_vars(Retire(b))
=============================================================================
