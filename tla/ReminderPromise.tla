--------------------------- MODULE ReminderPromise ---------------------------
(***************************************************************************)
(* What the revision engine promises about reminders, without requests,    *)
(* jobs or failures: a revision is created once, is edited freely while it *)
(* exists and never returns once deleted; a user is only told of a date at *)
(* which a revision was found open and overdue.                            *)
(***************************************************************************)
EXTENDS Integers

CONSTANT Ids

VARIABLES
    now,
    state,    \* fresh, open, closed or gone
    due,      \* the due date of every revision that is open or closed
    inHand,   \* what was found overdue and may be announced
    notices

vars == <<now, state, due, inHand, notices>>

Init ==
    /\ now = 0
    /\ state = [r \in Ids |-> "fresh"]
    /\ due \in [Ids -> Nat]
    /\ inHand = {}
    /\ notices = {}

\* How far a single write may take a revision.
Allowed(old, new) ==
    \/ old = "fresh" /\ new = "open"
    \/ old \in {"open", "closed"} /\ new \in {"open", "closed", "gone"}

Write(r) ==
    /\ state' \in [Ids -> {"fresh", "open", "closed", "gone"}]
    /\ due' \in [Ids -> Nat]
    /\ Allowed(state[r], state'[r])
    /\ \A q \in Ids \ {r} : state'[q] = state[q] /\ due'[q] = due[q]
    /\ UNCHANGED <<now, inHand, notices>>

Find(r) ==
    /\ state[r] = "open" /\ due[r] < now
    /\ inHand' = inHand \cup {<<r, due[r]>>}
    /\ UNCHANGED <<now, state, due, notices>>

Drop(found) ==
    /\ inHand' = inHand \ {found}
    /\ UNCHANGED <<now, state, due, notices>>

Announce(found) ==
    /\ notices' = notices \cup
         {[id |-> found[1], dueAt |-> found[2], createdAt |-> now]}
    /\ inHand' \in {inHand, inHand \ {found}}
    /\ UNCHANGED <<now, state, due>>

Tick ==
    /\ now' = now + 1
    /\ UNCHANGED <<state, due, inHand, notices>>

Next ==
    \/ \E r \in Ids : Write(r) \/ Find(r)
    \/ \E found \in inHand : Drop(found) \/ Announce(found)
    \/ Tick

Spec == Init /\ [][Next]_vars

=============================================================================
