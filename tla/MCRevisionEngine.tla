-------------------------- MODULE MCRevisionEngine --------------------------
(* Small instances of RevisionEngine for TLC. *)
EXTENDS RevisionEngine

\* Rungs after one and two ticks.
OneRung == <<1>>
TwoRungs == <<1, 2>>

JustOne == {OneRung}
OneOrTwo == {OneRung, TwoRungs}

=============================================================================
