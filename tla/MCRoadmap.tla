------------------------------ MODULE MCRoadmap ------------------------------
(* Values for the constants of Roadmap.                                        *)
EXTENDS Roadmap, TLC

Half == {50}
ClientSymmetry == Permutations(Clients)

=============================================================================
