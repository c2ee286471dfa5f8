--------------------------- MODULE MCStudyRecords ---------------------------
(* Small instances of StudyRecords for TLC, with the views that read its    *)
(* documents.                                                               *)
EXTENDS StudyViews, TLC

ClientSymmetry == Permutations(Clients)

=============================================================================
