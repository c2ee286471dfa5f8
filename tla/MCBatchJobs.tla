---------------------------- MODULE MCBatchJobs ----------------------------
(* Small instances of BatchJobs for TLC.                                    *)
EXTENDS BatchJobs

=============================================================================
