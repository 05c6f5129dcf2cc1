--------------------------- MODULE MCAuditReactor ---------------------------
(***************************************************************************)
(* Instances of AuditReactor for TLC.                                      *)
(***************************************************************************)
EXTENDS AuditReactor, TLC

\* Threads are only compared.
ThreadSymmetry == Permutations(Threads)
=============================================================================
