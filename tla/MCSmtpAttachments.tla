--------------------------- MODULE MCSmtpAttachments ---------------------------
(* Threads and names are alike: neither Init nor Next nor an invariant names one. *)
EXTENDS SmtpAttachments, TLC

Symmetry == Permutations(Sessions) \cup Permutations(Names)

=============================================================================
