------------------------------ MODULE MCAudit ------------------------------
(***************************************************************************)
(* The settings Audit is checked in.                                       *)
(***************************************************************************)
EXTENDS Audit, TLC

\* Addresses are compared, nothing else.
Interchangeable == Permutations(Sources) \cup Permutations(Dests)

Everything == [shared |-> FALSE, lib |-> TRUE, audit |-> TRUE, coding |-> TRUE,
               white |-> FALSE, k |-> 1, len |-> 1, alone |-> FALSE, bytes |-> 2]
Whitening == [Everything EXCEPT !.coding = FALSE, !.white = TRUE, !.alone = TRUE, !.bytes = 7]

\* Both lists; a source shared by servers; no library; white frames far
\* apart, close to each other, and without the audit.
MCSettings ==
  {Everything, [Everything EXCEPT !.shared = TRUE], [Everything EXCEPT !.lib = FALSE],
   [Whitening EXCEPT !.k = 2], [Whitening EXCEPT !.len = 2],
   [Whitening EXCEPT !.audit = FALSE]}
=============================================================================
