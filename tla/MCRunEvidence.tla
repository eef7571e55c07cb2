--------------------------- MODULE MCRunEvidence ---------------------------
(* Small instances of RunEvidence.                                           *)
EXTENDS RunEvidence
=============================================================================
