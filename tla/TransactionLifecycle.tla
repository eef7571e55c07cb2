------------------------ MODULE TransactionLifecycle ------------------------
(***************************************************************************)
(* The promise of the browser-profile transaction lifecycle, as            *)
(* docs/browser-profile-transactions.md draws it: what a reader of the     *)
(* latest snapshot may conclude, without snapshots, digests or files.      *)
(* A package is fixed by the first preparation and a generation becomes    *)
(* current at most once, for that package.                                 *)
(***************************************************************************)
CONSTANTS Packages, Generations, None

VARIABLES phase, package, generation

vars == <<phase, package, generation>>

Init == phase = "candidate" /\ package = None /\ generation = None

Review ==
  /\ phase = "candidate" /\ phase' = "reviewed"
  /\ UNCHANGED <<package, generation>>

Prepare(p) ==
  /\ phase = "reviewed" /\ phase' = "prepared"
  /\ package' = p
  /\ UNCHANGED generation

(* A promotion whose result cannot be proved, and its reconciliation. *)
LoseTrack ==
  /\ phase = "prepared" /\ phase' = "indeterminate"
  /\ UNCHANGED <<package, generation>>

ReturnToPrepared ==
  /\ phase = "indeterminate" /\ phase' = "prepared"
  /\ UNCHANGED <<package, generation>>

Promote(g) ==
  /\ phase \in {"prepared", "indeterminate"} /\ phase' = "promoted"
  /\ generation' = g
  /\ UNCHANGED package

Abandon ==
  /\ phase \in {"candidate", "reviewed", "prepared", "indeterminate"}
  /\ phase' \in {"cancelled", "failed"}
  /\ UNCHANGED <<package, generation>>

Next ==
  \/ Review \/ LoseTrack \/ ReturnToPrepared \/ Abandon
  \/ \E p \in Packages : Prepare(p)
  \/ \E g \in Generations : Promote(g)

Spec == Init /\ [][Next]_vars
=============================================================================
