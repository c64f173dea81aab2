----------------------------- MODULE MCJobQueue -----------------------------
(* Small instances of JobQueue for TLC. *)
EXTENDS JobQueue, TLC

AnalysisThenIdentity == <<"analysis", "identity">>
IdentityOnly == <<"identity">>
AnalysisOnly == <<"analysis">>
IdentityThenReport == <<"identity", "truth_report">>

WorkerSymmetry == Permutations(Worker)
Symmetry == Permutations(Worker) \cup Permutations(Client)
=============================================================================
