--------------------------- MODULE MCTruthReports ---------------------------
(***************************************************************************)
(* A small instance of TruthReports over TrackAssignments.  A behaviour is *)
(* either of the assignments alone, with all their writers, or of the      *)
(* whole desk with some of the coaches, and everybody states the same      *)
(* identity: reports only look at the athlete.  Tracks, athletes and runs  *)
(* are treated alike everywhere.                                           *)
(***************************************************************************)
EXTENDS TruthReports, TLC

CONSTANT DeskCoach  \* bound: the coaches who write beside the reports

VARIABLE scene  \* what this behaviour is of

mcVars == <<scene, deskVars>>

OneIdentity == [col \in IdentityColumn |-> CHOOSE v \in Value : TRUE]

Narrowed ==
  /\ \A c \in Coach \ DeskCoach : stage[c] = "idle"
  /\ \A w \in Writer : request[w] # Unasked => request[w].identity = OneIdentity

MCInit == DeskInit /\ scene \in {"assignments", "desk"}

MCNext ==
  /\ UNCHANGED scene
  /\ \/ scene = "assignments" /\ AssignmentNext /\ UNCHANGED reportVars
     \/ scene = "desk" /\ DeskNext /\ Narrowed'

MCSpec == MCInit /\ [][MCNext]_mcVars

Symmetry == Permutations(Track) \cup Permutations(Athlete) \cup Permutations(Run)
=============================================================================
