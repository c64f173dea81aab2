----------------------------- MODULE MCNumbers ------------------------------
(***************************************************************************)
(* Small instances of the algorithms that turn film and measurements into  *)
(* numbers.  They share no state: a behaviour is of one, the others rest   *)
(* in an initial state.                                                    *)
(***************************************************************************)
EXTENDS MetricSieve, FilmGrading, PlayFile, PlayerTracking

VARIABLE algorithm  \* the one this behaviour is of

mcVars == <<algorithm, sieveVars, gradingVars, playVars, trackingVars>>

\* MetricSieve: every metric, in groups small enough to vary together.
MCMeasured ==
  [QB |-> Metric, DB |-> Laser \cup Frame,
   RB |-> {"forty", "weight", "bench", "squat", "gpa"}]

\* FilmGrading: two plays that share a second, an event that goes beyond the
\* end of the scale on either side, a trait two display names share.
MCWeightOf == [speed |-> 1, vision |-> 2, toughness |-> 1]
MCDelta == {-6, 3, 10}
MCRanges == <<<<0, 1>>, <<1, 2>>>>
MCShown == [field_speed |-> {"speed", "vision"}, vision |-> {"toughness", "vision"}]

\* PlayFile: corrections in order, one out of order, one that excludes.
Ask(start, snap, end, excluded) ==
  [start |-> start, snap |-> snap, end |-> end, excluded |-> excluded]
MCAsked == {Ask(0, 0, 2, FALSE), Ask(1, 2, 3, FALSE), Ask(2, 1, 3, FALSE), Ask(0, 1, 1, TRUE)}

\* PlayerTracking: boxes of neighbours overlap enough, others do not.
MCOverlap == <<10, 4, 2>>

MCInit ==
  /\ algorithm \in {"sieve", "grading", "plays", "tracking"}
  /\ SieveInit /\ GradingInit /\ PlayInit /\ TrackingInit
  /\ algorithm # "sieve" => position = "QB"
  /\ algorithm # "plays" => stamps = {}

MCNext ==
  /\ UNCHANGED algorithm
  /\ \/ /\ algorithm = "sieve" /\ SieveNext
        /\ UNCHANGED <<gradingVars, playVars, trackingVars>>
     \/ /\ algorithm = "grading" /\ GradingNext
        /\ UNCHANGED <<sieveVars, playVars, trackingVars>>
     \/ /\ algorithm = "plays" /\ PlayNext
        /\ UNCHANGED <<sieveVars, gradingVars, trackingVars>>
     \/ /\ algorithm = "tracking" /\ TrackingNext
        /\ UNCHANGED <<sieveVars, gradingVars, playVars>>

MCSpec == MCInit /\ [][MCNext]_mcVars
=============================================================================
