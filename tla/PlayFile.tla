------------------------------ MODULE PlayFile ------------------------------
(***************************************************************************)
(* The plays of a film, football/<video>/plays.json: estimated from the    *)
(* tracks by analysis (football/play_segmenter.py, jobs/worker.py),        *)
(* corrected by coaches in the web process (backend/api/football.py), and  *)
(* read by reports.  An analysis that is run again estimates them anew.    *)
(*                                                                         *)
(* The web process corrects one play at a time: it reads the file, then    *)
(* writes all of it back.  The worker's rewrite, which truncates, then     *)
(* fills, may come before, after or in between.  The web process's own     *)
(* truncation and filling are one step: what the worker does between the   *)
(* two ends as it does before or after.                                    *)
(*                                                                         *)
(* Abstractions.  Times are whole seconds.  A correction is known by its   *)
(* number, which stands for its reason and scout note.                     *)
(***************************************************************************)
EXTENDS Integers, FiniteSetsExt, SequencesExt

CONSTANTS
  Horizon,         \* bound: the last second of the film
  Gap,             \* PlaySegmenter.gap_ms, in seconds
  MaxRuns,         \* bound: analyses of the film
  MaxCorrections,  \* bound: corrections
  Asked,           \* times a coach asks for
  Cut,             \* the file truncated but not filled, or mixed
  Idle             \* no correction is being made

\* A second is added at either end of a play, so two must not meet in a gap;
\* the segmenter is only ever made with its default of four.
ASSUME PlayAssumption ==
  /\ Horizon \in Nat /\ Gap \in Nat \ {0, 1}
  /\ MaxRuns \in Nat /\ MaxCorrections \in Nat

VARIABLES
  stamps,      \* seconds in which some player is tracked
  plays,       \* the file: a sequence of plays, or Cut
  analyses,    \* analyses begun
  rewriting,   \* a worker has truncated the file
  pending,     \* the plays a correction is about to write, or Idle
  corrections  \* corrections begun

playVars == <<stamps, plays, analyses, rewriting, pending, corrections>>

Moment == 0 .. Horizon + 1

Times == [start : Moment, snap : Moment, end : Moment, excluded : BOOLEAN]

ASSUME AskedAssumption == Asked \subseteq Times

Audit == [original : Times, new : Times, by : 1 .. MaxCorrections]

Play == [now : Times, history : Seq(Audit)]

PlayTypeOK ==
  /\ stamps \subseteq 0 .. Horizon
  /\ plays = Cut \/ plays \in Seq(Play)
  /\ analyses \in 0 .. MaxRuns
  /\ rewriting \in BOOLEAN
  /\ pending = Idle \/ pending \in Seq(Play)
  /\ corrections \in 0 .. MaxCorrections

PlayInit ==
  /\ stamps \in SUBSET (0 .. Horizon)
  /\ plays = <<>> /\ analyses = 0 /\ rewriting = FALSE
  /\ pending = Idle /\ corrections = 0

-----------------------------------------------------------------------------
\* Faulty variant: a stamp just the gap after the one before it does, too.
BeginsAtGap(S) == {t \in S : \A u \in S : u < t => t - u >= Gap}

\* PlaySegmenter.segment(): a stamp more than the gap after the one before
\* it begins a play.
Begins(S) == {t \in S : \A u \in S : u < t => t - u > Gap}

PlayFrom(S, first) ==
  LET last == Max({t \in S : ~\E b \in Begins(S) : first < b /\ b <= t}) IN
  [now |-> [start |-> Max({0, first - 1}), snap |-> first, end |-> last + 1, excluded |-> FALSE],
   history |-> <<>>]

\* The one of a set that i - 1 others come before.
Nth(S, i) == CHOOSE t \in S : Cardinality({u \in S : u < t}) = i - 1

Segment(S) == [i \in 1 .. Cardinality(Begins(S)) |-> PlayFrom(S, Nth(Begins(S), i))]

\* The end of an analysis: write_text() truncates the file and fills it.
TruncatePlays ==
  /\ analyses < MaxRuns /\ ~rewriting
  /\ analyses' = analyses + 1
  /\ plays' = Cut /\ rewriting' = TRUE
  /\ UNCHANGED <<stamps, pending, corrections>>

\* Where a correction has been written since, the longer of the two may show
\* behind the shorter.
FillPlays ==
  /\ rewriting
  /\ plays' \in {Segment(stamps)} \cup (IF plays = Cut THEN {} ELSE {Cut})
  /\ rewriting' = FALSE
  /\ UNCHANGED <<stamps, analyses, pending, corrections>>

\* The worker dies in between.
WorkerLeaves ==
  /\ rewriting
  /\ rewriting' = FALSE
  /\ UNCHANGED <<stamps, plays, analyses, pending, corrections>>

Ordered(t) == t.start <= t.snap /\ t.snap <= t.end

\* correct_play_boundary(): 404 where there is no such play, and where there
\* is no file that can be read, or the times are out of order, an exception.
CorrectWith(i, times, before, original) ==
  /\ corrections < MaxCorrections
  /\ pending = Idle /\ plays # Cut
  /\ i \in DOMAIN plays /\ Ordered(times)
  /\ corrections' = corrections + 1
  /\ pending' = [plays EXCEPT ![i] =
       [now |-> times,
        history |-> Append(before, [original |-> original, new |-> times, by |-> corrections'])]]
  /\ UNCHANGED <<stamps, plays, analyses, rewriting>>

\* Faulty variant: the audit's original is the estimate, not the play as it
\* was corrected before.
CorrectFromEstimate(i, times) ==
  CorrectWith(i, times, plays[i].history, Segment(stamps)[i].now)

\* Faulty variant: the history is begun anew.
CorrectAnew(i, times) == CorrectWith(i, times, <<>>, plays[i].now)

CorrectPlay(i, times) == CorrectWith(i, times, plays[i].history, plays[i].now)

WritePlays ==
  /\ pending # Idle
  /\ plays' = pending /\ pending' = Idle
  /\ UNCHANGED <<stamps, analyses, rewriting, corrections>>

\* The web process ends before it has written, or half way.
WebLeaves ==
  /\ pending # Idle
  /\ plays' \in {plays, Cut} /\ pending' = Idle
  /\ UNCHANGED <<stamps, analyses, rewriting, corrections>>

PlayNext ==
  \/ TruncatePlays \/ FillPlays \/ WorkerLeaves
  \/ plays # Cut /\ \E i \in DOMAIN plays : \E times \in Asked : CorrectPlay(i, times)
  \/ WritePlays \/ WebLeaves

PlaySpec == PlayInit /\ [][PlayNext]_playVars

-----------------------------------------------------------------------------
\* build_play_observations(): which tracked seconds a play's evidence has.
Covered(play) ==
  IF play.now.excluded THEN {} ELSE {t \in stamps : play.now.start <= t /\ t <= play.now.end}

-----------------------------------------------------------------------------
(* Properties.                                                             *)

\* What is estimated leaves no tracked second out and counts none twice: the
\* second that is added at either end does not reach into the next play, nor
\* to before the film.
EstimateIsPartition ==
  LET estimate == Segment(stamps) IN
  /\ UNION {Covered(estimate[i]) : i \in DOMAIN estimate} = stamps
  /\ \A i \in 1 .. Len(estimate) - 1 : estimate[i].now.end < estimate[i + 1].now.start
  /\ \A i \in DOMAIN estimate : estimate[i].now.start >= 0 /\ Ordered(estimate[i].now)

\* A play that was corrected can be traced back: each entry of its history
\* starts from what the one before it left, the first from the estimate, and
\* the last is what the play is now.
HistoryIsUnbroken ==
  plays # Cut => \A i \in DOMAIN plays :
    LET h == plays[i].history IN
    h # <<>> =>
      /\ h[1].original = Segment(stamps)[i].now
      /\ \A k \in 1 .. Len(h) - 1 : h[k].new = h[k + 1].original /\ h[k].by < h[k + 1].by
      /\ h[Len(h)].new = plays[i].now

\* A coach's correction is lost to an analysis of the film that is run
\* again, or with the whole file: what is written over plays that can be
\* read, by whomever but an analysis that is ending, has their histories.
LostOnlyToAnalysis ==
  [][plays # Cut /\ plays' # Cut /\ rewriting' = rewriting =>
       \A i \in DOMAIN plays : IsPrefix(plays[i].history, plays'[i].history)]_playVars
=============================================================================
