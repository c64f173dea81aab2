---------------------------- MODULE FilmGrading -----------------------------
(***************************************************************************)
(* How a grade comes about: what the model says of the plays is checked    *)
(* against their evidence (ai/football_reasoner.py), mapped to events      *)
(* (grading/event_mapper.py) and scored (grading/engine.py), and the five  *)
(* traits a Truth Report shows are summed up (football/truth_report.py).   *)
(*                                                                         *)
(* Plays are reasoned over one after the other, and a play's answer is a   *)
(* few claims.  A claim is a trait, a value and a time; how sure the model *)
(* was of it is left out.                                                  *)
(*                                                                         *)
(* Abstractions.  Scores, weights and confidences are integers; a grade is *)
(* left as the fraction <<sum, weight>>, round() being monotone.  A score  *)
(* of 0..100 from 50 is 0..Top from Base, so that few events reach an end. *)
(* A claim of a value or trait that is not official is refused as one      *)
(* without evidence is; such claims are left out.                          *)
(***************************************************************************)
EXTENDS Integers, Sequences, FiniteSets, Functions

CONSTANTS
  Official,   \* traits of the position's rule file
  Enabled,    \* those with "enabled": true
  WeightOf,   \* their weights
  Delta,      \* values of scoring_events.json
  Base, Top,  \* BASE_SCORE and the end of the scale
  Ranges,     \* per play: the first and last second of its evidence
  Shown,      \* DEMO_TRAIT_ALIASES: display name to traits
  MaxEvents,  \* bound: events of a grade
  Unknown     \* the value "unknown", and no score

ASSUME GradingAssumption ==
  /\ Enabled \subseteq Official /\ WeightOf \in [Official -> Nat \ {0}]
  /\ Delta \subseteq Int
  /\ Base \in 0 .. Top /\ Top \in Nat /\ MaxEvents \in Nat
  /\ Ranges \in Seq(Nat \X Nat) /\ Unknown \notin Int

VARIABLES
  events,   \* the events of the report being built, in order
  reading,  \* the play that is being reasoned over
  refused   \* an answer did not keep to the evidence: the report fails

gradingVars == <<events, reading, refused>>

PlayNo == DOMAIN Ranges

\* The seconds a claim may name: in, between and beyond the plays.
Second == 0 .. 1 + (CHOOSE n \in {r[2] : r \in {Ranges[p] : p \in PlayNo}} :
                      \A p \in PlayNo : Ranges[p][2] <= n)

Event == [trait : Official, value : Delta, at : Second, play : PlayNo]

GradingTypeOK ==
  /\ events \in Seq(Event) /\ Len(events) <= MaxEvents
  /\ reading \in PlayNo \cup {1}
  /\ refused \in BOOLEAN

GradingInit == events = <<>> /\ reading = 1 /\ refused = FALSE

-----------------------------------------------------------------------------
\* evidence_for_timestamp(): the play's evidence, if it contains the time.
Within(p, at) == Ranges[p][1] <= at /\ at <= Ranges[p][2]

\* The next claim: "unknown" is skipped, and a claim outside the evidence,
\* or without a time, refuses the whole answer.
Claim(trait, value, at) ==
  /\ ~refused /\ reading \in PlayNo /\ Len(events) < MaxEvents
  /\ \/ /\ value # Unknown /\ at # Unknown /\ Within(reading, at)
        /\ events' = Append(events, [trait |-> trait, value |-> value, at |-> at,
                                     play |-> reading])
        /\ UNCHANGED refused
     \/ /\ value # Unknown
        /\ IF at = Unknown THEN TRUE ELSE ~Within(reading, at)
        /\ refused' = TRUE
        /\ UNCHANGED events
  /\ UNCHANGED reading

NextPlay ==
  /\ ~refused /\ reading < Len(Ranges)
  /\ reading' = reading + 1
  /\ UNCHANGED <<events, refused>>

GradingNext ==
  \/ \E trait \in Official : \E value \in Delta :
       \E at \in Second \cup {Unknown} : Claim(trait, value, at)
  \/ NextPlay

GradingSpec == GradingInit /\ [][GradingNext]_gradingVars

-----------------------------------------------------------------------------
(* TruGradeFilmEngine.grade().                                             *)

SamplesOf(es, trait) == {i \in DOMAIN es : es[i].trait = trait}

ValuesOf(es) == [i \in DOMAIN es |-> es[i].value]

Clamp(n) == IF n < 0 THEN 0 ELSE IF n > Top THEN Top ELSE n

\* Faulty variant: every event is kept within the scale as it is added.
ScoreStepwise(es, trait) ==
  FoldFunctionOnSet(LAMBDA v, score : Clamp(score + v), Base, ValuesOf(es), SamplesOf(es, trait))

\* Faulty variant: the mean value of the events.
ScoreByMean(es, trait) ==
  Clamp(Base + SumFunctionOnSet(ValuesOf(es), SamplesOf(es, trait))
                 \div Cardinality(SamplesOf(es, trait)))

TraitScore(es, trait) == Clamp(Base + SumFunctionOnSet(ValuesOf(es), SamplesOf(es, trait)))

Scored(es) == {t \in Enabled : SamplesOf(es, t) # {}}

\* The mean score of the given traits, each counted so many times.
MeanScore(es, T, times) ==
  IF T = {} THEN Unknown
  ELSE <<SumFunction([t \in T |-> TraitScore(es, t) * times[t]]), SumFunctionOnSet(times, T)>>

\* The grade: the traits that were scored, by their weights.
PositionGrade(es) == MeanScore(es, Scored(es), WeightOf)

\* five_trait_summary(): a name's traits, by their samples; a trait may
\* count for two names.
Summary(es, name) ==
  MeanScore(es, Scored(es) \cap Shown[name],
            [t \in Official |-> Cardinality(SamplesOf(es, t))])

-----------------------------------------------------------------------------
(* Properties.                                                             *)

\* a <= b, as fractions.
AtMost(a, b) == a[1] * b[2] <= b[1] * a[2]

\* The same film is worth the same grade, whatever order its plays and
\* claims were reasoned over in.
OrderNeverMatters ==
  LET back == [i \in DOMAIN events |-> events[Len(events) + 1 - i]]
  IN PositionGrade(events) = PositionGrade(back)

\* A grade lies between the lowest and the highest trait score, and so on
\* the scale; what the report shows of a trait does, too.
GradeIsBounded ==
  LET between(grade, T) ==
        /\ \E t \in T : AtMost(<<TraitScore(events, t), 1>>, grade)
        /\ \E t \in T : AtMost(grade, <<TraitScore(events, t), 1>>)
  IN /\ Scored(events) # {} =>
          /\ between(PositionGrade(events), Scored(events))
          /\ AtMost(<<0, 1>>, PositionGrade(events)) /\ AtMost(PositionGrade(events), <<Top, 1>>)
     /\ \A name \in DOMAIN Shown : Summary(events, name) # Unknown =>
          between(Summary(events, name), Scored(events) \cap Shown[name])

\* One more good play on a trait that has been scored never lowers the grade,
\* and one more bad play never raises it.
MoreOfTheSameCounts ==
  [][\A t \in Scored(events) :
       Len(events') > Len(events) /\ events'[Len(events')].trait = t =>
         LET value == events'[Len(events')].value IN
         /\ value >= 0 => AtMost(PositionGrade(events), PositionGrade(events'))
         /\ value <= 0 => AtMost(PositionGrade(events'), PositionGrade(events))]_gradingVars

\* Every event a grade rests on can be shown on film: its time lies in the
\* evidence of the play it is said of, even where another play has that time.
EventsAreOnFilm ==
  \A i \in DOMAIN events :
    LET range == Ranges[events[i].play] IN events[i].at \in range[1] .. range[2]

\* A grade is of what was seen, however it was read, and on the scale.
GradeIsSound == OrderNeverMatters /\ GradeIsBounded /\ EventsAreOnFilm
=============================================================================
