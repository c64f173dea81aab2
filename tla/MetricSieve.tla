---------------------------- MODULE MetricSieve -----------------------------
(***************************************************************************)
(* The metric sieve (app/services/metric_sieve.py): which tier a           *)
(* prospect's measurements project to.  A prospect is measured, and        *)
(* measured again, one metric at a time; the sieve is a function of what   *)
(* has been measured.                                                      *)
(*                                                                         *)
(* Units: inches, pounds, hundredths of a second and of a grade point.     *)
(***************************************************************************)
EXTENDS Naturals, Sequences, FiniteSetsExt

CONSTANTS
  Position,   \* positions this instance is about
  Measured,   \* per position: the metrics it lets vary
  NotGiven    \* no measurement, no reason to flag

VARIABLES
  position,   \* of the prospect
  metrics     \* per metric: its value, or NotGiven

sieveVars == <<position, metrics>>

Laser == {"forty", "shuttle"}
Frame == {"height", "weight"}
Score == {"sat", "act"}
Metric == Laser \cup Frame \cup {"bench", "squat", "gpa"} \cup Score

-----------------------------------------------------------------------------
(* POSITION_MATRIX and TIER_LADDER.                                        *)

Unbounded == 10000
Span(lo, hi) == <<lo, hi>>
AtLeast(n) == <<n, Unbounded>>
UpTo(n) == <<0, n>>

\* Faulty variant: the forty's lower bound is checked, too.
Run40Within(hi) == [m \in {"forty"} |-> Span(hi - 30, hi)]

\* The forty has a lower bound too, but only the upper is checked.
Body(height, weight) == [m \in Frame |-> IF m = "height" THEN height ELSE weight]
Run40(hi) == [m \in {"forty"} |-> UpTo(hi)]
Lifts(bench, squat) ==
  [m \in {"bench", "squat"} |-> AtLeast(IF m = "bench" THEN bench ELSE squat)]
School == [m \in {"gpa"} \cup Score |->
             AtLeast(CASE m = "gpa" -> 300 [] m = "sat" -> 1000 [] m = "act" -> 18)]

Also(f, g) == [m \in DOMAIN f \cup DOMAIN g |-> IF m \in DOMAIN f THEN f[m] ELSE g[m]]

Rung(tier, matrix) == [tier |-> tier, matrix |-> matrix]

\* Per position: the tiers, the best first.
Ladder ==
  [QB |-> <<Rung("D1_FBS", Also(School, Also(Run40(490), Body(Span(74, 78), Span(200, 240))))),
            Rung("D2_D3_NAIA_JUCO", Also(Run40(500), Body(Span(72, 77), Span(180, 225))))>>,
   RB |-> <<Rung("D1_FBS", Also(Lifts(300, 450), Also(School,
                           Also(Run40(460), Body(Span(69, 73), Span(190, 230)))))),
            Rung("D1_FCS_D2", Also(Run40(490), Body(Span(68, 72), Span(180, 220))))>>,
   WR |-> <<Rung("D1_FBS", Also(School, Also(Run40(460), Body(Span(72, 76), Span(180, 220))))),
            Rung("D1_FCS_D2", Also(Run40(490), Body(Span(70, 75), Span(170, 210))))>>,
   TE |-> <<Rung("D1_FBS", Also(Lifts(300, 450), Also(School,
                           Also(Run40(480), Body(Span(76, 79), Span(230, 270)))))),
            Rung("D1_FCS_D2", Also(Run40(520), Body(Span(74, 78), Span(220, 260))))>>,
   OL |-> <<Rung("D1_FBS", Also(Lifts(350, 500), Also(School,
                           Also(Run40(530), Body(Span(76, 80), Span(280, 330)))))),
            Rung("D1_FCS_D2", Body(Span(74, 78), Span(270, 310)))>>,
   DL |-> <<Rung("D1_FBS", Also(Lifts(350, 500), Also(School,
                           Also(Run40(510), Body(Span(75, 78), Span(250, 320)))))),
            Rung("D1_FCS", Also(Run40(520), Body(Span(74, 77), Span(240, 300)))),
            Rung("D2_D3_NAIA_JUCO", Also(Run40(530), Body(Span(72, 76), Span(230, 280))))>>,
   DE |-> <<Rung("D1_FBS", Also(Lifts(350, 500), Also(School,
                           Also(Run40(480), Body(Span(75, 78), Span(240, 280)))))),
            Rung("D1_FCS", Also(Run40(490), Body(Span(74, 77), Span(230, 270)))),
            Rung("D2_D3_NAIA_JUCO", Also(Run40(510), Body(Span(72, 76), Span(220, 260))))>>,
   LB |-> <<Rung("D1_FBS", Also(School, Also(Run40(470), Body(Span(73, 76), Span(220, 250))))),
            Rung("D1_FCS", Also(Run40(480), Body(Span(72, 75), Span(210, 240)))),
            Rung("D2_D3_NAIA_JUCO", Also(Run40(500), Body(Span(71, 74), Span(200, 230))))>>,
   DB |-> <<Rung("D1_FBS", Also([m \in {"shuttle"} |-> UpTo(420)], Also(School,
                           Also(Run40(460), Body(Span(70, 74), Span(175, 210)))))),
            Rung("D1_FCS", Also(Run40(470), Body(Span(69, 73), Span(170, 200)))),
            Rung("D2_D3_NAIA_JUCO", Also(Run40(490), Body(Span(68, 72), Span(165, 190))))>>]

ASSUME SieveAssumption ==
  /\ Position \subseteq DOMAIN Ladder
  /\ Measured \in [Position -> SUBSET Metric] /\ NotGiven \notin Nat

-----------------------------------------------------------------------------
(* run_sieve().                                                            *)

\* _in_range(): a bound is within.
InRange(value, bounds) ==
  IF value = NotGiven THEN "unknown"
  ELSE IF bounds[1] <= value /\ value <= bounds[2] THEN "passed" ELSE "failed"

\* The checks of a rung; a score that was not given is not checked.
Checks(rung, given) ==
  [m \in {k \in DOMAIN rung.matrix : k \in Score => given[k] # NotGiven} |->
     InRange(given[m], rung.matrix[m])]

\* Of SAT and ACT one must pass, of the other checks none may fail.
HardFail(checks) ==
  LET scores == DOMAIN checks \cap Score IN
  \/ \E m \in DOMAIN checks \ Score : checks[m] = "failed"
  \/ scores # {} /\ \A m \in scores : checks[m] # "passed"

Blank(checks) == \A m \in DOMAIN checks : checks[m] = "unknown"

\* Faulty variant: one good laser metric is enough.
FlaggedByOne(checks) ==
  /\ \E m \in DOMAIN checks \cap Laser : checks[m] = "passed"
  /\ \E m \in DOMAIN checks \cap Frame : checks[m] = "failed"

\* No rung took the prospect: the checks of the best are looked at again.
Flagged(checks) ==
  LET lasers == {m \in DOMAIN checks \cap Laser : checks[m] # "unknown"} IN
  /\ lasers # {} /\ \A m \in lasers : checks[m] = "passed"
  /\ \E m \in DOMAIN checks \cap Frame : checks[m] = "failed"

Projection(rung, qualifying, flag) ==
  [rung |-> rung, qualifying |-> qualifying, gameChanger |-> flag]

\* The rung a prospect is projected to, 0 being UNRANKED, and the rungs they
\* are said to qualify for.  A blank rung ends the walk, as a passed one does.
RunSieve(ladder, given) ==
  LET checks(i) == Checks(ladder[i], given)
      ends == {i \in DOMAIN ladder : Blank(checks(i)) \/ ~HardFail(checks(i))}
      end == Min(ends)
  IN IF ends = {}
       THEN IF Flagged(checks(1)) THEN Projection(1, {1}, TRUE) ELSE Projection(0, {}, FALSE)
     ELSE IF Blank(checks(end)) THEN Projection(0, {}, FALSE)
     ELSE Projection(end, end .. Len(ladder), FALSE)

-----------------------------------------------------------------------------
\* The values a metric is tried with: every bound and the next beyond it.
Tried(p, m) ==
  UNION {LET bounds == Ladder[p][i].matrix[m] IN
         ({bounds[1], bounds[1] - 1, bounds[2], bounds[2] + 1} \cap 1 .. Unbounded - 1) :
           i \in {i \in DOMAIN Ladder[p] : m \in DOMAIN Ladder[p][i].matrix}}

SieveTypeOK ==
  /\ position \in Position
  /\ \A m \in Metric : metrics[m] \in Tried(position, m) \cup {NotGiven}

SieveInit == position \in Position /\ metrics = [m \in Metric |-> NotGiven]

Measure(m) ==
  /\ m \in Measured[position]
  /\ \E value \in Tried(position, m) : metrics' = [metrics EXCEPT ![m] = value]
  /\ UNCHANGED position

SieveNext == \E m \in Metric : Measure(m)

SieveSpec == SieveInit /\ [][SieveNext]_sieveVars

-----------------------------------------------------------------------------
(* Properties.                                                             *)

Projected(given) == RunSieve(Ladder[position], given)

\* Rung numbers grow downwards; UNRANKED is below them all.
AtLeastAsHigh(a, b) == b.rung = 0 \/ a.rung \in 1 .. b.rung

\* Running faster, or lifting more, or a better grade average, never costs a
\* prospect their tier: a forty below the range of a tier is no reason to
\* fail it (metric_sieve.py:114).
BetterIsNeverWorse ==
  [][\A m \in Metric \ (Frame \cup Score) :
       metrics'[m] # metrics[m] /\ metrics[m] # NotGiven =>
         IF (metrics'[m] < metrics[m]) = (m \in Laser)
         THEN AtLeastAsHigh(Projected(metrics'), Projected(metrics))
         ELSE AtLeastAsHigh(Projected(metrics), Projected(metrics'))]_sieveVars

\* "SAT/ACT are either/or" (metric_sieve.py:162): where the one is known,
\* learning the other never lowers the tier.
SecondScoreNeverHurts ==
  [][\A m \in Score :
       metrics[m] = NotGiven /\ metrics'[m] # NotGiven
         /\ (\E other \in Score \ {m} : metrics[other] # NotGiven) =>
         AtLeastAsHigh(Projected(metrics'), Projected(metrics))]_sieveVars

\* A prospect never loses a tier by showing more: by a better measurement or
\* by the other score.
MoreIsNeverWorse == BetterIsNeverWorse /\ SecondScoreNeverHurts

\* A tier is projected for what was measured: at the projected rung no laser,
\* frame, strength or grade check fails, and at each one above some check
\* does.  A game changer fails every rung, but passes each laser check that
\* could be made, at the best.
ProjectionIsEarned ==
  LET at(i) == Checks(Ladder[position][i], metrics)
      fails(i, S) == \E m \in DOMAIN at(i) \cap S : at(i)[m] = "failed"
      best == Projected(metrics)
  IN /\ best.rung # 0 /\ ~best.gameChanger =>
          /\ ~fails(best.rung, Metric \ Score)
          /\ \A i \in 1 .. best.rung - 1 : fails(i, Metric)
     /\ best.gameChanger =>
          /\ \A i \in DOMAIN Ladder[position] : fails(i, Metric)
          /\ fails(1, Frame) /\ ~fails(1, Laser)
          /\ \E m \in Laser : metrics[m] # NotGiven
=============================================================================
