-------------------------- MODULE JobAnswersProofs --------------------------
(***************************************************************************)
(* What members are told is true, for any number of workers, players and   *)
(* jobs, and any limits; workers that only report late are included.       *)
(***************************************************************************)
EXTENDS JobAnswers, TLAPS, SequenceTheorems, WellFoundedInduction

-----------------------------------------------------------------------------
(* The invariant.                                                          *)

\* Before its first run a job is waiting and has no result; a result is the
\* row's own, and a job that was completed last has that for a result.
RowIsTrue(row) ==
  /\ row.attempts = 0 => row.status = "queued" /\ row.result = Never
  /\ row.result # Never => row.result.of = row.player
  /\ row.status = "completed" /\ row.kind # "analysis" =>
       row.result # Never /\ row.result.status = "completed"

\* A worker is at a job that was handed out, and has been silent for just as
\* long as it has been at it.
WorkerIsKnown(w) ==
  /\ Busy(w) => /\ runs[w] \in Enqueued /\ jobRows[runs[w]].attempts # 0
                /\ seen[w] = spent[w]
  /\ does[w] = "ready" => seen[w] = 0

AnswerInv ==
  /\ AnswerTypeOK
  /\ \A i \in Enqueued : RowIsTrue(jobRows[i])
  /\ \A w \in Machine : WorkerIsKnown(w)

-----------------------------------------------------------------------------
LEMMA NewestIs ==
  ASSUME jobRows \in Seq(JobRow), NEW S \in SUBSET Enqueued, S # {}
  PROVE  Newest(S) \in S
<1>1. Len(jobRows) \in Nat /\ Enqueued = 1 .. Len(jobRows)
  BY LenProperties DEF Enqueued
<1> DEFINE n == Len(jobRows)
           T == {k \in Nat : \E i \in S : k = n - i}
<1>2. \A i \in S : i \in 1 .. n /\ n - i \in T
  BY <1>1
<1>3. T \subseteq Nat /\ T # {}
  BY <1>2
<1>4. \E k \in T : \A l \in T : ~ (<<l, k>> \in OpToRel(<, Nat))
  <2> HIDE DEF T
  <2> QED
    BY <1>3, NatLessThanWellFounded, WFMin
<1>5. \E k \in T : \A l \in T : ~ (l < k)
  BY <1>3, <1>4 DEF OpToRel
<1>6. PICK k \in T : \A l \in T : ~ (l < k)
  BY <1>5
<1>7. PICK i \in S : k = n - i
  BY <1>6
<1>8. ASSUME NEW j \in S PROVE j <= i
  <2>1. n \in Nat /\ i \in 1 .. n /\ j \in 1 .. n /\ n - j \in T
    BY <1>1, <1>2
  <2>2. ~ (n - j < n - i)
    BY <1>6, <1>7, <2>1
  <2> HIDE DEF n, T
  <2> QED
    BY <2>1, <2>2
<1> QED
  BY <1>8 DEF Newest

-----------------------------------------------------------------------------
(* Steps that change rows: none comes or goes, and each stays a true row   *)
(* that was handed out if it had been.                                     *)

KeepsRow(row, new) ==
  /\ new \in JobRow /\ RowIsTrue(new)
  /\ row.attempts # 0 => new.attempts # 0

KeepsRows ==
  /\ jobRows' = [i \in Enqueued |-> jobRows'[i]]
  /\ \A i \in Enqueued : KeepsRow(jobRows[i], jobRows'[i])

LEMMA Rows ==
  ASSUME AnswerInv
  PROVE  /\ Len(jobRows) \in 0 .. MaxAsked /\ Enqueued = 1 .. Len(jobRows)
         /\ \A i \in Enqueued : jobRows[i] \in JobRow /\ KeepsRow(jobRows[i], jobRows[i])
<1>1. jobRows \in Seq(JobRow) /\ Len(jobRows) <= MaxAsked
  BY DEF AnswerInv, AnswerTypeOK
<1>2. Len(jobRows) \in Nat /\ Enqueued = 1 .. Len(jobRows)
  BY <1>1, LenProperties DEF Enqueued
<1>3. \A i \in Enqueued : jobRows[i] \in JobRow
  BY <1>1, <1>2, ElementOfSeq
<1> QED
  BY <1>1, <1>2, <1>3, AnswerAssumption DEF KeepsRow, AnswerInv

LEMMA KeptRows ==
  ASSUME AnswerInv, KeepsRows
  PROVE  /\ jobRows' \in Seq(JobRow) /\ Len(jobRows') <= MaxAsked
         /\ Enqueued' = Enqueued
         /\ \A i \in Enqueued' : RowIsTrue(jobRows[i])'
<1>1. Len(jobRows) \in 0 .. MaxAsked /\ Enqueued = 1 .. Len(jobRows)
  BY Rows
<1>2. jobRows' \in [1 .. Len(jobRows) -> JobRow]
  BY <1>1 DEF KeepsRows, KeepsRow
<1>3. jobRows' \in Seq(JobRow)
  BY <1>1, <1>2, SeqDef
<1>4. DOMAIN jobRows' = 1 .. Len(jobRows)
  BY <1>2
<1>5. Len(jobRows') = Len(jobRows)
  BY <1>1, <1>3, <1>4, LenProperties
<1>6. Enqueued' = Enqueued
  BY <1>1, <1>4 DEF Enqueued
<1> QED
  BY <1>1, <1>3, <1>5, <1>6 DEF KeepsRows, KeepsRow, RowIsTrue

\* One row changes.
LEMMA OneRow ==
  ASSUME AnswerInv, NEW i \in Enqueued, NEW row,
         jobRows' = [jobRows EXCEPT ![i] = row], KeepsRow(jobRows[i], row)
  PROVE  KeepsRows
<1>1. jobRows \in [Enqueued -> JobRow]
  <2>1. jobRows \in Seq(JobRow)
    BY DEF AnswerInv, AnswerTypeOK
  <2> QED
    BY <2>1, Rows, LenProperties
<1> QED
  BY <1>1, Rows DEF KeepsRows

-----------------------------------------------------------------------------
LEMMA ResumeKeepsRows ==
  ASSUME AnswerInv, NEW i \in Enqueued, ResumeAnalysis(i)
  PROVE  KeepsRows
<1> DEFINE row == [jobRows[i] EXCEPT !.status = "queued", !.beat = 0]
<1>1. jobRows[i] \in JobRow /\ RowIsTrue(jobRows[i]) /\ jobRows[i].kind = "analysis"
  BY Rows DEF AnswerInv, ResumeAnalysis
<1>2. 0 \in 0 .. Stale + 1
  BY AnswerAssumption
<1>3. KeepsRow(jobRows[i], row)
  BY <1>1, <1>2 DEF KeepsRow, RowIsTrue, JobRow
<1>4. jobRows' = [jobRows EXCEPT ![i] = row]
  BY DEF ResumeAnalysis
<1> QED
  BY <1>3, <1>4, OneRow

LEMMA SweepKeepsRows ==
  ASSUME AnswerInv, NEW w \in Machine, Sweep(w)
  PROVE  KeepsRows
<1>1. jobRows' = [i \in Enqueued |-> Swept(jobRows[i])]
  BY DEF Sweep
<1>2. ASSUME NEW i \in Enqueued PROVE KeepsRow(jobRows[i], Swept(jobRows[i]))
  <2>1. jobRows[i] \in JobRow /\ RowIsTrue(jobRows[i])
    BY Rows DEF AnswerInv
  <2>2. 0 \in 0 .. Stale + 1
    BY AnswerAssumption
  <2>3. \/ Swept(jobRows[i]) = jobRows[i]
        \/ jobRows[i].status \in {"claimed", "working"} /\
             Swept(jobRows[i]) \in {[jobRows[i] EXCEPT !.status = "failed"],
                                    [jobRows[i] EXCEPT !.status = "queued", !.beat = 0]}
    BY DEF Swept
  <2> QED
    BY <2>1, <2>2, <2>3 DEF KeepsRow, RowIsTrue, JobRow
<1> QED
  BY <1>1, <1>2 DEF KeepsRows

LEMMA OneMore ==
  ASSUME NEW a \in 0 .. GiveUpAfter
  PROVE  Older(a, GiveUpAfter - 1) \in 1 .. GiveUpAfter
  BY AnswerAssumption DEF Older

LEMMA ClaimKeepsRows ==
  ASSUME AnswerInv, NEW w \in Machine, NEW i \in Enqueued, jobRows[i].status = "queued",
         jobRows' = [jobRows EXCEPT ![i].status = "claimed", ![i].beat = 0,
                                    ![i].attempts = Older(@, GiveUpAfter - 1)]
  PROVE  KeepsRows /\ jobRows'[i].attempts # 0
<1> DEFINE row == [jobRows[i] EXCEPT !.status = "claimed", !.beat = 0,
                                     !.attempts = Older(@, GiveUpAfter - 1)]
<1>1. jobRows[i] \in JobRow /\ RowIsTrue(jobRows[i])
  BY Rows DEF AnswerInv
<1>2. /\ 0 \in 0 .. Stale + 1
      /\ Older(jobRows[i].attempts, GiveUpAfter - 1) \in 0 .. GiveUpAfter
      /\ Older(jobRows[i].attempts, GiveUpAfter - 1) # 0
  <2>1. jobRows[i].attempts \in 0 .. GiveUpAfter
    BY <1>1 DEF JobRow
  <2> QED
    BY <2>1, OneMore, AnswerAssumption
<1>3. row.attempts # 0
  BY <1>1, <1>2 DEF JobRow
<1>4. KeepsRow(jobRows[i], row)
  BY <1>1, <1>2, <1>3 DEF KeepsRow, RowIsTrue, JobRow
<1>5. jobRows' = [jobRows EXCEPT ![i] = row]
  OBVIOUS
<1>6. jobRows'[i] = row
  BY <1>5, Rows DEF Enqueued
<1> QED
  BY <1>3, <1>4, <1>5, <1>6, OneRow

LEMMA ReportKeepsRows ==
  ASSUME AnswerInv, NEW w \in Machine, Report(w)
  PROVE  KeepsRows
<1> DEFINE i == runs[w]
           row == [jobRows[i] EXCEPT !.status = "working", !.beat = 0]
<1>1. i \in Enqueued /\ jobRows[i].attempts # 0
  BY DEF AnswerInv, WorkerIsKnown, Report
<1>2. jobRows[i] \in JobRow /\ RowIsTrue(jobRows[i])
  BY <1>1, Rows DEF AnswerInv
<1>3. 0 \in 0 .. Stale + 1
  BY AnswerAssumption
<1>4. KeepsRow(jobRows[i], row)
  BY <1>1, <1>2, <1>3 DEF KeepsRow, RowIsTrue, JobRow
<1>5. jobRows' = [jobRows EXCEPT ![i] = row]
  BY DEF Report
<1> QED
  BY <1>1, <1>4, <1>5, OneRow

\* Whatever a job ends with, a result is its own.
LEMMA EndKeepsRows ==
  ASSUME AnswerInv, NEW w \in Machine, EndJob(w)
  PROVE  KeepsRows
<1> DEFINE i == runs[w]
<1>1. i \in Enqueued /\ jobRows[i].attempts # 0
  BY DEF AnswerInv, WorkerIsKnown, EndJob, EndJobThen
<1>2. jobRows[i] \in JobRow /\ RowIsTrue(jobRows[i])
  BY <1>1, Rows DEF AnswerInv
<1>3. PICK row \in Outcomes(jobRows[i]) : jobRows' = [jobRows EXCEPT ![i] = row]
  BY DEF EndJob, EndJobThen
<1>4. 0 \in 0 .. Stale + 1
  BY AnswerAssumption
<1>5. ASSUME NEW s \in {"completed", "failed"},
             jobRows[i].kind = "analysis" \/ s = "failed",
             row = [jobRows[i] EXCEPT !.status = s, !.beat = 0]
      PROVE  KeepsRow(jobRows[i], row)
  BY <1>1, <1>2, <1>4, <1>5 DEF KeepsRow, RowIsTrue, JobRow
<1>6. ASSUME NEW s \in {"completed", "failed"}, NEW told \in Result,
             told = [of |-> jobRows[i].player, status |-> s],
             row = [jobRows[i] EXCEPT !.status = s, !.beat = 0, !.result = told]
      PROVE  KeepsRow(jobRows[i], row)
  <2>1. told # Never /\ told.of = jobRows[i].player /\ told.status = s
    BY <1>6, AnswerAssumption
  <2>2. row.result = told /\ row.status = s /\ row.attempts = jobRows[i].attempts
        /\ row.player = jobRows[i].player
    BY <1>2, <1>6 DEF JobRow
  <2>3. row \in JobRow
    BY <1>2, <1>4, <1>6 DEF JobRow
  <2> QED
    BY <1>1, <2>1, <2>2, <2>3 DEF KeepsRow, RowIsTrue
<1>7. \/ \E s \in {"completed", "failed"} :
           /\ jobRows[i].kind = "analysis" \/ s = "failed"
           /\ row = [jobRows[i] EXCEPT !.status = s, !.beat = 0]
      \/ row \in ToldAs(jobRows[i])
  <2>1. jobRows[i].kind \in JobKind
    BY <1>2 DEF JobRow
  <2> QED
    BY <1>3, <2>1 DEF Outcomes, EndedAs, JobKind
<1>8. ASSUME row \in ToldAs(jobRows[i]) PROVE KeepsRow(jobRows[i], row)
  <2>1. PICK s \in {"completed", "failed"} :
          LET r == [jobRows[i] EXCEPT !.status = s, !.beat = 0]
          IN  row = [r EXCEPT !.result = [of |-> jobRows[i].player, status |-> r.status]]
    BY <1>8 DEF ToldAs, EndedAs
  <2>2. [of |-> jobRows[i].player, status |-> s] \in Result
    BY <1>2 DEF JobRow, Result
  <2>3. row = [jobRows[i] EXCEPT !.status = s, !.beat = 0,
                                 !.result = [of |-> jobRows[i].player, status |-> s]]
    BY <1>2, <2>1 DEF JobRow
  <2> QED
    BY <1>6, <2>2, <2>3
<1>9. KeepsRow(jobRows[i], row)
  BY <1>5, <1>7, <1>8
<1> QED
  BY <1>1, <1>3, <1>9, OneRow

LEMMA TickKeepsRows ==
  ASSUME AnswerInv, Tick
  PROVE  KeepsRows
<1> DEFINE New(i) == IF jobRows[i].status \in {"claimed", "working"}
                     THEN [jobRows[i] EXCEPT !.beat = Older(@, Stale)] ELSE jobRows[i]
<1>1. jobRows' = [i \in Enqueued |-> New(i)]
  BY DEF Tick
<1>2. ASSUME NEW i \in Enqueued PROVE KeepsRow(jobRows[i], New(i))
  <2>1. jobRows[i] \in JobRow /\ RowIsTrue(jobRows[i])
    BY Rows DEF AnswerInv
  <2>2. jobRows[i].beat \in 0 .. Stale + 1
    BY <2>1 DEF JobRow
  <2>3. Older(jobRows[i].beat, Stale) \in 0 .. Stale + 1
    BY <2>2, AnswerAssumption DEF Older
  <2> QED
    BY <2>1, <2>3 DEF KeepsRow, RowIsTrue, JobRow
<1> QED
  BY <1>1, <1>2 DEF KeepsRows

-----------------------------------------------------------------------------
LEMMA EnqueueKeeps ==
  ASSUME AnswerInv, NEW kind \in JobKind, NEW p \in Player, Enqueue(kind, p)
  PROVE  AnswerInv'
<1> DEFINE row == [kind |-> kind, player |-> p, status |-> "queued",
                   result |-> Never, attempts |-> 0, beat |-> 0]
           n == Len(jobRows)
<1>1. jobRows \in Seq(JobRow) /\ n \in Nat /\ n < MaxAsked /\ Enqueued = 1 .. n
  BY Rows, AnswerAssumption DEF AnswerInv, AnswerTypeOK, Enqueue
<1>2. row \in JobRow /\ RowIsTrue(row)
  BY AnswerAssumption DEF JobRow, RowIsTrue
<1>3. jobRows' = Append(jobRows, row)
  BY DEF Enqueue
<1> HIDE DEF row
<1>4. /\ jobRows' \in Seq(JobRow) /\ Len(jobRows') = n + 1
      /\ \A i \in 1 .. n : jobRows'[i] = jobRows[i]
      /\ jobRows'[n + 1] = row
  BY <1>1, <1>2, <1>3, AppendProperties
<1>5. Enqueued' = 1 .. (n + 1)
  BY <1>4, LenProperties DEF Enqueued
<1> HIDE DEF n
<1>6. Len(jobRows') <= MaxAsked
  BY <1>1, <1>4, AnswerAssumption
<1>7. \A i \in Enqueued' : i \in Enqueued \/ i = n + 1
  BY <1>1, <1>5
<1>8. Enqueued \subseteq Enqueued'
  BY <1>1, <1>5
<1>9. UNCHANGED <<seen, does, runs, spent, deaths>>
  BY DEF Enqueue
<1>10. AnswerTypeOK'
  <2>1. runs' \in [Machine -> {0} \cup Enqueued']
    BY <1>8, <1>9 DEF AnswerInv, AnswerTypeOK
  <2> QED
    BY <1>4, <1>6, <1>9, <2>1 DEF AnswerInv, AnswerTypeOK
<1>11. \A i \in Enqueued' : RowIsTrue(jobRows[i])'
  BY <1>1, <1>2, <1>4, <1>7 DEF AnswerInv, RowIsTrue
<1>12. \A w \in Machine : WorkerIsKnown(w)'
  BY <1>1, <1>4, <1>8, <1>9 DEF AnswerInv, WorkerIsKnown, Busy
<1> QED
  BY <1>10, <1>11, <1>12 DEF AnswerInv

\* How a worker's place, age and time at its job may change.
Goes(v) ==
  \/ /\ does'[v] = does[v] /\ runs'[v] = runs[v]
     /\ \/ seen'[v] = seen[v] /\ spent'[v] = spent[v]
        \/ /\ does[v] = "busy" /\ seen'[v] = Older(seen[v], AliveWithin)
           /\ spent'[v] = Older(spent[v], AliveWithin)
        \/ does[v] \in {"down", "top"}
  \/ does'[v] \in {"down", "top"}
  \/ does'[v] = "ready" /\ seen'[v] = 0
  \/ /\ does[v] = "ready" /\ does'[v] = "busy" /\ seen'[v] = seen[v] /\ spent'[v] = 0
     /\ runs'[v] \in Enqueued /\ jobRows'[runs'[v]].attempts # 0

WorkTypes ==
  /\ seen \in [Machine -> 0 .. AliveWithin + 1 \cup {Never}]
  /\ does \in [Machine -> {"down", "top", "ready", "busy"}]
  /\ runs \in [Machine -> {0} \cup Enqueued]
  /\ spent \in [Machine -> 0 .. AliveWithin + 1]
  /\ deaths \in 0 .. MaxDeaths

LEMMA WorkKeeps ==
  ASSUME AnswerInv, KeepsRows, WorkTypes', \A v \in Machine : Goes(v)
  PROVE  AnswerInv'
<1>1. AnswerTypeOK'
  BY KeptRows DEF AnswerTypeOK, WorkTypes
<1>2. ASSUME NEW v \in Machine PROVE WorkerIsKnown(v)'
  <2>1. Enqueued' = Enqueued
    BY KeptRows
  <2>2. WorkerIsKnown(v) /\ runs[v] \in {0} \cup Enqueued
    BY DEF AnswerInv, AnswerTypeOK
  <2>3. runs[v] \in Enqueued /\ jobRows[runs[v]].attempts # 0 =>
          jobRows'[runs[v]].attempts # 0
    BY DEF KeepsRows, KeepsRow
  <2>4. Goes(v)
    OBVIOUS
  <2> QED
    BY <2>1, <2>2, <2>3, <2>4 DEF Goes, WorkerIsKnown, Busy
<1> QED
  BY <1>1, <1>2, KeptRows DEF AnswerInv

-----------------------------------------------------------------------------
LEMMA SameRows ==
  ASSUME AnswerInv, UNCHANGED jobRows
  PROVE  KeepsRows
<1>1. jobRows \in Seq(JobRow)
  BY DEF AnswerInv, AnswerTypeOK
<1>2. jobRows = [i \in Enqueued |-> jobRows[i]]
  BY <1>1, Rows, LenProperties
<1> QED
  BY <1>2, Rows DEF KeepsRows

LEMMA RowsOnly ==
  ASSUME AnswerInv, KeepsRows, UNCHANGED <<seen, does, runs, spent, deaths>>
  PROVE  AnswerInv'
<1>1. WorkTypes'
  BY KeptRows DEF AnswerInv, AnswerTypeOK, WorkTypes
<1>2. \A v \in Machine : Goes(v)
  BY DEF Goes
<1> QED
  BY <1>1, <1>2, WorkKeeps

\* A worker turns to something that is not a job.
LEMMA TurnKeeps ==
  ASSUME AnswerInv, KeepsRows, NEW w \in Machine, NEW next \in {"down", "top", "ready"},
         TurnTo(w, next), deaths' \in 0 .. MaxDeaths,
         seen' = seen \/ seen' = [seen EXCEPT ![w] = 0],
         spent' = spent \/ spent' = [spent EXCEPT ![w] = 0],
         next = "ready" => seen'[w] = 0
  PROVE  AnswerInv'
<1>1. 0 \in 0 .. AliveWithin + 1
  BY AnswerAssumption
<1>2. WorkTypes'
  BY <1>1, KeptRows DEF AnswerInv, AnswerTypeOK, WorkTypes, TurnTo
<1>3. ASSUME NEW v \in Machine PROVE Goes(v)
  <2>1. CASE v = w
    BY <2>1 DEF AnswerInv, AnswerTypeOK, TurnTo, Goes
  <2>2. CASE v # w
    BY <2>2 DEF AnswerInv, AnswerTypeOK, TurnTo, Goes
  <2> QED
    BY <2>1, <2>2
<1> QED
  BY <1>2, <1>3, WorkKeeps

LEMMA ClaimKeeps ==
  ASSUME AnswerInv, NEW w \in Machine, ClaimNext(w)
  PROVE  AnswerInv'
<1> DEFINE waiting == {i \in Enqueued : jobRows[i].status = "queued"}
<1>1. CASE TurnTo(w, "top") /\ UNCHANGED jobRows
  BY <1>1, SameRows, TurnKeeps DEF ClaimNext, AnswerInv, AnswerTypeOK
<1>2. ASSUME NEW i \in waiting,
             jobRows' = [jobRows EXCEPT ![i].status = "claimed", ![i].beat = 0,
                                        ![i].attempts = Older(@, GiveUpAfter - 1)],
             does' = [does EXCEPT ![w] = "busy"], runs' = [runs EXCEPT ![w] = i]
      PROVE  AnswerInv'
  <2>1. KeepsRows /\ jobRows'[i].attempts # 0
    BY <1>2, ClaimKeepsRows
  <2>2. 0 \in 0 .. AliveWithin + 1
    BY AnswerAssumption
  <2>3. does[w] = "ready" /\ spent' = [spent EXCEPT ![w] = 0] /\ UNCHANGED <<seen, deaths>>
    BY DEF ClaimNext
  <2>4. WorkTypes'
    BY <1>2, <2>1, <2>2, <2>3, KeptRows DEF AnswerInv, AnswerTypeOK, WorkTypes
  <2>5. ASSUME NEW v \in Machine PROVE Goes(v)
    <3>1. CASE v = w
      BY <1>2, <2>1, <2>3, <3>1 DEF AnswerInv, AnswerTypeOK, Goes
    <3>2. CASE v # w
      BY <1>2, <2>3, <3>2 DEF AnswerInv, AnswerTypeOK, Goes
    <3> QED
      BY <3>1, <3>2
  <2> QED
    BY <2>1, <2>4, <2>5, WorkKeeps
<1> QED
  BY <1>1, <1>2 DEF ClaimNext

LEMMA TickKeeps ==
  ASSUME AnswerInv, Tick
  PROVE  AnswerInv'
<1>1. ASSUME NEW v \in Machine
      PROVE  /\ Older(seen[v], AliveWithin) \in 0 .. AliveWithin + 1 \cup {Never}
             /\ Older(spent[v], AliveWithin) \in 0 .. AliveWithin + 1
  <2>1. /\ seen[v] \in 0 .. AliveWithin + 1 \cup {Never}
        /\ spent[v] \in 0 .. AliveWithin + 1
    BY DEF AnswerInv, AnswerTypeOK
  <2> QED
    BY <2>1, AnswerAssumption DEF Older
<1>2. 0 \in 0 .. AliveWithin + 1
  BY AnswerAssumption
<1>3. WorkTypes'
  BY <1>1, <1>2, TickKeepsRows, KeptRows
  DEF AnswerInv, AnswerTypeOK, WorkTypes, Tick
<1>4. ASSUME NEW v \in Machine PROVE Goes(v)
  <2>1. does[v] \in {"down", "top", "busy"}
    BY DEF AnswerInv, AnswerTypeOK, Tick
  <2> QED
    BY <2>1 DEF Tick, Goes, Busy
<1> QED
  BY <1>3, <1>4, TickKeepsRows, WorkKeeps

LEMMA AnswerStep ==
  ASSUME AnswerInv, AnswerNext
  PROVE  AnswerInv'
<1>1. CASE \E kind \in JobKind : \E p \in Player : Enqueue(kind, p)
  BY <1>1, EnqueueKeeps
<1>2. CASE \E i \in Enqueued : ResumeAnalysis(i)
  BY <1>2, ResumeKeepsRows, RowsOnly DEF ResumeAnalysis
<1>3. CASE \E w \in Machine : ReportLiveness(w)
  <2>1. PICK w \in Machine : ReportLiveness(w)
    BY <1>3
  <2>2. seen'[w] = 0
    BY <2>1 DEF ReportLiveness, AnswerInv, AnswerTypeOK
  <2> QED
    BY <2>1, <2>2, SameRows, TurnKeeps DEF ReportLiveness, AnswerInv, AnswerTypeOK
<1>4. CASE \E w \in Machine : Sweep(w)
  BY <1>4, SweepKeepsRows, RowsOnly DEF Sweep
<1>5. CASE \E w \in Machine : ClaimNext(w)
  BY <1>5, ClaimKeeps
<1>6. CASE \E w \in Machine : Report(w)
  BY <1>6, ReportKeepsRows, RowsOnly DEF Report
<1>7. CASE \E w \in Machine : EndJob(w)
  BY <1>7, EndKeepsRows, TurnKeeps DEF EndJob, EndJobThen, AnswerInv, AnswerTypeOK
<1>8. CASE \E w \in Machine : StartWorker(w)
  BY <1>8, SameRows, TurnKeeps DEF StartWorker, AnswerInv, AnswerTypeOK
<1>9. CASE \E w \in Machine : WorkerDies(w)
  <2>1. PICK w \in Machine : WorkerDies(w)
    BY <1>9
  <2>2. deaths' \in 0 .. MaxDeaths
    BY <2>1, AnswerAssumption DEF WorkerDies, AnswerInv, AnswerTypeOK
  <2> QED
    BY <2>1, <2>2, SameRows, TurnKeeps DEF WorkerDies
<1>10. CASE Tick
  BY <1>10, TickKeeps
<1> QED
  BY <1>1, <1>2, <1>3, <1>4, <1>5, <1>6, <1>7, <1>8, <1>9, <1>10 DEF AnswerNext

LEMMA AnswerSafety == AnswerInit /\ [][AnswerNext]_answerVars => []AnswerInv
<1>1. AnswerInit => AnswerInv
  <2> SUFFICES ASSUME AnswerInit PROVE AnswerInv
    OBVIOUS
  <2>1. jobRows \in Seq(JobRow) /\ Len(jobRows) = 0 /\ Enqueued = {}
    BY EmptySeq, LenProperties DEF AnswerInit, Enqueued
  <2>2. 0 \in 0 .. AliveWithin + 1 /\ 0 \in 0 .. MaxDeaths /\ 0 <= MaxAsked
    BY AnswerAssumption
  <2>3. AnswerTypeOK
    BY <2>1, <2>2 DEF AnswerInit, AnswerTypeOK
  <2>4. \A w \in Machine : WorkerIsKnown(w)
    BY DEF AnswerInit, WorkerIsKnown, Busy
  <2> QED
    BY <2>1, <2>3, <2>4 DEF AnswerInv
<1>2. AnswerInv /\ [AnswerNext]_answerVars => AnswerInv'
  BY AnswerStep, SameRows, RowsOnly DEF answerVars
<1> QED
  BY <1>1, <1>2, PTL

\* A row is of its job as it is now, and a worker known to be alive or dead
\* as its heartbeats say (worker.py, liveness.py), at any time.
THEOREM AnswerInvariant == AnswerSpec => []AnswerInv
  BY AnswerSafety, PTL DEF AnswerSpec

\* What the status endpoints answer about a report or an identity is the
\* asked player's, not an earlier report's, and once the job is done says so
\* (truth_report_status, reports.py; automatic_identity_status, players.py),
\* whoever ran it before, died at it or was only late.
THEOREM MembersAreToldTheTruth == AnswerSpec => []AnswersAreTrue
<1>1. ASSUME AnswerInv PROVE AnswersAreTrue
  <2>1. ASSUME NEW S \in SUBSET Enqueued, S # {}
        PROVE  Newest(S) \in S /\ RowIsTrue(jobRows[Newest(S)])
    BY <1>1, <2>1, NewestIs DEF AnswerInv, AnswerTypeOK
  <2>2. ASSUME NEW p \in Player, Reports(p) # {}
        PROVE  /\ ReportAnswer(p).of = p
               /\ jobRows[Newest(Reports(p))].attempts = 0 => ReportAnswer(p).status = "queued"
               /\ jobRows[Newest(Reports(p))].status = "completed" =>
                    ReportAnswer(p).status = "completed"
    <3> DEFINE row == jobRows[Newest(Reports(p))]
    <3>1. row.kind = "truth_report" /\ row.player = p /\ RowIsTrue(row)
      BY <2>1, <2>2 DEF Reports
    <3> QED
      BY <3>1 DEF ReportAnswer, RowIsTrue
  <2>3. Identities # {} =>
          (jobRows[Newest(Identities)].status = "completed" => IdentityAnswer.status = "completed")
    <3> SUFFICES ASSUME Identities # {}, jobRows[Newest(Identities)].status = "completed"
                 PROVE  IdentityAnswer.status = "completed"
      OBVIOUS
    <3> DEFINE row == jobRows[Newest(Identities)]
    <3>1. row.kind = "identity" /\ RowIsTrue(row)
      BY <2>1 DEF Identities
    <3> QED
      BY <3>1 DEF IdentityAnswer, RowIsTrue
  <2> QED
    BY <2>2, <2>3 DEF AnswersAreTrue, AnswersAreTheirOwn, CompletionIsTold
<1> QED
  BY <1>1, AnswerInvariant, PTL

\* "No worker is currently running" (analysis_status, analysis.py) is said
\* only when every worker is down, about to report, or has been at one job
\* for longer than WORKER_ALIVE_WITHIN (any_worker_alive, store.py).
THEOREM UnavailableIsSo == AnswerSpec => []UnavailableMeansBusyOrGone
<1>1. ASSUME AnswerInv PROVE UnavailableMeansBusyOrGone
  <2> SUFFICES ASSUME ToldUnavailable, NEW w \in Machine,
                      does[w] \notin {"down", "top"}, ~(spent[w] > AliveWithin)
               PROVE  FALSE
    BY DEF UnavailableMeansBusyOrGone
  <2>1. does[w] \in {"ready", "busy"} /\ spent[w] \in 0 .. AliveWithin + 1
    BY <1>1 DEF AnswerInv, AnswerTypeOK
  <2>2. seen[w] = 0 \/ seen[w] = spent[w]
    BY <1>1, <2>1 DEF AnswerInv, WorkerIsKnown, Busy
  <2>3. seen[w] \in 0 .. AliveWithin
    BY <2>1, <2>2, AnswerAssumption
  <2> QED
    BY <2>3 DEF ToldUnavailable, AnyWorkerAlive, AliveUpTo
<1> QED
  BY <1>1, AnswerInvariant, PTL
=============================================================================
