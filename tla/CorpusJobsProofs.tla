--------------------------- MODULE CorpusJobsProofs ---------------------------
(***************************************************************************)
(* Proofs about CorpusJobs for any size of selection and number of jobs.   *)
(* CorpusInv is the inductive invariant: the lock and the record at each   *)
(* point of the worker (Exclusive, Placed), what the loop has gone through *)
(* (Counted), who set the event (Evented), and what the history file says  *)
(* of the same job (Remembered), which is what a restart goes by.          *)
(***************************************************************************)
EXTENDS CorpusJobs, TLAPS

\* A request and a worker are never inside the writer lock together.
Exclusive ==
  /\ WriterHandedOver
  /\ corpusReq # "idle" => corpusPc \notin Working

\* A record is finished exactly when there is no worker before the end of its
\* finally block, and active until the loop or a handler settles it.
Placed ==
  /\ corpusJob.done <=> corpusPc \in {"none", "release", "exit", "dead"}
  /\ corpusPc \in {"unstarted", "build", "doc", "report", "settle", "fail"}
       <=> corpusJob.state \in Active

\* The loop stays within the selection and is left early only with the event set.
Counted ==
  /\ corpusDocs.seen <= corpusJob.selected
  /\ corpusDocs.failed <= corpusDocs.seen
  /\ corpusPc = "doc" => corpusDocs.seen < corpusJob.selected
  /\ corpusPc \in {"report", "settle"} /\ ~corpusCancel =>
       corpusDocs.seen = corpusJob.selected

\* What a settled record may claim.
Claims(job) ==
  /\ job.state \in {"completed", "partial"} /\ job.id # 0
       => job.report = job.selected
  /\ job.state = "completed" => job.failed = 0
  /\ job.state = "partial" => job.failed > 0

\* A record whose cancellation was accepted.
Stopped(job) ==
  job.id \in corpusAsked => job.state \in Active \union {"cancelled", "failed"}

\* While a job is unsettled the event is set exactly for its own cancellation or
\* for the shutdown; ids are never used again.
Evented ==
  /\ \A id \in corpusAsked : id <= corpusIssued
  /\ corpusJob.id <= corpusIssued /\ history.id <= corpusIssued
  /\ corpusJob.state \in Active =>
       /\ corpusJob.id \in corpusAsked => corpusCancel
       /\ corpusCancel => corpusJob.id \in corpusAsked \/ corpusClosed
  /\ corpusJob.state = "cancelled" =>
       corpusJob.id \in corpusAsked \/ corpusClosed \/ corpusPc = "none"

\* The history file: written active when the thread is started and settled at
\* its end; if that last write failed, the record in memory says "failed".
Remembered ==
  /\ history.done <=> history.state \notin Active
  /\ Claims(history) /\ Stopped(history)
  /\ history.id = corpusJob.id =>
       IF corpusJob.done THEN Recovered(history).state = corpusJob.state
       ELSE history.state \in Active

CorpusInv ==
  /\ Exclusive
  /\ Placed
  /\ Counted
  /\ Claims(corpusJob) /\ Stopped(corpusJob)
  /\ Evented
  /\ Remembered

-----------------------------------------------------------------------------

\* What a restart reads back is a well-typed record.
LEMMA RecoveredType ==
  ASSUME NEW h \in CorpusJob
  PROVE  Recovered(h) \in CorpusJob
BY DEF Recovered, CorpusJob, CorpusState

\* A restart only ever turns an interrupted job into a failed one.
LEMMA RecoveredRecord ==
  ASSUME NEW h \in CorpusJob
  PROVE  /\ Recovered(h).id = h.id
         /\ Recovered(h).selected = h.selected
         /\ Recovered(h).report = h.report
         /\ Recovered(h).failed = h.failed
         /\ Recovered(h).done = (h.done \/ h.state \in Active)
         /\ Recovered(h).state = IF h.state \in Active THEN "failed" ELSE h.state
BY DEF Recovered, CorpusJob

\* The record of an accepted start.
LEMMA NewJobType ==
  ASSUME CorpusTypeOK, corpusIssued < MaxBuilds, NEW index \in BOOLEAN,
         NEW n \in 1..MaxDocs
  PROVE  NewJob(index, n) \in CorpusJob
<1> USE MaxDocsAssumption, MaxBuildsAssumption
<1>1. corpusIssued + 1 \in 0..MaxBuilds
  BY DEF CorpusTypeOK
<1>2. NoReport \in 0..NoReport /\ n \in 0..MaxDocs /\ 0 \in 0..MaxDocs
  BY DEF NoReport
<1>3. "running" \in CorpusState
  BY DEF CorpusState
<1> QED
  BY <1>1, <1>2, <1>3 DEF NewJob, CorpusJob

\* A step keeps every value in its range and the loop within the selection.
LEMMA CorpusTypeStep ==
  CorpusTypeOK /\ Counted /\ [Next]_vars => CorpusTypeOK'
<1> USE MaxDocsAssumption, MaxBuildsAssumption
<1> SUFFICES ASSUME CorpusTypeOK, Counted, [Next]_vars
             PROVE  CorpusTypeOK'
  OBVIOUS
<1> USE DEF CorpusTypeOK, Writer, CorpusPc, Working
<1>1. ASSUME NEW kind \in {"preview", "start"}, Request(kind)
      PROVE  CorpusTypeOK'
  BY <1>1 DEF Request
<1>2. CASE RequestEnds
  BY <1>2 DEF RequestEnds
<1>3. ASSUME NEW index \in BOOLEAN, NEW n \in 1..MaxDocs, CreateJob(index, n),
             StartWorker(index, n) \/ StartFails(index, n)
      PROVE  CorpusTypeOK'
  <2>1. corpusJob' \in CorpusJob /\ history' \in CorpusJob
    BY <1>3, NewJobType DEF CreateJob, StartWorker, StartFails
  <2>2. corpusIssued' \in 0..MaxBuilds /\ corpusDocs' = [seen |-> 0, failed |-> 0]
    BY <1>3 DEF CreateJob
  <2>3. corpusDocs' \in [seen : 0..MaxDocs, failed : 0..MaxDocs]
    BY <2>2
  <2> QED
    BY <1>3, <2>1, <2>2, <2>3 DEF CreateJob, StartWorker, StartFails, CancelAtStart
<1>4. ASSUME NEW id \in 1..MaxBuilds, CancelBuild(id)
      PROVE  CorpusTypeOK'
  BY <1>4 DEF CancelBuild, CorpusJob, CorpusState
<1>5. CASE CloseCorpus
  BY <1>5 DEF CloseCorpus
<1>6. CASE CheckDocument
  BY <1>6 DEF CheckDocument, Keep
<1>7. CASE BuildDocument
  <2>1. PICK failures \in {0, 1} :
          corpusDocs' = [seen |-> corpusDocs.seen + 1,
                         failed |-> corpusDocs.failed + failures]
    BY <1>7 DEF BuildDocument
  <2>2. /\ corpusDocs.seen \in 0..MaxDocs /\ corpusDocs.failed \in 0..MaxDocs
        /\ corpusJob.selected \in 0..MaxDocs
        /\ corpusDocs.seen < corpusJob.selected
        /\ corpusDocs.failed <= corpusDocs.seen
    BY <1>7 DEF BuildDocument, Counted, CorpusJob
  <2>3. corpusDocs.seen + 1 \in 0..MaxDocs /\ corpusDocs.failed + failures \in 0..MaxDocs
    BY <2>2
  <2>4. corpusDocs' \in [seen : 0..MaxDocs, failed : 0..MaxDocs]
    BY <2>1, <2>3
  <2> QED
    BY <1>7, <2>4 DEF BuildDocument, Keep
<1>8. CASE BuildFails
  BY <1>8 DEF BuildFails, Keep
<1>9. CASE SaveReport
  BY <1>9 DEF SaveReport, Keep
<1>10. CASE SettleBuild
  <2>1. /\ corpusDocs.seen \in 0..MaxDocs /\ corpusDocs.failed \in 0..MaxDocs
        /\ corpusDocs.seen \in 0..NoReport
    BY DEF NoReport
  <2>2. SettledState \in CorpusState
    BY DEF SettledState, CorpusState
  <2>3. corpusJob' \in CorpusJob
    BY <1>10, <2>1, <2>2 DEF SettleBuild, CorpusJob
  <2> QED
    BY <1>10, <2>3 DEF SettleBuild, Keep, AfterJob
<1>11. CASE FailBuild
  BY <1>11 DEF FailBuild, Keep, AfterJob, CorpusJob, CorpusState
<1>12. CASE RefreshBackend
  BY <1>12 DEF RefreshBackend, Keep
<1>13. CASE RecordEnd
  BY <1>13 DEF RecordEnd, Keep, Finished, CorpusJob, CorpusState
<1>14. CASE ReleaseWriter
  BY <1>14 DEF ReleaseWriter
<1>15. CASE ExitCorpus
  BY <1>15 DEF ExitCorpus, Keep
<1>16. CASE OtherWriter
  BY <1>16 DEF OtherWriter, corpusVars
<1>17. CASE Restart
  <2>1. corpusJob' \in CorpusJob
    BY <1>17, RecoveredType DEF Restart, CorpusBoot
  <2>2. corpusDocs' \in [seen : 0..MaxDocs, failed : 0..MaxDocs]
    BY <1>17 DEF Restart, CorpusBoot
  <2> QED
    BY <1>17, <2>1, <2>2 DEF Restart, CorpusBoot
<1>18. CASE UNCHANGED vars
  BY <1>18 DEF vars, corpusVars
<1> QED
  BY <1>1, <1>2, <1>3, <1>4, <1>5, <1>6, <1>7, <1>8, <1>9, <1>10, <1>11,
     <1>12, <1>13, <1>14, <1>15, <1>16, <1>17, <1>18
  DEF Next, CorpusCommands, CorpusWorker, BuildStep, StartWorker, StartFails

\* Every action keeps the invariant.
LEMMA CorpusInvStep ==
  CorpusTypeOK /\ CorpusTypeOK' /\ CorpusInv /\ [Next]_vars => CorpusInv'
<1> USE MaxDocsAssumption, MaxBuildsAssumption
<1> SUFFICES ASSUME CorpusTypeOK, CorpusTypeOK', CorpusInv, [Next]_vars
             PROVE  CorpusInv'
  OBVIOUS
<1> USE DEF CorpusInv, Exclusive, WriterHandedOver, Placed, Counted, Claims,
            Stopped, Evented, Remembered, CorpusTypeOK, CorpusPc, Working,
            Writer, Active, CorpusJob
<1>1. ASSUME NEW kind \in {"preview", "start"}, Request(kind)
      PROVE  CorpusInv'
  BY <1>1 DEF Request
<1>2. CASE RequestEnds
  BY <1>2 DEF RequestEnds
<1>3. ASSUME NEW index \in BOOLEAN, NEW n \in 1..MaxDocs, StartWorker(index, n)
      PROVE  CorpusInv'
  BY <1>3 DEF StartWorker, CreateJob, NewJob, CancelAtStart
<1>4. ASSUME NEW index \in BOOLEAN, NEW n \in 1..MaxDocs, StartFails(index, n)
      PROVE  CorpusInv'
  BY <1>4 DEF StartFails, CreateJob, NewJob, CancelAtStart
<1>5. ASSUME NEW id \in 1..MaxBuilds, CancelBuild(id)
      PROVE  CorpusInv'
  BY <1>5 DEF CancelBuild, Cancellable
<1>6. CASE CloseCorpus
  BY <1>6 DEF CloseCorpus
<1>7. CASE CheckDocument
  BY <1>7 DEF CheckDocument, Keep, DocumentsLeft
<1>8. CASE BuildDocument
  BY <1>8 DEF BuildDocument, Keep
<1>9. CASE BuildFails
  BY <1>9 DEF BuildFails, Keep
<1>10. CASE SaveReport
  BY <1>10 DEF SaveReport, Keep
<1>11. CASE SettleBuild
  BY <1>11 DEF SettleBuild, Keep, SettledState, AfterJob
<1>12. CASE FailBuild
  BY <1>12 DEF FailBuild, Keep, AfterJob
<1>13. CASE RefreshBackend
  BY <1>13 DEF RefreshBackend, Keep
<1>14. CASE RecordEnd
  <2> USE <1>14 DEF RecordEnd, Keep, Finished, JobLockFree
  <2>1. /\ corpusPc = "record" /\ corpusPc' = "release" /\ corpusReq = "idle"
        /\ UNCHANGED << writer, corpusReq, corpusClosed, corpusIssued,
                        corpusAsked, corpusCancel, corpusDocs >>
    OBVIOUS
  <2>2. CASE corpusJob' = Finished /\ history' = Finished
    <3>1. /\ corpusJob'.id = corpusJob.id /\ corpusJob'.state = corpusJob.state
          /\ corpusJob'.done /\ corpusJob'.selected = corpusJob.selected
          /\ corpusJob'.report = corpusJob.report
          /\ corpusJob'.failed = corpusJob.failed /\ history' = corpusJob'
      BY <2>2
    <3> HIDE <1>14
    <3> QED
      BY <2>1, <3>1, RecoveredRecord
  <2>3. CASE /\ corpusJob' = [Finished EXCEPT !.state = "failed"]
             /\ UNCHANGED history
    <3>1. /\ corpusJob'.id = corpusJob.id /\ corpusJob'.state = "failed"
          /\ corpusJob'.done /\ corpusJob'.selected = corpusJob.selected
          /\ corpusJob'.report = corpusJob.report
          /\ corpusJob'.failed = corpusJob.failed /\ history' = history
      BY <2>3
    <3> HIDE <1>14
    <3> QED
      BY <2>1, <3>1, RecoveredRecord
  <2> QED
    BY <2>2, <2>3
<1>15. CASE ReleaseWriter
  BY <1>15 DEF ReleaseWriter
<1>16. CASE ExitCorpus
  BY <1>16 DEF ExitCorpus, Keep
<1>17. CASE OtherWriter
  BY <1>17 DEF OtherWriter, corpusVars
<1>18. CASE Restart
  BY <1>18, RecoveredRecord DEF Restart, CorpusBoot
<1>19. CASE UNCHANGED vars
  BY <1>19 DEF vars, corpusVars
<1> QED
  BY <1>1, <1>2, <1>3, <1>4, <1>5, <1>6, <1>7, <1>8, <1>9, <1>10, <1>11,
     <1>12, <1>13, <1>14, <1>15, <1>16, <1>17, <1>18, <1>19
  DEF Next, CorpusCommands, CorpusWorker, BuildStep

\* The invariant holds of every reachable state.
LEMMA CorpusInvariant == Spec => [](CorpusTypeOK /\ CorpusInv)
<1> USE MaxDocsAssumption, MaxBuildsAssumption
<1>1. Init => CorpusTypeOK
  <2> SUFFICES ASSUME Init PROVE CorpusTypeOK
    OBVIOUS
  <2>1. NoBuild \in CorpusJob
    BY DEF NoBuild, CorpusJob, CorpusState, NoReport
  <2>2. 0 \in 0..MaxBuilds /\ {} \subseteq 1..MaxBuilds
    OBVIOUS
  <2>3. corpusDocs \in [seen : 0..MaxDocs, failed : 0..MaxDocs]
    BY DEF Init, CorpusInit
  <2> QED
    BY <2>1, <2>2, <2>3
    DEF Init, CorpusInit, CorpusTypeOK, Writer, CorpusPc
<1>2. Init => CorpusInv
  BY DEF Init, CorpusInit, NoBuild, CorpusInv, Exclusive, WriterHandedOver,
         Placed, Counted, Claims, Stopped, Evented, Remembered, Working, Active,
         Recovered
<1>3. CorpusInv => Counted
  BY DEF CorpusInv
<1> QED
  BY <1>1, <1>2, <1>3, CorpusTypeStep, CorpusInvStep, PTL DEF Spec

-----------------------------------------------------------------------------

\* Type correctness, through any sequence of requests, failures and restarts.
THEOREM CorpusTypeCorrect == Spec => []CorpusTypeOK
BY CorpusInvariant, PTL

\* The writer lock passes from the request to the worker it started and back:
\* no failure on the way leaks it, and nothing is written without it.
THEOREM WriterIsHandedOver == Spec => []WriterHandedOver
BY CorpusInvariant, PTL DEF CorpusInv, Exclusive

\* A finished build claims no more than its loop did.
THEOREM FinishedBuildsAreHonest == Spec => []FinishedBuildIsHonest
<1>1. CorpusTypeOK /\ CorpusInv => FinishedBuildIsHonest
  BY DEF CorpusInv, Placed, Claims, FinishedBuildIsHonest
<1> QED
  BY <1>1, CorpusInvariant, PTL

\* An accepted cancellation never ends in success, not even after a crash.
THEOREM BuildCancellationsAreHonoured == Spec => []CancelIsHonoured
<1>1. CorpusTypeOK /\ CorpusInv => CancelIsHonoured
  BY DEF CorpusInv, Placed, Stopped, CancelIsHonoured
<1> QED
  BY <1>1, CorpusInvariant, PTL

\* A cancellation never reaches a later job through the shared event.
THEOREM BuildCancellationsDoNotLeak == Spec => []NoStaleCancel
<1>1. CorpusInv => NoStaleCancel
  BY DEF CorpusInv, Evented, NoStaleCancel
<1> QED
  BY <1>1, CorpusInvariant, PTL

\* The outcome of a finished job survives later commands, the shutdown and any
\* number of crashes and restarts.
THEOREM OutcomesAreFinal == Spec => OutcomeIsFinal
<1> DEFINE Final ==
      corpusJob.done /\ corpusJob'.id = corpusJob.id
        => corpusJob'.done /\ corpusJob'.state = corpusJob.state
<1>1. CorpusTypeOK /\ CorpusInv /\ [Next]_vars => Final
  <2> SUFFICES ASSUME CorpusTypeOK, CorpusInv, [Next]_vars, corpusJob.done,
                      corpusJob'.id = corpusJob.id
               PROVE  corpusJob'.done /\ corpusJob'.state = corpusJob.state
    OBVIOUS
  <2>1. /\ corpusPc \in {"none", "release", "exit", "dead"}
        /\ corpusJob.state \notin Active
        /\ corpusJob.id <= corpusIssued
    BY DEF CorpusInv, Placed, Evented
  <2>2. ASSUME NEW index \in BOOLEAN, NEW n \in 1..MaxDocs, CreateJob(index, n)
        PROVE  FALSE
    BY <2>1, <2>2 DEF CreateJob, NewJob, CorpusTypeOK, CorpusJob
  <2>3. ASSUME NEW id \in 1..MaxBuilds, CancelBuild(id)
        PROVE  FALSE
    BY <2>1, <2>3 DEF CancelBuild, Cancellable
  <2>4. CASE Restart
    BY <2>4, RecoveredRecord
    DEF Restart, CorpusBoot, CorpusInv, Remembered, CorpusTypeOK
  <2>5. ASSUME \/ \E kind \in {"preview", "start"} : Request(kind)
               \/ RequestEnds \/ CloseCorpus \/ OtherWriter \/ UNCHANGED vars
        PROVE  corpusJob' = corpusJob
    BY <2>5 DEF Request, RequestEnds, CloseCorpus, OtherWriter, vars, corpusVars
  <2>6. CASE CorpusWorker
    BY <2>1, <2>6
    DEF CorpusWorker, BuildStep, CheckDocument, BuildDocument, BuildFails,
        SaveReport, SettleBuild, FailBuild, RefreshBackend, RecordEnd,
        ReleaseWriter, ExitCorpus, Keep
  <2> QED
    BY <2>2, <2>3, <2>4, <2>5, <2>6
    DEF Next, CorpusCommands, StartWorker, StartFails
<1>2. Final => [corpusJob.done /\ corpusJob'.id = corpusJob.id
                 => corpusJob'.done /\ corpusJob'.state = corpusJob.state]_vars
  OBVIOUS
<1> QED
  BY <1>1, <1>2, CorpusInvariant, PTL DEF Spec, OutcomeIsFinal

=============================================================================
