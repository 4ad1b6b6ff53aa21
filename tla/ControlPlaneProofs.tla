-------------------------- MODULE ControlPlaneProofs --------------------------
(***************************************************************************)
(* Proofs about the API process that administers the service.              *)
(*                                                                         *)
(* AdminPlane, for any catalog, bounds and cached adapters: the two        *)
(* managers meet only in the writer lock (Locked).  Knowing who holds it,  *)
(* every step of the process is a step of CorpusJobs, and every step but a *)
(* restart one of CrawlJobs: what was proved of each manager with an       *)
(* arbitrary other user of the lock holds of the whole process.            *)
(*                                                                         *)
(* RuntimeControl, for any services, settings, tabs and number of          *)
(* revisions: the inductive invariant has two halves that only meet in     *)
(* state: Supervised, about the services, and Persisted, about the         *)
(* settings on disk, in memory and in a process that is starting.          *)
(***************************************************************************)
EXTENDS AdminPlane, RuntimeControl, FiniteSetTheorems, SequenceTheorems, TLAPS

CrawlThms == INSTANCE CrawlJobsProofs
CorpusThms == INSTANCE CorpusJobsProofs

\* Who holds the writer lock, and that its hand-over leaves no second user.
Locked ==
  /\ Crawl!WriterHeldByWorker
  /\ Corpus!WriterHandedOver
  /\ corpusReq # "idle" => corpusPc \notin Corpus!Working

-----------------------------------------------------------------------------
(* The writer lock *)

\* Every step of either manager keeps the account of the lock.
LEMMA LockedStep == Locked /\ [Next]_vars => Locked'
<1> SUFFICES ASSUME Locked, [Next]_vars PROVE Locked'
  OBVIOUS
<1> USE DEF Locked, Crawl!WriterHeldByWorker, Crawl!Working,
            Corpus!WriterHandedOver, Corpus!Working
<1>1. CASE CrawlCommand
  <2>1. ASSUME NEW S \in SUBSET Source, Crawl!Start(S), UNCHANGED corpusVars
        PROVE  Locked'
    BY <2>1 DEF Crawl!Start, Crawl!CanStart, corpusVars
  <2>2. ASSUME NEW id \in 1..MaxCrawls, Crawl!Cancel(id), UNCHANGED corpusVars
        PROVE  Locked'
    BY <2>2 DEF Crawl!Cancel, corpusVars
  <2> QED
    BY <1>1, <2>1, <2>2 DEF CrawlCommand, Crawl!CrawlCommands
<1>2. CASE CorpusCommand
  <2>1. ASSUME NEW kind \in {"preview", "start"}, Corpus!Request(kind),
               UNCHANGED crawlVars
        PROVE  Locked'
    BY <2>1 DEF Corpus!Request, crawlVars
  <2>2. ASSUME Corpus!RequestEnds, UNCHANGED crawlVars
        PROVE  Locked'
    BY <2>2 DEF Corpus!RequestEnds, crawlVars
  <2>3. ASSUME NEW index \in BOOLEAN, NEW n \in 1..MaxDocs,
               Corpus!StartWorker(index, n) \/ Corpus!StartFails(index, n),
               UNCHANGED crawlVars
        PROVE  Locked'
    BY <2>3 DEF Corpus!StartWorker, Corpus!StartFails, Corpus!CreateJob, crawlVars
  <2>4. ASSUME NEW id \in 1..MaxBuilds, Corpus!CancelBuild(id),
               UNCHANGED crawlVars
        PROVE  Locked'
    BY <2>4 DEF Corpus!CancelBuild, crawlVars
  <2> QED
    BY <1>2, <2>1, <2>2, <2>3, <2>4 DEF CorpusCommand, Corpus!CorpusCommands
<1>3. CASE CrawlStep
  BY <1>3
  DEF CrawlStep, Crawl!CrawlWorker, Crawl!CheckCancel, Crawl!EnterSection,
      Crawl!VisitCancelled, Crawl!VisitPage, Crawl!NextPage, Crawl!SectionDone,
      Crawl!EndSection, Crawl!FetchCancelled, Crawl!CrawlFails, Crawl!Settle,
      Crawl!Finally, Crawl!Release, Crawl!Exit, corpusVars
<1>4. CASE CorpusStep
  BY <1>4
  DEF CorpusStep, RefreshStep, Corpus!RefreshBackend, Corpus!BuildStep,
      Corpus!CheckDocument, Corpus!BuildDocument, Corpus!BuildFails,
      Corpus!SaveReport, Corpus!SettleBuild, Corpus!FailBuild, Corpus!AfterJob,
      Corpus!RecordEnd, Corpus!JobLockFree, Corpus!ReleaseWriter,
      Corpus!ExitCorpus, Corpus!Keep, crawlVars
<1>5. CASE Query \/ SaveSettings \/ SwitchService \/ WriteIndex \/ Shutdown
           \/ UNCHANGED vars
  BY <1>5
  DEF Query, SaveSettings, SwitchService, WriteIndex, Shutdown, vars, crawlVars,
      corpusVars
<1>6. CASE Lifespan
  BY <1>6
  DEF Lifespan, CloseCorpus, JoinCorpus, CloseCrawl, JoinCrawl, CloseSupervisor,
      ExitAborted, Corpus!CloseCorpus, Crawl!CloseCrawl, crawlVars, corpusVars
<1>7. CASE Restart
  BY <1>7 DEF Restart, Crawl!CrawlBoot, Corpus!CorpusBoot
<1> QED
  BY <1>1, <1>2, <1>3, <1>4, <1>5, <1>6, <1>7 DEF Next

\* The lock is held exactly by the manager whose threads use the directory.
LEMMA LockedInvariant == Spec => []Locked
<1>1. Init => Locked
  BY DEF Init, Crawl!CrawlInit, Corpus!CorpusInit, Locked,
         Crawl!WriterHeldByWorker, Crawl!Working, Corpus!WriterHandedOver,
         Corpus!Working
<1> QED
  BY <1>1, LockedStep, PTL DEF Spec

\* The users of the directory are the holder of the lock.
LEMMA UsersHoldTheLock ==
  Locked => InUse = {writer} \intersect {"crawl", "corpus"}
BY DEF Locked, InUse, Crawl!WriterHeldByWorker, Corpus!WriterHandedOver

\* The lock is never passed from one manager to the other without being free.
LEMMA LockIsFreedBetween ==
  Next => writer' = writer \/ writer = "free" \/ writer' = "free"
<1> SUFFICES ASSUME Next, writer' # writer, writer # "free"
             PROVE  writer' = "free"
  OBVIOUS
<1>1. CASE CrawlCommand
  BY <1>1 DEF CrawlCommand, Crawl!CrawlCommands, Crawl!Start, Crawl!CanStart,
              Crawl!Cancel
<1>2. CASE CorpusCommand
  BY <1>2 DEF CorpusCommand, Corpus!CorpusCommands, Corpus!Request,
              Corpus!RequestEnds, Corpus!StartWorker, Corpus!StartFails,
              Corpus!CancelBuild
<1>3. CASE CrawlStep
  BY <1>3
  DEF CrawlStep, Crawl!CrawlWorker, Crawl!CheckCancel, Crawl!EnterSection,
      Crawl!VisitCancelled, Crawl!VisitPage, Crawl!NextPage, Crawl!SectionDone,
      Crawl!EndSection, Crawl!FetchCancelled, Crawl!CrawlFails, Crawl!Settle,
      Crawl!Finally, Crawl!Release, Crawl!Exit
<1>4. CASE CorpusStep
  BY <1>4
  DEF CorpusStep, RefreshStep, Corpus!RefreshBackend, Corpus!BuildStep,
      Corpus!CheckDocument, Corpus!BuildDocument, Corpus!BuildFails,
      Corpus!SaveReport, Corpus!SettleBuild, Corpus!FailBuild,
      Corpus!RecordEnd, Corpus!ReleaseWriter, Corpus!ExitCorpus, Corpus!Keep
<1>5. CASE Query \/ SaveSettings \/ SwitchService \/ WriteIndex \/ Shutdown
  BY <1>5 DEF Query, SaveSettings, SwitchService, WriteIndex, Shutdown
<1>6. CASE Lifespan
  BY <1>6
  DEF Lifespan, CloseCorpus, JoinCorpus, CloseCrawl, JoinCrawl, CloseSupervisor,
      ExitAborted, Corpus!CloseCorpus, Crawl!CloseCrawl
<1>7. CASE Restart
  BY <1>7 DEF Restart
<1> QED
  BY <1>1, <1>2, <1>3, <1>4, <1>5, <1>6, <1>7 DEF Next

\* The threads of both managers, with their hand-overs, failures, crashes and
\* restarts, use the capture directory one at a time.
THEOREM OneWriterHolds == Spec => OneWriterAtATime
<1>1. Init => Single!Init
  BY DEF Init, Crawl!CrawlInit, Corpus!CorpusInit, InUse, Single!Init,
         Crawl!Working, Corpus!Working
<1>2. Locked /\ Locked' /\ [Next]_vars => [Single!Next]_InUse
  <2> SUFFICES ASSUME Locked, Locked', [Next]_vars, InUse' # InUse
               PROVE  Single!Next
    OBVIOUS
  <2>1. InUse = {writer} \intersect {"crawl", "corpus"}
    BY UsersHoldTheLock
  <2>2. (InUse = {writer} \intersect {"crawl", "corpus"})'
    BY UsersHoldTheLock, PTL
  <2>3. Next
    BY DEF vars, crawlVars, corpusVars, InUse
  <2>4. \/ InUse = {} /\ InUse' = {writer'} /\ writer' \in {"crawl", "corpus"}
        \/ InUse = {writer} /\ InUse' = {} /\ writer \in {"crawl", "corpus"}
    BY <2>1, <2>2, <2>3, LockIsFreedBetween
  <2> QED
    BY <2>4 DEF Single!Next, Single!Enter, Single!Leave
<1> QED
  BY <1>1, <1>2, LockedInvariant, PTL DEF Spec, OneWriterAtATime, Single!Spec

-----------------------------------------------------------------------------
(* Preparation jobs inside the process *)

\* The crawler, its worker and its lifespan are the "other user of the lock" of
\* CorpusJobs, and a restart of the process is a restart there.
LEMMA CorpusStepOfProcess ==
  Locked /\ [Next]_vars => [Corpus!Next]_(Corpus!vars)
<1> SUFFICES ASSUME Locked, [Next]_vars
             PROVE  Corpus!Next \/ UNCHANGED Corpus!vars
  OBVIOUS
<1> USE DEF Corpus!vars, Corpus!corpusVars, corpusVars
<1>1. CASE CrawlCommand
  BY <1>1
  DEF CrawlCommand, Crawl!CrawlCommands, Crawl!Start, Crawl!CanStart,
      Crawl!Cancel, Corpus!Next, Corpus!OtherWriter
<1>2. CASE CorpusCommand
  BY <1>2 DEF CorpusCommand, Corpus!Next
<1>3. CASE CrawlStep
  <2>1. CASE Crawl!Release
    BY <1>3, <2>1
    DEF CrawlStep, Crawl!Release, Locked, Crawl!WriterHeldByWorker,
        Crawl!Working, Corpus!Next, Corpus!OtherWriter
  <2>2. CASE ~Crawl!Release
    BY <1>3, <2>2
    DEF CrawlStep, Crawl!CrawlWorker, Crawl!CheckCancel, Crawl!EnterSection,
        Crawl!VisitCancelled, Crawl!VisitPage, Crawl!NextPage,
        Crawl!SectionDone, Crawl!EndSection, Crawl!FetchCancelled,
        Crawl!CrawlFails, Crawl!Settle, Crawl!Finally, Crawl!Exit
  <2> QED
    BY <2>1, <2>2
<1>4. CASE CorpusStep
  BY <1>4 DEF CorpusStep, RefreshStep, Corpus!Next, Corpus!CorpusWorker
<1>5. CASE Query \/ SaveSettings \/ SwitchService \/ WriteIndex \/ Shutdown
           \/ UNCHANGED vars
  BY <1>5 DEF Query, SaveSettings, SwitchService, WriteIndex, Shutdown, vars
<1>6. CASE CloseCorpus
  BY <1>6 DEF CloseCorpus, Corpus!Next
<1>7. CASE JoinCorpus \/ CloseCrawl \/ JoinCrawl \/ CloseSupervisor
           \/ ExitAborted
  BY <1>7 DEF JoinCorpus, CloseCrawl, JoinCrawl, CloseSupervisor, ExitAborted,
              Crawl!CloseCrawl
<1>8. CASE Restart
  BY <1>8 DEF Restart, Corpus!Next, Corpus!Restart
<1> QED
  BY <1>1, <1>2, <1>3, <1>4, <1>5, <1>6, <1>7, <1>8 DEF Next, Lifespan

\* The whole process implements CorpusJobs.
THEOREM ProcessImplementsCorpusJobs == Spec => Corpus!Spec
<1>1. Init => Corpus!Init
  BY DEF Init, Corpus!Init
<1> QED
  BY <1>1, CorpusStepOfProcess, LockedInvariant, PTL DEF Spec, Corpus!Spec

\* CorpusThms is CorpusJobs with its proofs, under a second name: its requests,
\* its worker and its specification are those of Corpus.
LEMMA SameCorpusCommands == Corpus!CorpusCommands => CorpusThms!CorpusCommands
BY DEF Corpus!CorpusCommands, CorpusThms!CorpusCommands, Corpus!Request,
      CorpusThms!Request, Corpus!RequestEnds, CorpusThms!RequestEnds,
      Corpus!StartWorker, CorpusThms!StartWorker, Corpus!StartFails,
      CorpusThms!StartFails, Corpus!CreateJob, CorpusThms!CreateJob,
      Corpus!NewJob, CorpusThms!NewJob, Corpus!NoReport, CorpusThms!NoReport,
      Corpus!CancelAtStart, CorpusThms!CancelAtStart, Corpus!CancelBuild,
      CorpusThms!CancelBuild, Corpus!Cancellable, CorpusThms!Cancellable,
      Corpus!Active, CorpusThms!Active, Corpus!JobLockFree,
      CorpusThms!JobLockFree

LEMMA SameCorpusWorker == Corpus!CorpusWorker => CorpusThms!CorpusWorker
BY DEF Corpus!CorpusWorker, CorpusThms!CorpusWorker, Corpus!BuildStep,
      CorpusThms!BuildStep, Corpus!CheckDocument, CorpusThms!CheckDocument,
      Corpus!DocumentsLeft, CorpusThms!DocumentsLeft, Corpus!BuildDocument,
      CorpusThms!BuildDocument, Corpus!BuildFails, CorpusThms!BuildFails,
      Corpus!SaveReport, CorpusThms!SaveReport, Corpus!SettleBuild,
      CorpusThms!SettleBuild, Corpus!SettledState, CorpusThms!SettledState,
      Corpus!AfterJob, CorpusThms!AfterJob, Corpus!FailBuild,
      CorpusThms!FailBuild, Corpus!RefreshBackend, CorpusThms!RefreshBackend,
      Corpus!RecordEnd, CorpusThms!RecordEnd, Corpus!JobLockFree,
      CorpusThms!JobLockFree, Corpus!Finished, CorpusThms!Finished,
      Corpus!ReleaseWriter, CorpusThms!ReleaseWriter, Corpus!ExitCorpus,
      CorpusThms!ExitCorpus, Corpus!Keep, CorpusThms!Keep

LEMMA SameCorpusSpec == Corpus!Spec => CorpusThms!Spec
<1>1. Corpus!Init => CorpusThms!Init
  BY DEF Corpus!Init, CorpusThms!Init, Corpus!CorpusInit, CorpusThms!CorpusInit,
        Corpus!NoBuild, CorpusThms!NoBuild
<1>2. Corpus!Next => CorpusThms!Next
  BY SameCorpusCommands, SameCorpusWorker
  DEF Corpus!Next, CorpusThms!Next, Corpus!CloseCorpus,
      CorpusThms!CloseCorpus, Corpus!JobLockFree, CorpusThms!JobLockFree,
      Corpus!OtherWriter, CorpusThms!OtherWriter, Corpus!corpusVars,
      CorpusThms!corpusVars, Corpus!Restart, CorpusThms!Restart,
      Corpus!CorpusBoot, CorpusThms!CorpusBoot, Corpus!Recovered,
      CorpusThms!Recovered, Corpus!Active, CorpusThms!Active
<1>3. [Corpus!Next]_(Corpus!vars) => [CorpusThms!Next]_(CorpusThms!vars)
  BY <1>2
  DEF Corpus!vars, CorpusThms!vars, Corpus!corpusVars, CorpusThms!corpusVars
<1> QED
  BY <1>1, <1>3, PTL DEF Corpus!Spec, CorpusThms!Spec

\* So the process keeps the invariant of CorpusJobs.
LEMMA CorpusInvariantOfProcess ==
  Spec => [](CorpusThms!CorpusTypeOK /\ CorpusThms!CorpusInv)
BY ProcessImplementsCorpusJobs, SameCorpusSpec, CorpusThms!CorpusInvariant,
   CorpusBoundsAssumption, PTL

\* Beside crawls, queries, settings, shutdowns, crashes and restarts, the outcome
\* of a preparation job is what its build did, an accepted cancellation never ends
\* in success, and none reaches another job.
THEOREM ProcessKeepsCorpusPromises ==
  Spec => [](/\ Corpus!FinishedBuildIsHonest
             /\ Corpus!CancelIsHonoured
             /\ Corpus!NoStaleCancel)
<1>1. CorpusThms!CorpusTypeOK /\ CorpusThms!CorpusInv
        => /\ Corpus!FinishedBuildIsHonest
           /\ Corpus!CancelIsHonoured
           /\ Corpus!NoStaleCancel
  BY DEF Corpus!FinishedBuildIsHonest, Corpus!CancelIsHonoured,
         Corpus!NoStaleCancel, Corpus!Active, CorpusThms!CorpusTypeOK,
         CorpusThms!CorpusInv, CorpusThms!Placed, CorpusThms!Claims,
         CorpusThms!Stopped, CorpusThms!Evented, CorpusThms!Active
<1> QED
  BY <1>1, CorpusInvariantOfProcess, PTL

\* And that outcome is final in the whole process, through crashes and restarts.
THEOREM OutcomesOutliveTheProcess == Spec => Corpus!OutcomeIsFinal
<1> DEFINE Final ==
      corpusJob.done /\ corpusJob'.id = corpusJob.id
        => corpusJob'.done /\ corpusJob'.state = corpusJob.state
<1>1. [Final]_(CorpusThms!vars) => [Final]_(Corpus!vars)
  BY DEF Corpus!vars, Corpus!corpusVars, CorpusThms!vars, CorpusThms!corpusVars
<1>2. CorpusThms!OutcomeIsFinal => Corpus!OutcomeIsFinal
  BY <1>1, PTL DEF Corpus!OutcomeIsFinal, CorpusThms!OutcomeIsFinal
<1> QED
  BY <1>2, ProcessImplementsCorpusJobs, SameCorpusSpec,
     CorpusThms!OutcomesAreFinal, CorpusBoundsAssumption, PTL

-----------------------------------------------------------------------------
(* Crawl jobs inside the process *)

\* A step of the process is a step of CrawlJobs or starts a new process.
LEMMA CrawlStepOfProcess ==
  Locked /\ [Next]_vars
    => [Crawl!Next]_(Crawl!vars) \/ (Crawl!CrawlBoot /\ writer' = "free")
<1> SUFFICES ASSUME Locked, [Next]_vars
             PROVE  \/ Crawl!Next \/ UNCHANGED Crawl!vars
                    \/ Crawl!CrawlBoot /\ writer' = "free"
  OBVIOUS
<1> USE DEF Crawl!vars, Crawl!crawlVars, crawlVars
<1>1. CASE CrawlCommand
  BY <1>1 DEF CrawlCommand, Crawl!Next
<1>2. CASE CorpusCommand
  <2>1. CASE Corpus!RequestEnds
    BY <1>2, <2>1
    DEF CorpusCommand, Corpus!RequestEnds, Locked, Corpus!WriterHandedOver,
        Crawl!Next, Crawl!OtherWriter
  <2>2. ASSUME NEW index \in BOOLEAN, NEW n \in 1..MaxDocs,
               Corpus!StartFails(index, n)
        PROVE  Crawl!Next
    BY <1>2, <2>2
    DEF CorpusCommand, Corpus!StartFails, Corpus!CreateJob, Locked,
        Corpus!WriterHandedOver, Crawl!Next, Crawl!OtherWriter
  <2>3. ASSUME \/ \E kind \in {"preview", "start"} : Corpus!Request(kind)
               \/ \E index \in BOOLEAN, n \in 1..MaxDocs :
                    Corpus!StartWorker(index, n)
               \/ \E id \in 1..MaxBuilds : Corpus!CancelBuild(id)
        PROVE  Crawl!Next \/ UNCHANGED Crawl!vars
    BY <1>2, <2>3
    DEF CorpusCommand, Corpus!Request, Corpus!StartWorker, Corpus!CancelBuild,
        Crawl!Next, Crawl!OtherWriter
  <2> QED
    BY <1>2, <2>1, <2>2, <2>3 DEF CorpusCommand, Corpus!CorpusCommands
<1>3. CASE CrawlStep
  BY <1>3 DEF CrawlStep, Crawl!Next
<1>4. CASE CorpusStep
  <2>1. CASE Corpus!ReleaseWriter
    BY <1>4, <2>1
    DEF CorpusStep, Corpus!ReleaseWriter, Locked, Corpus!WriterHandedOver,
        Corpus!Working, Crawl!Next, Crawl!OtherWriter
  <2>2. CASE ~Corpus!ReleaseWriter
    BY <1>4, <2>2
    DEF CorpusStep, RefreshStep, Corpus!RefreshBackend, Corpus!BuildStep,
        Corpus!CheckDocument, Corpus!BuildDocument, Corpus!BuildFails,
        Corpus!SaveReport, Corpus!SettleBuild, Corpus!FailBuild,
        Corpus!RecordEnd, Corpus!ExitCorpus, Corpus!Keep
  <2> QED
    BY <2>1, <2>2
<1>5. CASE Query \/ SaveSettings \/ SwitchService \/ WriteIndex \/ Shutdown
           \/ UNCHANGED vars
  BY <1>5 DEF Query, SaveSettings, SwitchService, WriteIndex, Shutdown, vars
<1>6. CASE CloseCrawl
  BY <1>6 DEF CloseCrawl, Crawl!Next
<1>7. CASE CloseCorpus \/ JoinCorpus \/ JoinCrawl \/ CloseSupervisor
           \/ ExitAborted
  BY <1>7 DEF CloseCorpus, JoinCorpus, JoinCrawl, CloseSupervisor, ExitAborted,
              Corpus!CloseCorpus
<1>8. CASE Restart
  BY <1>8 DEF Restart
<1> QED
  BY <1>1, <1>2, <1>3, <1>4, <1>5, <1>6, <1>7, <1>8 DEF Next, Lifespan

\* CrawlThms is CrawlJobs with its proofs, under a second name.
LEMMA SameCrawlCommands == Crawl!CrawlCommands => CrawlThms!CrawlCommands
BY DEF Crawl!CrawlCommands, CrawlThms!CrawlCommands, Crawl!Start,
      CrawlThms!Start, Crawl!CanStart, CrawlThms!CanStart, Crawl!NoLiveThread,
      CrawlThms!NoLiveThread, Crawl!CancelAtStart, CrawlThms!CancelAtStart,
      Crawl!NewCrawl, CrawlThms!NewCrawl, Crawl!Cancel, CrawlThms!Cancel,
      Crawl!Cancellable, CrawlThms!Cancellable

LEMMA SameCrawlWorker == Crawl!CrawlWorker => CrawlThms!CrawlWorker
BY DEF Crawl!CrawlWorker, CrawlThms!CrawlWorker, Crawl!CheckCancel,
      CrawlThms!CheckCancel, Crawl!InState, CrawlThms!InState,
      Crawl!EnterSection, CrawlThms!EnterSection, Crawl!Mark, CrawlThms!Mark,
      Crawl!VisitCancelled, CrawlThms!VisitCancelled, Crawl!EndSection,
      CrawlThms!EndSection, Crawl!VisitPage, CrawlThms!VisitPage,
      Crawl!NextPage, CrawlThms!NextPage, Crawl!BudgetLeft,
      CrawlThms!BudgetLeft, Crawl!SectionDone, CrawlThms!SectionDone,
      Crawl!FetchCancelled, CrawlThms!FetchCancelled, Crawl!CrawlFails,
      CrawlThms!CrawlFails, Crawl!Settle, CrawlThms!Settle,
      Crawl!SettledState, CrawlThms!SettledState, Crawl!Finally,
      CrawlThms!Finally, Crawl!FinalState, CrawlThms!FinalState,
      Crawl!FinalSection, CrawlThms!FinalSection, Crawl!Release,
      CrawlThms!Release, Crawl!Exit, CrawlThms!Exit

LEMMA SameCrawlStep ==
  [Crawl!Next]_(Crawl!vars) => [CrawlThms!Next]_(CrawlThms!vars)
BY SameCrawlCommands, SameCrawlWorker
  DEF Crawl!Next, CrawlThms!Next, Crawl!CloseCrawl, CrawlThms!CloseCrawl,
      Crawl!OtherWriter, CrawlThms!OtherWriter, Crawl!vars, CrawlThms!vars,
      Crawl!crawlVars, CrawlThms!crawlVars

\* Both the first process and a restarted one begin in its initial state.
LEMMA CrawlBootOfProcess ==
  /\ Init => CrawlThms!Init
  /\ Crawl!CrawlBoot /\ writer' = "free" => CrawlThms!Init'
BY DEF Init, Crawl!CrawlInit, Crawl!CrawlBoot, Crawl!NoCrawl, CrawlThms!Init,
       CrawlThms!CrawlInit, CrawlThms!NoCrawl

\* The process keeps the invariant of CrawlJobs through restarts.
LEMMA CrawlInvariantOfProcess ==
  Spec => [](CrawlThms!CrawlTypeOK /\ CrawlThms!CrawlInv)
<1> DEFINE Inv == CrawlThms!CrawlTypeOK /\ CrawlThms!Budgeted /\ CrawlThms!CrawlInv
<1>1. CrawlThms!Init => Inv
  BY CrawlThms!CrawlInitInv, CrawlBoundsAssumption
<1>2. CrawlThms!Init' => Inv'
  BY <1>1, PTL
<1>3. Inv /\ [CrawlThms!Next]_(CrawlThms!vars) => Inv'
  BY CrawlThms!CrawlTypeStep, CrawlThms!CrawlInvStep, CrawlBoundsAssumption
<1>4. Inv /\ Locked /\ [Next]_vars => Inv'
  BY <1>2, <1>3, CrawlStepOfProcess, SameCrawlStep, CrawlBootOfProcess
<1>5. Init => Inv
  BY <1>1, CrawlBootOfProcess
<1> QED
  BY <1>4, <1>5, LockedInvariant, PTL DEF Spec

\* Beside preparations, queries, settings, shutdowns and restarts, a finished
\* crawl job says what its sections did, an accepted cancellation shows in its
\* end, and none reaches another job.
THEOREM ProcessKeepsCrawlPromises ==
  Spec => [](/\ Crawl!FinishedCrawlIsHonest
             /\ Crawl!CancelIsHonoured
             /\ Crawl!NoStaleCancel)
<1>1. CrawlThms!CrawlInv
        => /\ Crawl!FinishedCrawlIsHonest
           /\ Crawl!CancelIsHonoured
           /\ Crawl!NoStaleCancel
  BY DEF CrawlThms!CrawlInv, CrawlThms!Honest, CrawlThms!CancelIsHonoured,
         CrawlThms!NoStaleCancel, Crawl!FinishedCrawlIsHonest, Crawl!Selected,
         Crawl!InState, Crawl!CancelIsHonoured, Crawl!NoStaleCancel
<1> QED
  BY <1>1, CrawlInvariantOfProcess, PTL

-----------------------------------------------------------------------------
(* The shutdown *)

\* What each stage of the lifespan has closed and seen the end of.
Ended ==
  /\ api \in {"joinCorpus", "closeCrawl", "joinCrawl", "supervisor", "aborted",
              "down"}
       => corpusClosed /\ corpusReq = "idle"
  /\ api \in {"closeCrawl", "joinCrawl", "supervisor", "aborted", "down"}
       => corpusPc \in {"none", "unstarted", "dead"}
  /\ api \in {"joinCrawl", "supervisor"} => crawlClosed
  /\ api \in {"supervisor", "down"} => crawlPc \in {"none", "dead"}

\* Every step keeps what the lifespan has ended at its end.
LEMMA EndedStep == Ended /\ [Next]_vars => Ended'
<1> SUFFICES ASSUME Ended, [Next]_vars PROVE Ended'
  OBVIOUS
<1> USE DEF Ended
<1>1. CASE CrawlCommand
  BY <1>1
  DEF CrawlCommand, Crawl!CrawlCommands, Crawl!Start, Crawl!CanStart,
      Crawl!Cancel, corpusVars, lifeVars, Running, Stopping
<1>2. CASE CorpusCommand
  BY <1>2
  DEF CorpusCommand, Corpus!CorpusCommands, Corpus!Request, Corpus!RequestEnds,
      Corpus!StartWorker, Corpus!StartFails, Corpus!CreateJob,
      Corpus!CancelBuild, crawlVars, lifeVars
<1>3. CASE CrawlStep
  BY <1>3
  DEF CrawlStep, ThreadsRun, Crawl!CrawlWorker, Crawl!CheckCancel,
      Crawl!EnterSection, Crawl!VisitCancelled, Crawl!VisitPage,
      Crawl!NextPage, Crawl!SectionDone, Crawl!EndSection,
      Crawl!FetchCancelled, Crawl!CrawlFails, Crawl!Settle, Crawl!Finally,
      Crawl!Release, Crawl!Exit, corpusVars, lifeVars
<1>4. CASE CorpusStep
  BY <1>4
  DEF CorpusStep, RefreshStep, Corpus!RefreshBackend, Corpus!BuildStep,
      Corpus!CheckDocument, Corpus!BuildDocument, Corpus!BuildFails,
      Corpus!SaveReport, Corpus!SettleBuild, Corpus!FailBuild,
      Corpus!RecordEnd, Corpus!ReleaseWriter, Corpus!ExitCorpus, Corpus!Keep,
      crawlVars, lifeVars
<1>5. CASE Query \/ SaveSettings \/ SwitchService \/ WriteIndex \/ UNCHANGED vars
  BY <1>5
  DEF Query, SaveSettings, SwitchService, WriteIndex, vars, crawlVars,
      corpusVars, lifeVars
<1>6. CASE Shutdown \/ Lifespan
  BY <1>6
  DEF Shutdown, Lifespan, CloseCorpus, JoinCorpus, CloseCrawl, JoinCrawl,
      CloseSupervisor, ExitAborted, Corpus!CloseCorpus, Corpus!JobLockFree,
      Crawl!CloseCrawl, crawlVars, corpusVars
<1>7. CASE Restart
  BY <1>7 DEF Restart
<1> QED
  BY <1>1, <1>2, <1>3, <1>4, <1>5, <1>6, <1>7 DEF Next

\* A process that has left its lifespan, in order or after an aborted shutdown,
\* has no thread left that uses the capture directory.
THEOREM NothingRunsOn == Spec => []NothingRunsAfterShutdown
<1>1. Init => Ended
  BY DEF Init, Ended
<1>2. Ended => NothingRunsAfterShutdown
  BY DEF Ended, NothingRunsAfterShutdown, InUse, Crawl!Working, Corpus!Working
<1> QED
  BY <1>1, <1>2, EndedStep, PTL DEF Spec

-----------------------------------------------------------------------------
(* Queries and index writes *)

\* A key's adapters are absent, as recent as the index or older than it.
BackendTypeOK ==
  /\ cache \in [Key -> {"empty", "current", "stale"}]
  /\ loading \in [key : Key \union {NoKey}, still : BOOLEAN]

\* The index is ahead of the backend at most while the job that wrote it has its
\* refresh still to come: the refresh is part of every way out of an indexing job.
Ahead == corpusJob.index /\ corpusPc \in {"build", "doc", "report", "settle",
                                         "fail", "refresh"}
Behind == ~Ahead => Backend!BackendIsCurrent

\* Loads, index writes and replacements keep the adapters well typed.
LEMMA BackendTypeStep == BackendTypeOK /\ [Next]_vars => BackendTypeOK'
<1> SUFFICES ASSUME BackendTypeOK, [Next]_vars PROVE BackendTypeOK'
  OBVIOUS
<1> USE DEF BackendTypeOK
<1>1. CASE Backend!Queries
  <2>1. ASSUME NEW k \in Key, Backend!LoadBegins(k)
        PROVE  BackendTypeOK'
    BY <2>1 DEF Backend!LoadBegins
  <2>2. CASE Backend!LoadEnds
    BY <2>2 DEF Backend!LoadEnds, Backend!NoLoad
  <2>3. CASE Backend!LoadFails
    BY <2>3 DEF Backend!LoadFails, Backend!NoLoad
  <2> QED
    BY <1>1, <2>1, <2>2, <2>3 DEF Backend!Queries
<1>2. CASE Backend!IndexChanges
  BY <1>2 DEF Backend!IndexChanges, Backend!NoLoad
<1>3. CASE Backend!Replace
  BY <1>3 DEF Backend!Replace, Backend!NoLoad
<1>4. CASE UNCHANGED backendVars
  BY <1>4 DEF backendVars
<1> QED
  BY <1>1, <1>2, <1>3, <1>4
  DEF Next, vars, CrawlCommand, CorpusCommand, Query, SaveSettings,
      SwitchService, CrawlStep, CorpusStep, RefreshStep, WriteIndex, Shutdown,
      Lifespan, CloseCorpus, JoinCorpus, CloseCrawl, JoinCrawl,
      CloseSupervisor, ExitAborted, Restart

\* Only an index write makes a backend that is current fall behind.
LEMMA BackendStaysCurrent ==
  BackendTypeOK /\ Backend!BackendIsCurrent
    /\ (Backend!Queries \/ UNCHANGED backendVars) => Backend!BackendIsCurrent'
<1> SUFFICES ASSUME BackendTypeOK, Backend!BackendIsCurrent,
                    Backend!Queries \/ UNCHANGED backendVars
             PROVE  Backend!BackendIsCurrent'
  OBVIOUS
<1> USE DEF BackendTypeOK, Backend!BackendIsCurrent
<1>1. ASSUME NEW k \in Key, Backend!LoadBegins(k)
      PROVE  Backend!BackendIsCurrent'
  BY <1>1 DEF Backend!LoadBegins
<1>2. CASE Backend!LoadEnds
  BY <1>2 DEF Backend!LoadEnds, Backend!NoLoad
<1>3. CASE Backend!LoadFails
  BY <1>3 DEF Backend!LoadFails, Backend!NoLoad
<1>4. CASE UNCHANGED backendVars
  BY <1>4 DEF backendVars
<1> QED
  BY <1>1, <1>2, <1>3, <1>4 DEF Backend!Queries

\* A replaced backend is current.
LEMMA ReplaceMakesCurrent == Backend!Replace => Backend!BackendIsCurrent'
BY DEF Backend!Replace, Backend!BackendIsCurrent, Backend!NoLoad

\* Where the job stands after a step that leaves the index alone: it is ahead only
\* if it was before, and a refresh is what ends it.
LEMMA AheadEndsInRefresh ==
  Locked /\ CorpusThms!CorpusTypeOK /\ [Next]_vars /\ Ahead
    => Ahead' \/ Backend!Replace
<1> SUFFICES ASSUME Locked, CorpusThms!CorpusTypeOK, [Next]_vars, Ahead, ~Ahead'
             PROVE  Backend!Replace
  OBVIOUS
<1> USE DEF Ahead, Locked, Corpus!Working, CorpusThms!CorpusTypeOK,
            CorpusThms!CorpusJob
<1>1. CASE CorpusCommand
  BY <1>1
  DEF CorpusCommand, Corpus!CorpusCommands, Corpus!Request, Corpus!RequestEnds,
      Corpus!StartWorker, Corpus!StartFails, Corpus!CreateJob,
      Corpus!CancelBuild
<1>2. CASE CorpusStep
  BY <1>2
  DEF CorpusStep, RefreshStep, Corpus!RefreshBackend, Corpus!BuildStep,
      Corpus!CheckDocument, Corpus!BuildDocument, Corpus!BuildFails,
      Corpus!SaveReport, Corpus!SettleBuild, Corpus!FailBuild, Corpus!AfterJob,
      Corpus!RecordEnd, Corpus!ReleaseWriter, Corpus!ExitCorpus, Corpus!Keep
<1>3. CASE CrawlCommand \/ CrawlStep \/ Query \/ SaveSettings \/ SwitchService
           \/ WriteIndex \/ Shutdown \/ UNCHANGED vars
  BY <1>3
  DEF CrawlCommand, CrawlStep, Query, SaveSettings, SwitchService, WriteIndex,
      Shutdown, vars, corpusVars
<1>4. CASE Lifespan
  BY <1>4
  DEF Lifespan, CloseCorpus, JoinCorpus, CloseCrawl, JoinCrawl,
      CloseSupervisor, ExitAborted, Corpus!CloseCorpus, corpusVars
<1>5. CASE Restart
  BY <1>5 DEF Restart
<1> QED
  BY <1>1, <1>2, <1>3, <1>4, <1>5 DEF Next

\* Every step keeps the index and the backend together outside a preparation.
LEMMA BehindStep ==
  Locked /\ CorpusThms!CorpusTypeOK /\ BackendTypeOK /\ Behind /\ [Next]_vars
    => Behind'
<1> SUFFICES ASSUME Locked, CorpusThms!CorpusTypeOK, BackendTypeOK, Behind,
                    [Next]_vars, ~Ahead'
             PROVE  Backend!BackendIsCurrent'
  BY DEF Behind
<1>1. CASE Backend!Replace
  BY <1>1, ReplaceMakesCurrent
<1>2. CASE ~Backend!Replace
  <2>1. Backend!BackendIsCurrent
    BY <1>2, AheadEndsInRefresh DEF Behind
  <2>2. ~WriteIndex
    BY DEF WriteIndex, Ahead, corpusVars
  <2>3. Backend!Queries \/ UNCHANGED backendVars
    BY <1>2, <2>2
    DEF Next, vars, CrawlCommand, CorpusCommand, Query, SaveSettings,
        SwitchService, CrawlStep, CorpusStep, RefreshStep, Shutdown, Lifespan,
        CloseCorpus, JoinCorpus, CloseCrawl, JoinCrawl, CloseSupervisor,
        ExitAborted, Restart
  <2> QED
    BY <2>1, <2>3, BackendStaysCurrent
<1> QED
  BY <1>1, <1>2

\* Outside a running preparation no new query is served by chunks older than the
\* index, whatever loads, settings changes, failures and restarts came between.
THEOREM QueriesFollowTheIndex == Spec => []QueriesSeeTheIndex
<1>1. Init => BackendTypeOK /\ Behind
  BY DEF Init, Backend!BackendInit, Backend!NoLoad, BackendTypeOK, Behind,
         Backend!BackendIsCurrent
<1>2. Behind => QueriesSeeTheIndex
  BY DEF Behind, Ahead, QueriesSeeTheIndex, Corpus!Working
<1> QED
  BY <1>1, <1>2, BackendTypeStep, BehindStep, LockedInvariant,
     CorpusInvariantOfProcess, PTL DEF Spec


-----------------------------------------------------------------------------
(* Settings and services: the invariant *)

\* The owned services belong to the settings in force, and at most one uses the
\* GPU; without a process nothing is owned.
Supervised ==
  /\ handle \in [Service -> Connections \union {None}]
  /\ running \in [Service -> {"none", "child", "other"}]
  /\ statuses \in [Service -> Connections \union {None}]
  /\ \A s \in Service : running[s] = "child" => handle[s] # None
  /\ ServicesMatchSettings
  /\ \A s, t \in Gpu : Owned(s) /\ Owned(t) => s = t
  /\ state = None => handle = Nothing /\ statuses = Nothing

Recorded ==
  /\ {disk, state, loaded} \subseteq Saved \union {None}
  /\ issued \in 0..MaxRevision
  /\ tab \in [Tab -> [revision : 0..MaxRevision, base : 0..MaxRevision]]
  /\ preparing \in Seq(Service)
  /\ overtaken \subseteq {"starting", "serving"}

\* What a process has read is what the file holds, or the YAML settings.
AsOnDisk(saved) ==
  saved = disk \/ (disk = None /\ saved.current = Initial /\ saved.previous = None)

\* Only a save that comes after the reading parts a process from the file.
Persisted ==
  /\ state # None /\ "serving" \notin overtaken => AsOnDisk(state)
  /\ loaded # None /\ "starting" \notin overtaken => AsOnDisk(loaded)

-----------------------------------------------------------------------------
(* The supervisor *)

\* A poll changes no owned service.
LEMMA PolledKeepsOwned ==
  ASSUME NEW S, handle \in [Service -> Connections \union {None}]
  PROVE  /\ Polled(S) \in [Service -> Connections \union {None}]
         /\ \A s \in Service : Owned(s) => Polled(S)[s] = handle[s]
         /\ \A s \in Service : Polled(S)[s] \in {handle[s], None}
BY DEF Polled

\* Polls leave the services supervised, whatever is reported.
LEMMA PollPreserves ==
  ASSUME Supervised, NEW S, handle' = Polled(S), UNCHANGED << running, state >>,
         statuses' \in [Service -> Connections \union {None}],
         \A s \in Service : statuses'[s] # None => statuses'[s] = state.current,
         state # None
  PROVE  Supervised'
<1>1. /\ handle' \in [Service -> Connections \union {None}]
      /\ \A s \in Service : Owned(s) => handle'[s] = handle[s]
      /\ \A s \in Service : handle'[s] \in {handle[s], None}
  BY PolledKeepsOwned DEF Supervised
<1>2. \A s \in Service : Owned(s)' => Owned(s) /\ handle'[s] = handle[s]
  BY <1>1 DEF Owned
<1>3. \A s \in Service : running'[s] = "child" => handle'[s] # None
  BY <1>1 DEF Owned, Supervised
<1>4. \A s \in Gpu : s \in Service
  BY ServiceAssumption
<1> QED
  BY <1>1, <1>2, <1>3, <1>4 DEF Supervised, ServicesMatchSettings

\* A launch with the settings in force, of a service that is not owned and passes
\* the GPU guard.
LEMMA LaunchPreserves ==
  ASSUME Supervised, NEW s \in Service, state # None, UNCHANGED state,
         state.current \in Connections, ~Owned(s), GpuFree(s),
         handle' = [Polled(Service) EXCEPT ![s] = state.current],
         running' = [running EXCEPT ![s] = "child"],
         statuses' \in [Service -> Connections \union {None}],
         \A t \in Service : statuses'[t] # None => statuses'[t] = state.current
  PROVE  Supervised'
<1>1. /\ Polled(Service) \in [Service -> Connections \union {None}]
      /\ \A t \in Service : Owned(t) => Polled(Service)[t] = handle[t]
      /\ \A t \in Service : Polled(Service)[t] \in {handle[t], None}
  BY PolledKeepsOwned DEF Supervised
<1>2. /\ handle' \in [Service -> Connections \union {None}]
      /\ running' \in [Service -> {"none", "child", "other"}]
      /\ handle'[s] = state.current
      /\ \A t \in Service \ {s} : handle'[t] = Polled(Service)[t] /\ running'[t] = running[t]
  BY <1>1 DEF Supervised
<1>3. \A t \in Service \ {s} : Owned(t)' => Owned(t) /\ handle'[t] = handle[t]
  BY <1>1, <1>2 DEF Owned
<1>4. \A t \in Service : running'[t] = "child" => handle'[t] # None
  BY <1>1, <1>2, ConnectionsAssumption DEF Owned, Supervised
<1>5. \A t \in Service : Owned(t)' => handle'[t] = state'.current
  BY <1>2, <1>3 DEF Supervised, ServicesMatchSettings
<1>6. \A t, u \in Gpu : Owned(t)' /\ Owned(u)' => t = u
  BY <1>3, ServiceAssumption DEF Supervised, GpuFree
<1> QED
  BY <1>2, <1>4, <1>5, <1>6 DEF Supervised, ServicesMatchSettings

\* An endpoint changes hands, during a start or between requests.
LEMMA WorldPreserves ==
  ASSUME Supervised, NEW s, NEW r \in {"none", "other"}, UNCHANGED state,
         running' = [running EXCEPT ![s] = r],
         \/ UNCHANGED handle
         \/ state # None /\ handle' = Polled(Service),
         \/ UNCHANGED statuses
         \/ state # None /\ state.current \in Connections /\ Reports(s)
  PROVE  Supervised'
<1>1. /\ handle' \in [Service -> Connections \union {None}]
      /\ \A t \in Service : Owned(t) => handle'[t] = handle[t]
      /\ \A t \in Service : handle'[t] \in {handle[t], None}
  BY PolledKeepsOwned DEF Supervised
<1>2. /\ running' \in [Service -> {"none", "child", "other"}]
      /\ \A t \in Service : running'[t] = "child" => running[t] = "child"
  BY DEF Supervised
<1>3. \A t \in Service : Owned(t)' => Owned(t) /\ handle'[t] = handle[t]
  BY <1>1, <1>2 DEF Owned
<1>4. \A t \in Service : running'[t] = "child" => handle'[t] # None
  BY <1>1, <1>2 DEF Owned, Supervised
<1>5. /\ statuses' \in [Service -> Connections \union {None}]
      /\ \A t \in Service : statuses'[t] # None => statuses'[t] = state.current
  BY DEF Supervised, ServicesMatchSettings, Reports
<1>6. state = None => handle' = Nothing /\ statuses' = Nothing
  BY DEF Supervised
<1> QED
  BY <1>1, <1>2, <1>3, <1>4, <1>5, <1>6, ServiceAssumption
  DEF Supervised, ServicesMatchSettings

\* Both outcomes of Supervisor.start, whatever is reported.
LEMMA StartPreserves ==
  ASSUME Supervised, NEW s \in Service, state # None, UNCHANGED state,
         state.current \in Connections, Started(s) \/ StartRaises(s),
         statuses' = statuses \/ Reports(s)
  PROVE  Supervised'
<1>1. /\ statuses' \in [Service -> Connections \union {None}]
      /\ \A t \in Service : statuses'[t] # None => statuses'[t] = state.current
  BY DEF Reports, Supervised, ServicesMatchSettings
<1>2. CASE \E S : handle' = Polled(S) /\ UNCHANGED running
  BY <1>1, <1>2, PollPreserves
<1>3. CASE /\ ~Owned(s) /\ GpuFree(s)
           /\ handle' = [Polled(Service) EXCEPT ![s] = state.current]
           /\ running' = [running EXCEPT ![s] = "child"]
  BY <1>1, <1>3, LaunchPreserves
<1>4. CASE /\ handle' = Polled(Service)
           /\ running' = [running EXCEPT ![s] = "other"]
  BY <1>4, WorldPreserves
<1> QED
  BY <1>2, <1>3, <1>4 DEF Started, StartRaises

\* The end of a process leaves nothing owned.
LEMMA EndPreserves ==
  ASSUME Supervised, NEW left, Ends(left)
  PROVE  Supervised'
<1>1. \A s \in Service : running'[s] # "child"
  BY DEF Ends, Supervised, Owned
<1>2. /\ handle' \in [Service -> Connections \union {None}]
      /\ statuses' \in [Service -> Connections \union {None}]
      /\ running' \in [Service -> {"none", "child", "other"}]
      /\ \A s \in Service : statuses'[s] = None
  BY DEF Ends, Supervised, Nothing
<1> QED
  BY <1>1, <1>2, ServiceAssumption
  DEF Supervised, ServicesMatchSettings, Owned, Ends

\* Settings are replaced only while nothing is owned.
LEMMA ReplacePreserves ==
  ASSUME Supervised, NEW t, NEW c, Replace(t, c)
  PROVE  Supervised'
<1>1. \A s \in Service : handle'[s] = None
  BY DEF Replace, MayReplace, NothingOwned, Polled
<1>2. /\ handle' \in [Service -> Connections \union {None}]
      /\ statuses' \in [Service -> Connections \union {None}]
      /\ \A s \in Service : statuses'[s] = None
  BY PolledKeepsOwned DEF Replace, Supervised, Nothing
<1>3. \A s \in Service : running[s] # "child"
  BY DEF Replace, MayReplace, NothingOwned, Owned, Supervised
<1>4. handle' = Nothing /\ statuses' = Nothing
  BY <1>1 DEF Replace, Polled, Nothing
<1> QED
  BY <1>1, <1>2, <1>3, <1>4, ServiceAssumption
  DEF Supervised, ServicesMatchSettings, Owned, Replace

-----------------------------------------------------------------------------
(* Types of the rest *)

\* What a write puts on disk is a saved state with a fresh revision.
LEMMA WriteTypes ==
  ASSUME Recorded, NEW t, NEW c \in Connections, MayReplace(t, c), Write(c)
  PROVE  /\ disk' \in Saved
         /\ issued' \in 1..MaxRevision
         /\ disk'.current = c
         /\ disk'.previous = state.current
         /\ overtaken' \subseteq {"starting", "serving"}
BY MaxRevisionAssumption DEF Recorded, MayReplace, Serving, Write, Saved, Revision

LEMMA NeededTypes ==
  ASSUME NEW mode
  PROVE  Needed(mode) \in Seq(Service)
<1>1. \A s, needed : Only(s, needed) \in Seq(Service)
  BY DEF Only
<1> QED
  BY <1>1, ConcatProperties DEF Needed

-----------------------------------------------------------------------------
(* Every step keeps the three parts *)

LEMMA SupervisedStep ==
  ASSUME Recorded, Supervised, [RuntimeNext]_runtimeVars
  PROVE  Supervised'
<1> USE ServiceAssumption
<1>1. state # None => state.current \in Connections
  BY DEF Recorded, Saved
<1>2. ASSUME NEW t \in Tab, Look(t) PROVE Supervised'
  <2>1. /\ statuses' \in [Service -> Connections \union {None}]
        /\ \A s \in Service : statuses'[s] = state.current
    BY <1>1, <1>2 DEF Look, Serving
  <2>2. PICK unknown \in SUBSET Docker : handle' = Polled(Service \ unknown)
    BY <1>2 DEF Look
  <2> QED
    BY <1>2, <2>1, <2>2, PollPreserves DEF Look, Serving
<1>3. ASSUME NEW t \in Tab, Save(t) \/ Restore(t) PROVE Supervised'
  BY <1>3, ReplacePreserves DEF Save, Restore
<1>4. ASSUME NEW t \in Tab, NEW s \in Service, Start(t, s) PROVE Supervised'
  BY <1>1, <1>4, StartPreserves DEF Start, Serving
<1>5. ASSUME NEW t \in Tab, NEW s \in Service, Stop(t, s) PROVE Supervised'
  <2>1. /\ handle' \in [Service -> Connections \union {None}]
        /\ running' \in [Service -> {"none", "child", "other"}]
        /\ statuses' \in [Service -> Connections \union {None}]
        /\ \A u \in Service : statuses'[u] # None => statuses'[u] = state.current
    BY <1>1, <1>5 DEF Stop, Reports, Serving, Supervised, ServicesMatchSettings
  <2>2. \A u \in Service : /\ Owned(u)' => Owned(u) /\ handle'[u] = handle[u]
                           /\ running'[u] = "child" => handle'[u] # None
    BY <1>5 DEF Stop, Owned, Supervised
  <2> QED
    BY <1>5, <2>1, <2>2 DEF Stop, Serving, Supervised, ServicesMatchSettings
<1>6. CASE Refused
  <2>1. PICK S \in SUBSET Service : handle' = Polled(S)
    BY <1>6 DEF Refused
  <2> QED
    BY <1>6, <2>1, PollPreserves DEF Refused, Serving, Supervised, ServicesMatchSettings
<1>7. CASE PrepareNext
  <2> DEFINE s == Head(preparing)
  <2>1. s \in Service
    BY <1>7, HeadTailProperties DEF PrepareNext, Recorded
  <2>2. CASE Started(s) \/ StartRaises(s)
    BY <1>1, <1>7, <2>1, <2>2, StartPreserves DEF PrepareNext
  <2>3. CASE handle' = Polled({s}) /\ UNCHANGED running
    BY <1>1, <1>7, <2>1, <2>3, PollPreserves
    DEF PrepareNext, Reports, Supervised, ServicesMatchSettings
  <2> QED
    BY <1>7, <2>2, <2>3 DEF PrepareNext
<1>8. CASE Acquire
  <2>1. CASE state = None
    <3>1. \A s \in Service : handle[s] = None /\ statuses[s] = None
      BY <2>1 DEF Supervised, Nothing
    <3> QED
      BY <1>8, <2>1, <3>1 DEF Acquire, Supervised, ServicesMatchSettings, Owned, serviceVars
  <2>2. CASE state # None
    BY <1>8, <2>2 DEF Acquire, Supervised, ServicesMatchSettings, Owned, serviceVars
  <2> QED
    BY <2>1, <2>2
<1>9. CASE Close \/ Crash \/ CrashInSave
  BY <1>9, EndPreserves DEF Close, Crash, CrashInSave
<1>10. ASSUME NEW s \in Service, World(s) PROVE Supervised'
  BY <1>10, WorldPreserves DEF World
<1>11. CASE /\ UNCHANGED << handle, running, statuses >>
            /\ UNCHANGED state
  BY <1>11 DEF Supervised, ServicesMatchSettings, Owned
<1>12. ASSUME NEW t \in Tab, Check(t) \/ Prepare(t) PROVE Supervised'
  BY <1>11, <1>12 DEF Check, Prepare, serviceVars
<1>13. CASE Load
  BY <1>11, <1>13 DEF Load, serviceVars
<1>14. CASE UNCHANGED runtimeVars
  BY <1>11, <1>14 DEF runtimeVars, serviceVars
<1> QED
  BY <1>2, <1>3, <1>4, <1>5, <1>6, <1>7, <1>8, <1>9, <1>10, <1>12, <1>13, <1>14
  DEF RuntimeNext, TabRequest

LEMMA RecordedStep ==
  ASSUME Recorded, [RuntimeNext]_runtimeVars
  PROVE  Recorded'
<1> USE MaxRevisionAssumption
<1>1. state # None => state.revision \in 0..MaxRevision /\ state.current \in Connections
  BY DEF Recorded, Saved, Revision
<1>2. ASSUME NEW t \in Tab, Look(t) \/ Check(t) PROVE Recorded'
  <2> DEFINE Told == [revision : 0..MaxRevision, base : 0..MaxRevision]
  <2>1. state.revision \in 0..MaxRevision /\ tab \in [Tab -> Told]
    BY <1>1, <1>2 DEF Look, Check, Serving, Recorded
  <2>2. CASE Look(t)
    <3>1. tab' = [tab EXCEPT ![t] = [revision |-> state.revision,
                                     base |-> state.revision]]
      BY <2>2 DEF Look
    <3>2. tab' \in [Tab -> Told]
      BY <2>1, <3>1
    <3> QED
      BY <2>2, <3>2 DEF Look, Recorded
  <2>3. CASE Check(t)
    <3>1. tab[t] \in Told
      BY <2>1
    <3>2. [tab[t] EXCEPT !.revision = state.revision] \in Told
      BY <2>1, <3>1
    <3>3. tab' = [tab EXCEPT ![t] = [tab[t] EXCEPT !.revision = state.revision]]
      BY <2>3 DEF Check
    <3>4. tab' \in [Tab -> Told]
      BY <2>1, <3>2, <3>3
    <3> QED
      BY <2>3, <3>4 DEF Check, Recorded, serviceVars
  <2> QED
    BY <1>2, <2>2, <2>3
<1>3. ASSUME NEW t \in Tab, NEW c \in Connections, Replace(t, c),
             Save(t) \/ Restore(t)
      PROVE  Recorded'
  <2>1. /\ disk' \in Saved /\ issued' \in 1..MaxRevision /\ state' = disk'
        /\ overtaken' \subseteq {"starting", "serving"}
    BY <1>3, WriteTypes DEF Replace
  <2>2. tab' \in [Tab -> [revision : 0..MaxRevision, base : 0..MaxRevision]]
    BY <1>3, <2>1 DEF Save, Restore, Recorded
  <2> QED
    BY <1>3, <2>1, <2>2 DEF Replace, Recorded
<1>4. ASSUME NEW t \in Tab, Save(t) PROVE Recorded'
  BY <1>3, <1>4 DEF Save
<1>5. ASSUME NEW t \in Tab, Restore(t) PROVE Recorded'
  <2>1. state.previous \in Connections
    BY <1>5 DEF Restore, Serving, Recorded, Saved
  <2> QED
    BY <1>3, <1>5, <2>1 DEF Restore
<1>6. ASSUME NEW t \in Tab, NEW s \in Service, Start(t, s) \/ Stop(t, s)
      PROVE  Recorded'
  BY <1>6 DEF Start, Stop, Recorded
<1>7. ASSUME NEW t \in Tab, Prepare(t) PROVE Recorded'
  BY <1>7, NeededTypes DEF Prepare, Recorded
<1>8. CASE PrepareNext
  <2>1. preparing' \in {Tail(preparing), << >>}
    BY <1>8 DEF PrepareNext, AfterProbe
  <2>2. preparing \in Seq(Service) /\ preparing # << >>
    BY <1>8 DEF PrepareNext, Recorded
  <2>3. preparing' \in Seq(Service)
    BY <2>1, <2>2, HeadTailProperties, EmptySeq
  <2> QED
    BY <1>8, <2>3 DEF PrepareNext, Recorded
<1>9. CASE Load
  <2>1. disk = None =>
          [current |-> Initial, previous |-> None, revision |-> issued + 1] \in
            Saved \/ ~(issued < MaxRevision)
    BY ConnectionsAssumption DEF Recorded, Saved, Revision
  <2> QED
    BY <1>9, <2>1 DEF Load, ReadBack, Recorded, serviceVars
<1>10. CASE Acquire
  BY <1>10 DEF Acquire, Recorded, serviceVars
<1>11. CASE Close \/ Crash
  BY <1>11, EmptySeq DEF Close, Crash, Ends, Recorded
<1>12. CASE CrashInSave
  <2>1. /\ disk' \in Saved /\ issued' \in 1..MaxRevision
        /\ overtaken' \subseteq {"starting", "serving"}
    BY <1>12, WriteTypes DEF CrashInSave
  <2> QED
    BY <1>12, <2>1, EmptySeq DEF CrashInSave, Ends, Recorded
<1>13. ASSUME NEW s \in Service, World(s) PROVE Recorded'
  BY <1>13 DEF World, Recorded
<1>14. CASE Refused \/ UNCHANGED runtimeVars
  BY <1>14 DEF Refused, runtimeVars, serviceVars, Recorded
<1> QED
  BY <1>2, <1>4, <1>5, <1>6, <1>7, <1>8, <1>9, <1>10, <1>11, <1>12, <1>13, <1>14
  DEF RuntimeNext, TabRequest

LEMMA PersistedStep ==
  ASSUME Persisted, [RuntimeNext]_runtimeVars
  PROVE  Persisted'
<1>1. CASE UNCHANGED << disk, state, loaded, overtaken >>
  BY <1>1 DEF Persisted, AsOnDisk
<1>2. ASSUME NEW t, NEW c, Replace(t, c) PROVE Persisted'
  BY <1>2 DEF Replace, Write, Persisted, AsOnDisk
<1>3. ASSUME NEW t \in Tab, TabRequest(t) PROVE Persisted'
  BY <1>1, <1>2, <1>3
  DEF TabRequest, Look, Check, Save, Restore, Prepare, Start, Stop
<1>4. CASE Load
  BY <1>4 DEF Load, ReadBack, Persisted, AsOnDisk
<1>5. CASE Acquire
  BY <1>5 DEF Acquire, Persisted, AsOnDisk
<1>6. CASE Close \/ Crash
  BY <1>6 DEF Close, Crash, Ends, Persisted, AsOnDisk
<1>7. CASE CrashInSave
  BY <1>7 DEF CrashInSave, Write, Ends, Persisted, AsOnDisk
<1>8. CASE Refused \/ PrepareNext \/ (\E s \in Service : World(s)) \/ UNCHANGED runtimeVars
  BY <1>1, <1>8 DEF Refused, PrepareNext, World, runtimeVars
<1> QED
  BY <1>3, <1>4, <1>5, <1>6, <1>7, <1>8 DEF RuntimeNext

LEMMA InitEstablishes == RuntimeInit => Recorded /\ Supervised /\ Persisted
<1> SUFFICES ASSUME RuntimeInit PROVE Recorded /\ Supervised /\ Persisted
  OBVIOUS
<1>1. Recorded
  BY MaxRevisionAssumption, EmptySeq DEF RuntimeInit, Recorded
<1>2. Supervised
  BY ServiceAssumption DEF RuntimeInit, Supervised, ServicesMatchSettings, Owned, Nothing
<1>3. Persisted
  BY DEF RuntimeInit, Persisted
<1> QED
  BY <1>1, <1>2, <1>3

LEMMA AlwaysSupervised == RuntimeSpec => [](Recorded /\ Supervised)
<1>1. RuntimeInit => Recorded /\ Supervised
  BY InitEstablishes
<1>2. Recorded /\ Supervised /\ [RuntimeNext]_runtimeVars => (Recorded /\ Supervised)'
  BY RecordedStep, SupervisedStep
<1> QED
  BY <1>1, <1>2, PTL DEF RuntimeSpec

-----------------------------------------------------------------------------
(* The theorems *)

\* The variables of RuntimeController, Supervisor, the settings file and the tabs
\* stay within their types, and a child always has a handle.
THEOREM RuntimeTypeCorrect == RuntimeSpec => []TypeOK
<1>1. Recorded /\ Supervised => TypeOK
  BY DEF Recorded, Supervised, TypeOK
<1> QED
  BY <1>1, AlwaysSupervised, PTL

\* Whatever is saved, restored, started, lost or restarted, an owned service was
\* launched with the settings in force, and cached statuses describe them.
THEOREM OwnedServicesMatch == RuntimeSpec => []ServicesMatchSettings
<1>1. Supervised => ServicesMatchSettings
  BY DEF Supervised
<1> QED
  BY <1>1, AlwaysSupervised, PTL

\* The guard of Supervisor.start, asked at each start only, keeps one managed GPU
\* model for any number of services.
THEOREM OneGpuModelOnly == RuntimeSpec => []OneManagedGpuModel
<1>1. ASSUME Supervised PROVE OneManagedGpuModel
  <2> DEFINE O == {s \in Gpu : Owned(s)}
  <2>1. CASE O = {}
    BY <2>1, FS_EmptySet DEF OneManagedGpuModel
  <2>2. CASE O # {}
    <3>1. PICK s \in Gpu : Owned(s)
      BY <2>2
    <3>2. O = {s}
      BY <1>1, <3>1 DEF Supervised
    <3>3. Cardinality(O) = 1
      BY <3>2, FS_Singleton
    <3> QED
      BY <3>3 DEF OneManagedGpuModel
  <2> QED
    BY <2>1, <2>2
<1>2. Supervised => OneManagedGpuModel
  BY <1>1
<1> QED
  BY <1>2, AlwaysSupervised, PTL

\* Through saves, failed writes, ends, crashes between the write and its publication
\* and starts in any order, also beside a process that serves, no process serves what
\* the file does not hold but one that a save overtook between its reading and the lock.
THEOREM MemoryIsDurable == RuntimeSpec => []OnlyOvertakenIsStale
<1>1. RuntimeInit => Persisted
  BY InitEstablishes
<1>2. Persisted /\ [RuntimeNext]_runtimeVars => Persisted'
  BY PersistedStep
<1>3. Persisted => OnlyOvertakenIsStale
  BY DEF Persisted, AsOnDisk, StateIsDurable, OnlyOvertakenIsStale
<1> QED
  BY <1>1, <1>2, <1>3, PTL DEF RuntimeSpec

\* A save of a process that was not overtaken keeps the settings it replaces on disk as
\* the previous ones and comes from a tab that was told their revision, also if it
\* overtakes a process that is starting.
THEOREM ReplacedSettingsAreKept == RuntimeSpec => ReplacedIsKept
<1> DEFINE Kept == /\ disk'.previous = disk.current
                  /\ \E t \in Tab : tab[t].revision = disk.revision
           Step == disk' # disk /\ disk # None /\ "serving" \notin overtaken => Kept
<1>1. RuntimeInit => Persisted
  BY InitEstablishes
<1>2. Persisted /\ [RuntimeNext]_runtimeVars => Persisted'
  BY PersistedStep
<1>3. Persisted /\ [RuntimeNext]_runtimeVars => [Step]_runtimeVars
  <2> SUFFICES ASSUME Persisted, RuntimeNext, disk' # disk, disk # None,
                      "serving" \notin overtaken
               PROVE  Kept
    BY DEF runtimeVars
  <2>1. PICK t \in Tab : \E c : MayReplace(t, c) /\ Write(c)
    BY DEF RuntimeNext, TabRequest, Look, Check, Save, Restore, Replace, Prepare, Start, Stop,
           Refused, PrepareNext, Load, Acquire, Close, Crash, CrashInSave, World
  <2>2. state = disk /\ tab[t].revision = state.revision
    BY <2>1 DEF MayReplace, Serving, RevisionMatches, Persisted, AsOnDisk
  <2> QED
    BY <2>1, <2>2 DEF Write
<1> QED
  BY <1>1, <1>2, <1>3, PTL DEF RuntimeSpec, ReplacedIsKept

=============================================================================
