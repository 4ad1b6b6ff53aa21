----------------------------- MODULE CorpusJobs -----------------------------
(***************************************************************************)
(* The operator's corpus preparation jobs: class CorpusManager of          *)
(* src/taxguide/corpus/management.py, with the loop over documents of      *)
(* CorpusBuilder.build (corpus/builder.py) as its worker.                  *)
(*                                                                         *)
(* execute() runs under controller.lock and then _lock, so one preview,    *)
(* start or cancel is under way at a time; start takes the writer lock     *)
(* first, creates the job, writes the history file and only then starts    *)
(* the thread, and any of these may fail.  The history file outlives the   *)
(* process: __init__ reads it back.                                        *)
(***************************************************************************)
EXTENDS Naturals

CONSTANTS
  MaxDocs,   \* documents a selection may hold (CorpusCommand.limit)
  MaxBuilds  \* bound on the jobs of one behaviour (job ids are 1..MaxBuilds)

ASSUME MaxDocsAssumption == MaxDocs \in Nat \ {0}
ASSUME MaxBuildsAssumption == MaxBuilds \in Nat

VARIABLES
  writer,        \* who holds writer_lock
  corpusReq,     \* the request inside execute(): "idle" | "preview" | "start"
  corpusJob,     \* _job
  corpusPc,      \* where _run is; "unstarted": a Thread never started
  corpusDocs,    \* documents build() has gone through, and how many failed
  corpusCancel,  \* the Event _cancel
  corpusClosed,  \* _closed
  history,       \* the persisted .web-job.json
  corpusIssued,  \* ghost: job ids handed out so far, in any process life
  corpusAsked    \* ghost: ids whose cancellation was accepted

corpusVars == << corpusReq, corpusJob, corpusPc, corpusDocs, corpusCancel,
                 corpusClosed, history, corpusIssued, corpusAsked >>
vars == << writer, corpusVars >>

Writer == {"free", "crawl", "corpus"}
CorpusState ==
  {"running", "cancelling", "completed", "partial", "failed", "cancelled"}

\* The points of _run between which another thread may act.
Working == {"build", "doc", "report", "settle", "fail", "refresh", "record",
            "release"}
CorpusPc == {"none", "unstarted", "exit", "dead"} \union Working

\* id 0 stands for "no job"; report is the number of documents the saved report
\* counts as gone through, or MaxDocs + 1 for None.
NoReport == MaxDocs + 1
CorpusJob == [id : 0..MaxBuilds, state : CorpusState, done : BOOLEAN,
              index : BOOLEAN, selected : 0..MaxDocs,
              report : 0..NoReport, failed : 0..MaxDocs]
NoBuild == [id |-> 0, state |-> "completed", done |-> TRUE, index |-> FALSE,
            selected |-> 0, report |-> 0, failed |-> 0]

CorpusTypeOK ==
  /\ writer \in Writer
  /\ corpusReq \in {"idle", "preview", "start"}
  /\ corpusJob \in CorpusJob
  /\ corpusPc \in CorpusPc
  /\ corpusDocs \in [seen : 0..MaxDocs, failed : 0..MaxDocs]
  /\ corpusCancel \in BOOLEAN
  /\ corpusClosed \in BOOLEAN
  /\ history \in CorpusJob
  /\ corpusIssued \in 0..MaxBuilds
  /\ corpusAsked \subseteq 1..MaxBuilds

Active == {"running", "cancelling"}

\* What __init__ makes of the history file: an interrupted job is failed, and
\* that verdict stays in memory.
Recovered_asStored(h) == [h EXCEPT !.done = TRUE]
Recovered(h) ==
  IF h.state \in Active THEN [h EXCEPT !.state = "failed", !.done = TRUE] ELSE h

\* A new process over the history file h.
CorpusBoot(h) ==
  /\ corpusReq' = "idle"
  /\ corpusJob' = Recovered(h)
  /\ corpusPc' = "none"
  /\ corpusDocs' = [seen |-> 0, failed |-> 0]
  /\ corpusCancel' = FALSE
  /\ corpusClosed' = FALSE

CorpusInit ==
  /\ corpusReq = "idle"
  /\ corpusJob = NoBuild
  /\ corpusPc = "none"
  /\ corpusDocs = [seen |-> 0, failed |-> 0]
  /\ corpusCancel = FALSE
  /\ corpusClosed = FALSE
  /\ history = NoBuild
  /\ corpusIssued = 0
  /\ corpusAsked = {}

-----------------------------------------------------------------------------
(* Request threads *)

\* _lock can be taken: a request inside execute() holds it, close() only while it
\* sets its flags.  (Definitions named X_y before X are faulty variants of X for
\* mutation runs; here close() would join the worker with _lock held.)
JobLockFree_heldByClose == corpusReq = "idle" /\ ~corpusClosed
JobLockFree == corpusReq = "idle"

\* preview and start: the manifests are read with the writer lock held.
Request(kind) ==
  /\ corpusReq = "idle"
  /\ ~corpusClosed
  /\ writer = "free"
  /\ writer' = "corpus"
  /\ corpusReq' = kind
  /\ UNCHANGED << corpusJob, corpusPc, corpusDocs, corpusCancel, corpusClosed,
                  history, corpusIssued, corpusAsked >>

\* The finally block without a hand-over: a preview, an unreadable manifest, an
\* empty selection or an unconfirmed index.
RequestEnds ==
  /\ corpusReq # "idle"
  /\ corpusReq' = "idle"
  /\ writer' = "free"
  /\ UNCHANGED << corpusJob, corpusPc, corpusDocs, corpusCancel, corpusClosed,
                  history, corpusIssued, corpusAsked >>

NewJob(index, n) ==
  [id |-> corpusIssued + 1, state |-> "running", done |-> FALSE,
   index |-> index, selected |-> n, report |-> NoReport, failed |-> 0]

CancelAtStart_kept == corpusCancel
CancelAtStart == FALSE

CreateJob(index, n) ==
  /\ corpusReq = "start"
  /\ corpusIssued < MaxBuilds
  /\ corpusIssued' = corpusIssued + 1
  /\ corpusCancel' = CancelAtStart
  /\ corpusJob' = NewJob(index, n)
  /\ corpusDocs' = [seen |-> 0, failed |-> 0]
  /\ corpusReq' = "idle"
  /\ UNCHANGED << corpusClosed, corpusAsked >>

\* The history is written, the thread runs and the lock is handed to it.
StartWorker(index, n) ==
  /\ CreateJob(index, n)
  /\ history' = corpusJob'
  /\ corpusPc' = "build"
  /\ UNCHANGED writer

StartFails_keepsLock(index, n) ==
  /\ CreateJob(index, n)
  /\ corpusPc' = "unstarted"
  /\ UNCHANGED << writer, history >>

\* The history cannot be written: the exception leaves through finally, with
\* _job and _thread already replaced.
StartFails(index, n) ==
  /\ CreateJob(index, n)
  /\ corpusPc' = "unstarted"
  /\ writer' = "free"
  /\ UNCHANGED history

Cancellable_anyState(id) == corpusJob.id = id
Cancellable(id) == corpusJob.id = id /\ corpusJob.state \in Active

CancelBuild(id) ==
  /\ JobLockFree
  /\ id # 0
  /\ Cancellable(id)
  /\ corpusCancel' = TRUE
  /\ corpusJob' = [corpusJob EXCEPT !.state = "cancelling"]
  /\ corpusAsked' = corpusAsked \union {id}
  /\ UNCHANGED << writer, corpusReq, corpusPc, corpusDocs, corpusClosed,
                  history, corpusIssued >>

\* The first half of close(), under _lock; the caller then joins the thread.
CloseCorpus ==
  /\ JobLockFree
  /\ ~corpusClosed
  /\ corpusClosed' = TRUE
  /\ corpusCancel' = TRUE
  /\ UNCHANGED << writer, corpusReq, corpusJob, corpusPc, corpusDocs, history,
                  corpusIssued, corpusAsked >>

-----------------------------------------------------------------------------
(* The worker thread *)

Keep == UNCHANGED << writer, corpusReq, corpusClosed, corpusIssued, corpusAsked,
                     corpusCancel >>

DocumentsLeft_offByOne == corpusDocs.seen <= corpusJob.selected
DocumentsLeft == corpusDocs.seen < corpusJob.selected

\* Head of the loop over manifests: an unlocked read of _cancel.
CheckDocument ==
  /\ corpusPc = "build"
  /\ corpusPc' = IF ~corpusCancel /\ DocumentsLeft THEN "doc" ELSE "report"
  /\ Keep /\ UNCHANGED << corpusJob, corpusDocs, history >>

\* One document is processed, unchanged or recorded as a failure.
BuildDocument ==
  /\ corpusPc = "doc"
  /\ \E failures \in {0, 1} :
       corpusDocs' = [seen |-> corpusDocs.seen + 1,
                      failed |-> corpusDocs.failed + failures]
  /\ corpusPc' = "build"
  /\ Keep /\ UNCHANGED << corpusJob, history >>

\* The runner raises before its loop (adapters) or in a document, or the report
\* cannot be saved: the build stops where it is.
BuildFails ==
  /\ \/ corpusPc \in {"doc", "report"}
     \/ corpusPc = "build" /\ corpusDocs.seen = 0
  /\ corpusPc' = "fail"
  /\ Keep /\ UNCHANGED << corpusJob, corpusDocs, history >>

SaveReport ==
  /\ corpusPc = "report"
  /\ corpusPc' = "settle"
  /\ Keep /\ UNCHANGED << corpusJob, corpusDocs, history >>

SettledState_ignoresCancel ==
  IF corpusDocs.failed > 0 THEN "partial" ELSE "completed"
SettledState ==
  IF corpusCancel THEN "cancelled"
  ELSE IF corpusDocs.failed > 0 THEN "partial" ELSE "completed"

AfterJob_onlyOnSuccess ==
  IF corpusJob.index /\ corpusPc = "settle" THEN "refresh" ELSE "record"
AfterJob == IF corpusJob.index THEN "refresh" ELSE "record"

SettleBuild ==
  /\ corpusPc = "settle"
  /\ corpusJob' = [corpusJob EXCEPT !.state = SettledState,
                                    !.report = corpusDocs.seen,
                                    !.failed = corpusDocs.failed]
  /\ corpusPc' = AfterJob
  /\ Keep /\ UNCHANGED << corpusDocs, history >>

FailBuild ==
  /\ corpusPc = "fail"
  /\ corpusJob' = [corpusJob EXCEPT !.state = "failed"]
  /\ corpusPc' = AfterJob
  /\ Keep /\ UNCHANGED << corpusDocs, history >>

\* controller.refresh_backend() waits for controller.lock, which a request
\* inside execute() holds.
RefreshBackend ==
  /\ corpusPc = "refresh"
  /\ corpusReq = "idle"
  /\ corpusPc' = "record"
  /\ Keep /\ UNCHANGED << corpusJob, corpusDocs, history >>

Finished == [corpusJob EXCEPT !.done = TRUE]

\* The finally block, under _lock: finished_at and the last history write, whose
\* failure turns the job into a failed one.
RecordEnd ==
  /\ corpusPc = "record"
  /\ JobLockFree
  /\ \/ corpusJob' = Finished /\ history' = Finished
     \/ corpusJob' = [Finished EXCEPT !.state = "failed"] /\ UNCHANGED history
  /\ corpusPc' = "release"
  /\ Keep /\ UNCHANGED corpusDocs

ReleaseWriter ==
  /\ corpusPc = "release"
  /\ writer' = "free"
  /\ corpusPc' = "exit"
  /\ UNCHANGED << corpusReq, corpusClosed, corpusIssued, corpusAsked,
                  corpusCancel, corpusJob, corpusDocs, history >>

ExitCorpus ==
  /\ corpusPc = "exit"
  /\ corpusPc' = "dead"
  /\ Keep /\ UNCHANGED << corpusJob, corpusDocs, history >>

CorpusCommands ==
  \/ \E kind \in {"preview", "start"} : Request(kind)
  \/ RequestEnds
  \/ \E index \in BOOLEAN, n \in 1..MaxDocs :
       StartWorker(index, n) \/ StartFails(index, n)
  \/ \E id \in 1..MaxBuilds : CancelBuild(id)

\* All of the worker but its call of the controller.
BuildStep ==
  \/ CheckDocument \/ BuildDocument \/ BuildFails \/ SaveReport \/ SettleBuild
  \/ FailBuild \/ RecordEnd \/ ReleaseWriter \/ ExitCorpus

CorpusWorker == BuildStep \/ RefreshBackend

-----------------------------------------------------------------------------
(* On its own: the crawler is an arbitrary user of the writer lock, and the *)
(* process may die and come back at any point.                              *)

OtherWriter ==
  /\ writer \in {"free", "crawl"}
  /\ writer' = IF writer = "free" THEN "crawl" ELSE "free"
  /\ UNCHANGED corpusVars

Restart ==
  /\ CorpusBoot(history)
  /\ writer' = "free"
  /\ UNCHANGED << history, corpusIssued, corpusAsked >>

Init == writer = "free" /\ CorpusInit

Next == CorpusCommands \/ CloseCorpus \/ CorpusWorker \/ OtherWriter \/ Restart

Spec == Init /\ [][Next]_vars

\* The worker and the request threads are operating-system threads whose waits
\* are bounded; a request that has begun runs to its end.
FairSpec ==
  /\ Spec
  /\ WF_vars(CorpusWorker)
  /\ WF_vars(RequestEnds)

-----------------------------------------------------------------------------
(* Properties *)

\* writer_lock is the corpus manager's exactly while a request is inside the
\* locked part of execute() or a started worker is before the release at the end
\* of _run: the hand-over between the two neither leaks nor drops it.
WriterHandedOver ==
  (writer = "corpus") <=> (corpusReq # "idle" \/ corpusPc \in Working)

\* A finished job says what its build did: "completed" only if all the selected
\* documents were gone through and none failed, "partial" only with a failure
\* among all of them; a cancelled loop or an exception cannot pass for either.
FinishedBuildIsHonest ==
  corpusJob.done =>
    /\ corpusJob.state \notin Active
    /\ corpusJob.state \in {"completed", "partial"} /\ corpusJob.id # 0
         => corpusJob.report = corpusJob.selected
    /\ corpusJob.state = "completed" => corpusJob.failed = 0
    /\ corpusJob.state = "partial" => corpusJob.failed > 0

\* An accepted cancellation ends in "cancelled", or in "failed" when the build
\* or its last write broke as well, and never in success.
CancelIsHonoured ==
  corpusJob.done /\ corpusJob.id \in corpusAsked
    => corpusJob.state \in {"cancelled", "failed"}

\* A cancellation never reaches a later job through the shared event: in the
\* life of one process (after a restart the worker is "none" and the record may
\* be that of a shutdown) a job ends "cancelled" only if it was asked to.
NoStaleCancel ==
  corpusJob.done /\ corpusJob.state = "cancelled"
    => corpusJob.id \in corpusAsked \/ corpusClosed \/ corpusPc = "none"

\* The outcome of a finished job is final: neither later commands, nor close(),
\* nor a crash and a restart at any later point (which reads the history file
\* back, whether or not its last write succeeded) report another one for it.
OutcomeIsFinal ==
  [][corpusJob.done /\ corpusJob'.id = corpusJob.id
       => corpusJob'.done /\ corpusJob'.state = corpusJob.state]_vars

\* The lock always comes back, whatever fails on the way.
WriterComesBack == writer = "corpus" ~> writer # "corpus"

=============================================================================
