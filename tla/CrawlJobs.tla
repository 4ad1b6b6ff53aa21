------------------------------ MODULE CrawlJobs ------------------------------
(***************************************************************************)
(* The operator's crawl jobs: class CrawlManager of                        *)
(* src/taxguide/crawling/management.py.                                    *)
(*                                                                         *)
(* Request threads call execute() (get, status, start, cancel) while one   *)
(* background thread runs _run().  They share the job record, which is     *)
(* guarded by _lock, and the Event _cancel, which is not: the worker polls *)
(* it between steps.  writer_lock is a non-blocking mutex that the corpus  *)
(* manager also takes (CorpusJobs), so it is a variable of both modules.   *)
(*                                                                         *)
(* Every critical section of _lock is one action.  What a section finds on *)
(* the site is abstracted to the outcome of its traversal.                 *)
(***************************************************************************)
EXTENDS Naturals

CONSTANTS
  Source,     \* identifiers of the source catalog
  MaxPages,   \* page budget of a section, CrawlCommand.max_pages
  MaxCrawls   \* bound on the jobs of one behaviour (job ids are 1..MaxCrawls)

ASSUME MaxPagesAssumption == MaxPages \in Nat \ {0}
ASSUME MaxCrawlsAssumption == MaxCrawls \in Nat

VARIABLES
  writer,         \* who holds writer_lock
  crawlJob,       \* _job, as CrawlView returns it
  crawlPc,        \* where the worker thread is
  crawlAttempts,  \* requests the section under way has attempted
  crawlCancel,    \* the Event _cancel
  crawlClosed,    \* _closed
  crawlAsked      \* history: the ids whose cancellation was accepted

crawlVars == << crawlJob, crawlPc, crawlAttempts, crawlCancel, crawlClosed,
                crawlAsked >>
vars == << writer, crawlVars >>

Writer == {"free", "crawl", "corpus"}
SectionState ==
  {"pending", "running", "completed", "partial", "failed", "cancelled"}
CrawlState ==
  {"running", "cancelling", "completed", "partial", "failed", "cancelled"}

\* The points of _run and _crawl between which another thread may act.
Working == {"check", "enter", "visit", "fetch", "settle", "finally", "release"}
CrawlPc == {"none", "exit", "dead"} \union Working

CrawlJob == [id : 0..MaxCrawls, state : CrawlState, done : BOOLEAN,
             sections : [Source -> SectionState \union {"absent"}]]

\* id 0 stands for "no job yet"; a section outside the command is "absent".
NoCrawl == [id |-> 0, state |-> "completed", done |-> TRUE,
            sections |-> [s \in Source |-> "absent"]]

CrawlTypeOK ==
  /\ writer \in Writer
  /\ crawlJob \in CrawlJob
  /\ crawlPc \in CrawlPc
  /\ crawlAttempts \in 0..MaxPages
  /\ crawlCancel \in BOOLEAN
  /\ crawlClosed \in BOOLEAN
  /\ crawlAsked \subseteq 1..MaxCrawls

CrawlInit ==
  /\ crawlJob = NoCrawl
  /\ crawlPc = "none"
  /\ crawlAttempts = 0
  /\ crawlCancel = FALSE
  /\ crawlClosed = FALSE
  /\ crawlAsked = {}

\* A new process: jobs live in memory only.
CrawlBoot ==
  /\ crawlJob' = NoCrawl
  /\ crawlPc' = "none"
  /\ crawlAttempts' = 0
  /\ crawlCancel' = FALSE
  /\ crawlClosed' = FALSE
  /\ crawlAsked' = {}

Selected == {s \in Source : crawlJob.sections[s] # "absent"}
InState(st) == {s \in Source : crawlJob.sections[s] = st}

-----------------------------------------------------------------------------
(* Commands of request threads *)

\* _thread is None or no longer alive, and close() has not begun.
\* (Definitions named X_y before X are faulty variants of X for mutation runs.)
NoLiveThread == crawlPc \in {"none", "dead"}
CanStart_afterClose == NoLiveThread /\ writer = "free"
CanStart_ignoresLock == ~crawlClosed /\ NoLiveThread
CanStart == ~crawlClosed /\ NoLiveThread /\ writer = "free"

\* The event that start() leaves for the new worker: _cancel.clear().
CancelAtStart_kept == crawlCancel
CancelAtStart == FALSE

NewCrawl(S) ==
  [id |-> crawlJob.id + 1, state |-> "running", done |-> FALSE,
   sections |-> [s \in Source |-> IF s \in S THEN "pending" ELSE "absent"]]

\* start(): refused with a conflict when CanStart is false.
Start(S) ==
  /\ CanStart
  /\ crawlJob.id < MaxCrawls
  /\ S # {}
  /\ writer' = "crawl"
  /\ crawlCancel' = CancelAtStart
  /\ crawlJob' = NewCrawl(S)
  /\ crawlPc' = "check"
  /\ UNCHANGED << crawlAttempts, crawlClosed, crawlAsked >>

\* execute(cancel): another id is a conflict, a job past "cancelling" keeps
\* its state and the command only reads it back.
Cancellable_anyState(id) == crawlJob.id = id
Cancellable(id) ==
  crawlJob.id = id /\ crawlJob.state \in {"running", "cancelling"}

Cancel(id) ==
  /\ id # 0
  /\ Cancellable(id)
  /\ crawlCancel' = TRUE
  /\ crawlJob' = [crawlJob EXCEPT !.state = "cancelling"]
  /\ crawlAsked' = crawlAsked \union {id}
  /\ UNCHANGED << writer, crawlPc, crawlAttempts, crawlClosed >>

\* The first half of close(); the caller then joins the thread.
CloseCrawl ==
  /\ ~crawlClosed
  /\ crawlClosed' = TRUE
  /\ crawlCancel' = TRUE
  /\ UNCHANGED << writer, crawlJob, crawlPc, crawlAttempts, crawlAsked >>

-----------------------------------------------------------------------------
(* The worker thread *)

Mark(s, st) == [crawlJob EXCEPT !.sections[s] = st]

\* Head of the loop over sections: an unlocked read of _cancel.
CheckCancel ==
  /\ crawlPc = "check"
  /\ crawlPc' = IF crawlCancel \/ InState("pending") = {}
                THEN "settle" ELSE "enter"
  /\ UNCHANGED << writer, crawlJob, crawlAttempts, crawlCancel, crawlClosed,
                  crawlAsked >>

\* The catalog order of the command is abstracted: any pending section.
EnterSection ==
  /\ crawlPc = "enter"
  /\ \E s \in InState("pending") : crawlJob' = Mark(s, "running")
  /\ crawlAttempts' = 0
  /\ crawlPc' = "visit"
  /\ UNCHANGED << writer, crawlCancel, crawlClosed, crawlAsked >>

\* _crawl stores the result of the traversal.
EndSection(outcome) ==
  /\ \E s \in InState("running") : crawlJob' = Mark(s, outcome)
  /\ crawlPc' = "check"
  /\ UNCHANGED << writer, crawlAttempts, crawlCancel, crawlClosed, crawlAsked >>

\* Head of the page loop: a set event leaves the queue as skipped pages.
VisitCancelled ==
  /\ crawlPc = "visit"
  /\ crawlCancel
  /\ EndSection("partial")

VisitPage ==
  /\ crawlPc = "visit"
  /\ ~crawlCancel
  /\ crawlAttempts' = crawlAttempts + 1
  /\ crawlPc' = "fetch"
  /\ UNCHANGED << writer, crawlJob, crawlCancel, crawlClosed, crawlAsked >>

\* The page is saved, skipped or failed and the queue holds another one.
BudgetLeft_offByOne == crawlAttempts <= MaxPages
BudgetLeft == crawlAttempts < MaxPages

NextPage ==
  /\ crawlPc = "fetch"
  /\ BudgetLeft
  /\ crawlPc' = "visit"
  /\ UNCHANGED << writer, crawlJob, crawlAttempts, crawlCancel, crawlClosed,
                  crawlAsked >>

\* The queue is empty or the page budget is spent.
SectionDone ==
  /\ crawlPc = "fetch"
  /\ \E outcome \in {"completed", "partial"} : EndSection(outcome)

\* validate() or sleep() sees the event in the middle of a page: _Cancelled.
FetchCancelled_escapes ==
  /\ crawlPc = "fetch"
  /\ crawlCancel
  /\ crawlPc' = "dead"
  /\ UNCHANGED << writer, crawlJob, crawlAttempts, crawlCancel, crawlClosed,
                  crawlAsked >>

FetchCancelled ==
  /\ crawlPc = "fetch"
  /\ crawlCancel
  /\ crawlPc' = "finally"
  /\ UNCHANGED << writer, crawlJob, crawlAttempts, crawlCancel, crawlClosed,
                  crawlAsked >>

\* Any other exception: an invalid seed before the first page, an annual link
\* outside the source, a storage or client failure.
CrawlFails ==
  /\ \/ crawlPc = "fetch"
     \/ crawlPc = "visit" /\ crawlAttempts = 0
  /\ crawlJob' = [crawlJob EXCEPT !.state = "failed"]
  /\ crawlPc' = "finally"
  /\ UNCHANGED << writer, crawlAttempts, crawlCancel, crawlClosed, crawlAsked >>

\* The state the loop leaves behind, whether it was exhausted or broken.
SettledState == IF InState("partial") # {} THEN "partial" ELSE "completed"

Settle ==
  /\ crawlPc = "settle"
  /\ crawlJob' = [crawlJob EXCEPT !.state = SettledState]
  /\ crawlPc' = "finally"
  /\ UNCHANGED << writer, crawlAttempts, crawlCancel, crawlClosed, crawlAsked >>

\* The locked part of the finally block.
FinalState_keepsSettled ==
  IF crawlCancel /\ crawlJob.state = "cancelling"
  THEN "cancelled" ELSE crawlJob.state
FinalState == IF crawlCancel THEN "cancelled" ELSE crawlJob.state
FinalSection(s) ==
  IF crawlJob.sections[s] \in {"pending", "running"}
  THEN IF crawlCancel THEN "cancelled" ELSE "failed"
  ELSE crawlJob.sections[s]

Finally ==
  /\ crawlPc = "finally"
  /\ crawlJob' = [crawlJob EXCEPT
                    !.state = FinalState,
                    !.sections = [s \in Source |-> FinalSection(s)],
                    !.done = TRUE]
  /\ crawlPc' = "release"
  /\ UNCHANGED << writer, crawlAttempts, crawlCancel, crawlClosed, crawlAsked >>

Release ==
  /\ crawlPc = "release"
  /\ writer' = "free"
  /\ crawlPc' = "exit"
  /\ UNCHANGED << crawlJob, crawlAttempts, crawlCancel, crawlClosed,
                  crawlAsked >>

\* Between the release and the end of the thread is_alive() still holds.
Exit ==
  /\ crawlPc = "exit"
  /\ crawlPc' = "dead"
  /\ UNCHANGED << writer, crawlJob, crawlAttempts, crawlCancel, crawlClosed,
                  crawlAsked >>

CrawlWorker ==
  \/ CheckCancel \/ EnterSection \/ VisitCancelled \/ VisitPage \/ NextPage
  \/ SectionDone \/ FetchCancelled \/ CrawlFails \/ Settle \/ Finally
  \/ Release \/ Exit

CrawlCommands ==
  \/ \E S \in SUBSET Source : Start(S)
  \/ \E id \in 1..MaxCrawls : Cancel(id)

-----------------------------------------------------------------------------
(* On its own: the corpus manager is an arbitrary user of the writer lock. *)

OtherWriter ==
  /\ writer \in {"free", "corpus"}
  /\ writer' = IF writer = "free" THEN "corpus" ELSE "free"
  /\ UNCHANGED crawlVars

Init == writer = "free" /\ CrawlInit

Next == CrawlCommands \/ CloseCrawl \/ CrawlWorker \/ OtherWriter

Spec == Init /\ [][Next]_vars

\* The worker is an operating-system thread whose every wait is bounded (socket
\* timeouts, a capped Retry-After), so it is never blocked for ever.
FairSpec == Spec /\ WF_vars(CrawlWorker)

-----------------------------------------------------------------------------
(* Properties *)

\* writer_lock is the crawler's exactly while its worker is between start() and
\* the release at the end of _run: no exit of _run leaks the lock, and no job
\* runs on without it.
WriterHeldByWorker == (writer = "crawl") <=> (crawlPc \in Working)

\* What a finished job tells the operator is what its sections did: "completed"
\* only if every selected section was, "partial" only with a section that left
\* pages out, "failed" only with a section that broke, and no section is left
\* pending or running.  The state is decided in three places (_crawl, the
\* handlers and the finally block) around a cancellation at any moment.
FinishedCrawlIsHonest ==
  crawlJob.done =>
    /\ crawlJob.state \notin {"running", "cancelling"}
    /\ Selected \intersect (InState("pending") \union InState("running")) = {}
    /\ crawlJob.state = "completed" => Selected = InState("completed")
    /\ crawlJob.state = "partial" => InState("partial") # {}
    /\ crawlJob.state = "failed" => InState("failed") # {}

\* An accepted cancellation is never lost: whatever the worker does between the
\* request and its end, the job finishes "cancelled".
CancelIsHonoured ==
  crawlJob.done /\ crawlJob.id \in crawlAsked => crawlJob.state = "cancelled"

\* The event is shared by successive jobs; a cancellation never reaches a later
\* one: a job ends "cancelled" only if it was asked to, or at shutdown.
NoStaleCancel ==
  crawlJob.done /\ crawlJob.state = "cancelled"
    => crawlJob.id \in crawlAsked \/ crawlClosed

\* Once finished_at is set the record of that job never changes again, although
\* the worker, commands and close() still run.
FinishedCrawlIsFrozen ==
  [][crawlJob.done /\ crawlJob'.id = crawlJob.id => crawlJob' = crawlJob]_vars

\* The lock always comes back: a job that was cancelled, failed or ran out of
\* sections reaches the release at the end of _run.
WriterComesBack == writer = "crawl" ~> writer # "crawl"

=============================================================================
