--------------------------- MODULE CrawlJobsProofs ---------------------------
(***************************************************************************)
(* Proofs about CrawlJobs for any catalog, page budget and number of jobs. *)
(* CrawlInv is the inductive invariant; it splits into what the lock and   *)
(* the record look like at each point of the worker (Placed), what the     *)
(* sections look like (Sectioned), who set the event (Evented) and the     *)
(* three properties of finished jobs.                                      *)
(***************************************************************************)
EXTENDS CrawlJobs, TLAPS

\* The points of the worker before its finally block.
BeforeFinally == {"check", "enter", "visit", "fetch", "settle"}

\* A record is finished exactly when no worker is before the end of its finally
\* block, and up to there it is active unless the loop or a handler settled it.
Placed ==
  /\ crawlJob.done <=> crawlPc \in {"none", "release", "exit", "dead"}
  /\ crawlPc \in BeforeFinally => crawlJob.state \in {"running", "cancelling"}

\* Sections up to the finally block: one runs exactly during its traversal, and
\* the loop is left early only with the event set.
Sectioned ==
  /\ ~crawlJob.done =>
       \A s \in Source : crawlJob.sections[s] \notin {"failed", "cancelled"}
  /\ crawlPc \in {"visit", "fetch"} =>
       \E s \in Source : crawlJob.sections[s] = "running"
  /\ crawlPc \in {"visit", "fetch"} =>
       \A s, t \in Source :
         /\ crawlJob.sections[s] = "running"
         /\ crawlJob.sections[t] = "running"
         => s = t
  /\ crawlPc \in {"check", "enter", "settle"} =>
       \A s \in Source : crawlJob.sections[s] # "running"
  /\ crawlPc = "settle" /\ ~crawlCancel =>
       \A s \in Source : crawlJob.sections[s] # "pending"
  /\ crawlPc = "finally" /\ ~crawlCancel =>
       /\ crawlJob.state \in {"completed", "partial", "failed"}
       /\ crawlJob.state = "completed" =>
            \A s \in Source : crawlJob.sections[s] \in {"absent", "completed"}
       /\ crawlJob.state = "partial" =>
            \E s \in Source : crawlJob.sections[s] = "partial"
       /\ crawlJob.state = "failed" =>
            \E s \in Source : crawlJob.sections[s] = "running"

\* While a job is unfinished the event is set exactly for its own cancellation
\* or for the shutdown.
Evented ==
  /\ \A id \in crawlAsked : id <= crawlJob.id
  /\ ~crawlJob.done /\ crawlJob.id \in crawlAsked => crawlCancel
  /\ ~crawlJob.done /\ crawlCancel => crawlJob.id \in crawlAsked \/ crawlClosed

\* A page is visited only within the budget.
Budgeted == crawlPc = "visit" => crawlAttempts < MaxPages

\* FinishedCrawlIsHonest section by section.
Honest ==
  crawlJob.done =>
    /\ crawlJob.state \notin {"running", "cancelling"}
    /\ \A s \in Source : crawlJob.sections[s] \notin {"pending", "running"}
    /\ crawlJob.state = "completed" =>
         \A s \in Source : crawlJob.sections[s] \in {"absent", "completed"}
    /\ crawlJob.state = "partial" =>
         \E s \in Source : crawlJob.sections[s] = "partial"
    /\ crawlJob.state = "failed" =>
         \E s \in Source : crawlJob.sections[s] = "failed"

CrawlInv ==
  /\ WriterHeldByWorker
  /\ Placed
  /\ Sectioned
  /\ Evented
  /\ Honest
  /\ CancelIsHonoured
  /\ NoStaleCancel

-----------------------------------------------------------------------------

\* The initial record is well typed.
LEMMA NoCrawlType == NoCrawl \in CrawlJob
<1>1. [s \in Source |-> "absent"] \in [Source -> SectionState \union {"absent"}]
  OBVIOUS
<1>2. 0 \in 0..MaxCrawls
  BY MaxCrawlsAssumption
<1>3. "completed" \in CrawlState
  BY DEF CrawlState
<1> QED
  BY <1>1, <1>2, <1>3 DEF NoCrawl, CrawlJob

\* A step keeps every value in its range and the page counter in its budget.
LEMMA CrawlTypeStep ==
  CrawlTypeOK /\ Budgeted /\ [Next]_vars => CrawlTypeOK' /\ Budgeted'
<1> USE MaxPagesAssumption, MaxCrawlsAssumption
<1> SUFFICES ASSUME CrawlTypeOK, Budgeted, [Next]_vars
             PROVE  CrawlTypeOK' /\ Budgeted'
  OBVIOUS
<1> USE DEF CrawlTypeOK, Budgeted, Writer, CrawlPc, Working
<1>1. ASSUME NEW S \in SUBSET Source, Start(S)
      PROVE  CrawlTypeOK' /\ Budgeted'
  <2>1. NewCrawl(S) \in CrawlJob
    <3>1. crawlJob.id + 1 \in 0..MaxCrawls
      BY <1>1 DEF Start, CrawlJob
    <3>2. [s \in Source |-> IF s \in S THEN "pending" ELSE "absent"]
            \in [Source -> SectionState \union {"absent"}]
      BY DEF SectionState
    <3>3. "running" \in CrawlState
      BY DEF CrawlState
    <3> QED
      BY <3>1, <3>2, <3>3 DEF NewCrawl, CrawlJob
  <2> QED
    BY <1>1, <2>1 DEF Start, CancelAtStart
<1>2. ASSUME NEW id \in 1..MaxCrawls, Cancel(id)
      PROVE  CrawlTypeOK' /\ Budgeted'
  BY <1>2 DEF Cancel, CrawlJob, CrawlState, SectionState
<1>3. CASE CloseCrawl
  BY <1>3 DEF CloseCrawl
<1>4. CASE CheckCancel
  BY <1>4 DEF CheckCancel
<1>5. CASE EnterSection
  BY <1>5 DEF EnterSection, Mark, InState, CrawlJob, CrawlState, SectionState
<1>6. ASSUME NEW outcome \in {"completed", "partial"}, EndSection(outcome)
      PROVE  CrawlTypeOK' /\ Budgeted'
  BY <1>6 DEF EndSection, Mark, InState, CrawlJob, CrawlState, SectionState
<1>7. CASE VisitPage
  BY <1>7 DEF VisitPage
<1>8. CASE NextPage
  BY <1>8 DEF NextPage, BudgetLeft
<1>9. CASE FetchCancelled
  BY <1>9 DEF FetchCancelled
<1>10. CASE CrawlFails
  BY <1>10 DEF CrawlFails, CrawlJob, CrawlState, SectionState
<1>11. CASE Settle
  BY <1>11 DEF Settle, SettledState, CrawlJob, CrawlState, SectionState
<1>12. CASE Finally
  BY <1>12 DEF Finally, FinalState, FinalSection, CrawlJob, CrawlState, SectionState
<1>13. CASE Release
  BY <1>13 DEF Release
<1>14. CASE Exit
  BY <1>14 DEF Exit
<1>15. CASE OtherWriter
  BY <1>15 DEF OtherWriter, crawlVars
<1>16. CASE UNCHANGED vars
  BY <1>16 DEF vars, crawlVars
<1> QED
  BY <1>1, <1>2, <1>3, <1>4, <1>5, <1>6, <1>7, <1>8, <1>9, <1>10, <1>11,
     <1>12, <1>13, <1>14, <1>15, <1>16
  DEF Next, CrawlCommands, CrawlWorker, VisitCancelled, SectionDone

\* A new process starts well typed and within the invariant.
LEMMA CrawlInitInv == Init => CrawlTypeOK /\ Budgeted /\ CrawlInv
<1> USE MaxPagesAssumption, MaxCrawlsAssumption
<1> SUFFICES ASSUME Init PROVE CrawlTypeOK /\ Budgeted /\ CrawlInv
  OBVIOUS
<1>1. crawlJob \in CrawlJob
  BY NoCrawlType DEF Init, CrawlInit
<1>2. writer \in Writer /\ crawlPc \in CrawlPc /\ Budgeted
  BY DEF Init, CrawlInit, Writer, CrawlPc, Working, Budgeted
<1>3. crawlAttempts \in 0..MaxPages
  BY DEF Init, CrawlInit
<1>4. crawlAsked \subseteq 1..MaxCrawls
  BY DEF Init, CrawlInit
<1>5. crawlCancel \in BOOLEAN /\ crawlClosed \in BOOLEAN
  BY DEF Init, CrawlInit
<1>6. CrawlInv
  BY DEF Init, CrawlInit, NoCrawl, CrawlInv, WriterHeldByWorker, Placed,
         Sectioned, Evented, Honest, CancelIsHonoured, NoStaleCancel, Working,
         BeforeFinally
<1> QED
  BY <1>1, <1>2, <1>3, <1>4, <1>5, <1>6 DEF CrawlTypeOK

\* Type correctness: every value a command, the worker or the other user of the
\* lock assigns stays within its range, and the page counter within the budget.
THEOREM CrawlTypeCorrect == Spec => []CrawlTypeOK
BY CrawlInitInv, CrawlTypeStep, PTL DEF Spec

\* Every action keeps the invariant.
LEMMA CrawlInvStep ==
  CrawlTypeOK /\ CrawlTypeOK' /\ CrawlInv /\ [Next]_vars => CrawlInv'
<1> SUFFICES ASSUME CrawlTypeOK, CrawlTypeOK', CrawlInv, [Next]_vars
             PROVE  CrawlInv'
  OBVIOUS
<1> USE DEF CrawlInv, WriterHeldByWorker, Placed, Sectioned, Evented, Honest,
            CancelIsHonoured, NoStaleCancel, CrawlTypeOK, CrawlPc, Working,
            Writer, BeforeFinally, CrawlJob
<1>1. ASSUME NEW S \in SUBSET Source, Start(S)
      PROVE  CrawlInv'
  BY <1>1 DEF Start, CanStart, NoLiveThread, CancelAtStart, NewCrawl
<1>2. ASSUME NEW id \in 1..MaxCrawls, Cancel(id)
      PROVE  CrawlInv'
  BY <1>2 DEF Cancel, Cancellable
<1>3. CASE CloseCrawl
  BY <1>3 DEF CloseCrawl
<1>4. CASE CheckCancel
  BY <1>4 DEF CheckCancel, InState
<1>5. CASE EnterSection
  BY <1>5 DEF EnterSection, Mark, InState
<1>6. ASSUME NEW outcome \in {"completed", "partial"}, EndSection(outcome),
             crawlPc \in {"visit", "fetch"}
      PROVE  CrawlInv'
  BY <1>6 DEF EndSection, Mark, InState
<1>7. CASE VisitPage
  BY <1>7 DEF VisitPage
<1>8. CASE NextPage
  BY <1>8 DEF NextPage
<1>9. CASE FetchCancelled
  BY <1>9 DEF FetchCancelled
<1>10. CASE CrawlFails
  BY <1>10 DEF CrawlFails
<1>11. CASE Settle
  BY <1>11 DEF Settle, SettledState, InState, SectionState
<1>12. CASE Finally
  <2> USE <1>12
  <2>1. /\ crawlJob'.done /\ crawlJob'.id = crawlJob.id
        /\ crawlJob'.state = FinalState
        /\ \A s \in Source : crawlJob'.sections[s] = FinalSection(s)
        /\ crawlPc = "finally" /\ crawlPc' = "release"
        /\ UNCHANGED << writer, crawlCancel, crawlClosed, crawlAsked >>
    BY DEF Finally
  <2> HIDE <1>12
  <2>2. WriterHeldByWorker' /\ Placed' /\ Evented'
    BY <2>1
  <2>3. Sectioned'
    BY <2>1
  <2>4. CancelIsHonoured' /\ NoStaleCancel'
    BY <2>1 DEF FinalState
  <2>5. Honest'
    <3>1. CASE crawlCancel
      BY <2>1, <3>1 DEF FinalState, FinalSection, SectionState
    <3>2. CASE ~crawlCancel
      BY <2>1, <3>2 DEF FinalState, FinalSection, SectionState
    <3> QED
      BY <3>1, <3>2
  <2> QED
    BY <2>2, <2>3, <2>4, <2>5
<1>13. CASE Release
  BY <1>13 DEF Release
<1>14. CASE Exit
  BY <1>14 DEF Exit
<1>15. CASE OtherWriter
  BY <1>15 DEF OtherWriter, crawlVars
<1>16. CASE UNCHANGED vars
  BY <1>16 DEF vars, crawlVars
<1> QED
  BY <1>1, <1>2, <1>3, <1>4, <1>5, <1>6, <1>7, <1>8, <1>9, <1>10, <1>11,
     <1>12, <1>13, <1>14, <1>15, <1>16
  DEF Next, CrawlCommands, CrawlWorker, VisitCancelled, SectionDone

\* The invariant holds of every reachable state.
LEMMA CrawlInvariant == Spec => [](CrawlTypeOK /\ CrawlInv)
BY CrawlInitInv, CrawlTypeCorrect, CrawlInvStep, PTL DEF Spec

\* The section-by-section form of the invariant is the property of the runs.
LEMMA HonestIsTheProperty == Honest => FinishedCrawlIsHonest
BY DEF Honest, FinishedCrawlIsHonest, Selected, InState

-----------------------------------------------------------------------------

\* The writer lock is the crawler's exactly while its worker may write: _run
\* neither leaks the lock nor writes without it, whichever way it ends.
THEOREM WriterNeverLeaks == Spec => []WriterHeldByWorker
BY CrawlInvariant, PTL DEF CrawlInv

\* Whatever a cancellation, a failure or a shutdown interrupts, the state of a
\* finished job is what its sections did.
THEOREM FinishedCrawlsAreHonest == Spec => []FinishedCrawlIsHonest
<1>1. CrawlInv => FinishedCrawlIsHonest
  BY HonestIsTheProperty DEF CrawlInv
<1> QED
  BY <1>1, CrawlInvariant, PTL

\* An accepted cancellation always shows in the final state.
THEOREM CancellationsAreHonoured == Spec => []CancelIsHonoured
BY CrawlInvariant, PTL DEF CrawlInv

\* A cancellation never leaks into another job through the shared event.
THEOREM CancellationsDoNotLeak == Spec => []NoStaleCancel
BY CrawlInvariant, PTL DEF CrawlInv

\* No command and no thread changes the record of a finished job.
THEOREM FinishedCrawlsAreFrozen == Spec => FinishedCrawlIsFrozen
<1> DEFINE Frozen ==
      crawlJob.done /\ crawlJob'.id = crawlJob.id => crawlJob' = crawlJob
<1>1. CrawlTypeOK /\ CrawlInv /\ [Next]_vars => Frozen
  <2> SUFFICES ASSUME CrawlTypeOK, CrawlInv, [Next]_vars, crawlJob.done,
                      crawlJob'.id = crawlJob.id
               PROVE  crawlJob' = crawlJob
    OBVIOUS
  <2>1. /\ crawlPc \in {"none", "release", "exit", "dead"}
        /\ crawlJob.state \notin {"running", "cancelling"}
    BY DEF CrawlInv, Placed, Honest
  <2>2. ASSUME NEW S \in SUBSET Source, Start(S)
        PROVE  FALSE
    BY <2>2 DEF Start, NewCrawl, CrawlTypeOK, CrawlJob
  <2>3. ASSUME NEW id \in 1..MaxCrawls, Cancel(id)
        PROVE  FALSE
    BY <2>1, <2>3 DEF Cancel, Cancellable
  <2>4. CASE CloseCrawl \/ OtherWriter \/ UNCHANGED vars
    BY <2>4 DEF CloseCrawl, OtherWriter, vars, crawlVars
  <2>5. CASE CrawlWorker
    BY <2>1, <2>5
    DEF CrawlWorker, CheckCancel, EnterSection, VisitCancelled, VisitPage,
        NextPage, SectionDone, FetchCancelled, CrawlFails, Settle, Finally,
        Release, Exit
  <2> QED
    BY <2>2, <2>3, <2>4, <2>5 DEF Next, CrawlCommands
<1>2. Frozen => [crawlJob.done /\ crawlJob'.id = crawlJob.id
                   => crawlJob' = crawlJob]_vars
  OBVIOUS
<1> QED
  BY <1>1, <1>2, CrawlInvariant, PTL DEF Spec, FinishedCrawlIsFrozen

=============================================================================
