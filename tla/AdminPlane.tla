----------------------------- MODULE AdminPlane -----------------------------
(***************************************************************************)
(* One API process: the crawl manager, the corpus manager and the query    *)
(* backend share the writer lock, the index and the lifespan of            *)
(* src/taxguide/api/app.py, which starts and stops them, and the process   *)
(* may crash and be started again.                                         *)
(***************************************************************************)
EXTENDS Naturals

CONSTANTS Source, MaxPages, MaxCrawls, MaxDocs, MaxBuilds, Key, NoKey

ASSUME NoKeyAssumption == NoKey \notin Key
ASSUME CrawlBoundsAssumption == MaxPages \in Nat \ {0} /\ MaxCrawls \in Nat
ASSUME CorpusBoundsAssumption == MaxDocs \in Nat \ {0} /\ MaxBuilds \in Nat

VARIABLES
  writer,
  crawlJob, crawlPc, crawlAttempts, crawlCancel, crawlClosed, crawlAsked,
  corpusReq, corpusJob, corpusPc, corpusDocs, corpusCancel, corpusClosed,
  history, corpusIssued, corpusAsked,
  cache, loading,
  api,      \* where the process is in its lifespan
  services  \* does the supervisor own a running service: "none" | "owned"

Crawl == INSTANCE CrawlJobs
Corpus == INSTANCE CorpusJobs
Backend == INSTANCE ServingBackend

crawlVars == << crawlJob, crawlPc, crawlAttempts, crawlCancel, crawlClosed,
                crawlAsked >>
corpusVars == << corpusReq, corpusJob, corpusPc, corpusDocs, corpusCancel,
                 corpusClosed, history, corpusIssued, corpusAsked >>
backendVars == << cache, loading >>
lifeVars == << api, services >>
vars == << writer, crawlVars, corpusVars, backendVars, lifeVars >>

\* The finally block of lifespan, one await after the other.  "aborted": one of
\* them raised, and the interpreter waits for the threads that still run.
Stopping == {"closeCorpus", "joinCorpus", "closeCrawl", "joinCrawl", "supervisor"}
Running == {"serving"} \union Stopping
Api == {"aborted", "down"} \union Running

Init ==
  /\ writer = "free"
  /\ Crawl!CrawlInit
  /\ Corpus!CorpusInit
  /\ Backend!BackendInit
  /\ api = "serving"
  /\ services = "none"

-----------------------------------------------------------------------------
(* Requests.  A request thread may outlive the connection it came from, so *)
(* commands are accepted until the process has left its lifespan.          *)

CrawlCommand ==
  /\ api \in Running
  /\ Crawl!CrawlCommands
  /\ UNCHANGED << corpusVars, backendVars, lifeVars >>

CorpusCommand ==
  /\ api \in Running
  /\ Corpus!CorpusCommands
  /\ UNCHANGED << crawlVars, backendVars, lifeVars >>

Query ==
  /\ api \in Running
  /\ Backend!Queries
  /\ UNCHANGED << writer, crawlVars, corpusVars, lifeVars >>

\* RuntimeController.execute under controller.lock: save or restore publishes a
\* new backend, start or prepare launches a service, stop ends it.
SaveSettings ==
  /\ api \in Running
  /\ corpusReq = "idle"
  /\ services # "owned"
  /\ Backend!Replace
  /\ UNCHANGED << writer, crawlVars, corpusVars, lifeVars >>

SwitchService ==
  /\ api \in Running
  /\ corpusReq = "idle"
  /\ \/ services = "none" /\ services' = "owned"
     \/ services = "owned" /\ services' = "none"
  /\ UNCHANGED << writer, crawlVars, corpusVars, backendVars, api >>

-----------------------------------------------------------------------------
(* Worker threads *)

ThreadsRun == api # "down"

CrawlStep ==
  /\ ThreadsRun
  /\ Crawl!CrawlWorker
  /\ UNCHANGED << corpusVars, backendVars, lifeVars >>

\* Inside a document an indexing job upserts batches and prunes points.
WriteIndex ==
  /\ ThreadsRun
  /\ corpusPc = "doc"
  /\ corpusJob.index
  /\ Backend!IndexChanges
  /\ UNCHANGED << writer, crawlVars, corpusVars, lifeVars >>

RefreshStep ==
  /\ Corpus!RefreshBackend
  /\ Backend!Replace

CorpusStep ==
  /\ ThreadsRun
  /\ \/ RefreshStep
     \/ Corpus!BuildStep /\ UNCHANGED backendVars
  /\ UNCHANGED << crawlVars, lifeVars >>

-----------------------------------------------------------------------------
(* The lifespan *)

\* The server has drained its connections and resumes lifespan after yield.
Shutdown ==
  /\ api = "serving"
  /\ api' = "closeCorpus"
  /\ UNCHANGED << writer, crawlVars, corpusVars, backendVars, services >>

CloseCorpus ==
  /\ api = "closeCorpus"
  /\ Corpus!CloseCorpus
  /\ api' = "joinCorpus"
  /\ UNCHANGED << crawlVars, backendVars, services >>

\* Thread.join raises when the thread was never started, and the rest of the
\* finally block is skipped; otherwise it waits for the thread's end.
JoinCorpus ==
  /\ api = "joinCorpus"
  /\ \/ corpusPc = "unstarted" /\ api' = "aborted"
     \/ corpusPc \in {"none", "dead"} /\ api' = "closeCrawl"
  /\ UNCHANGED << writer, crawlVars, corpusVars, backendVars, services >>

CloseCrawl ==
  /\ api = "closeCrawl"
  /\ Crawl!CloseCrawl
  /\ api' = "joinCrawl"
  /\ UNCHANGED << corpusVars, backendVars, services >>

JoinCrawl ==
  /\ api = "joinCrawl"
  /\ crawlPc \in {"none", "dead"}
  /\ api' = "supervisor"
  /\ UNCHANGED << writer, crawlVars, corpusVars, backendVars, services >>

\* supervisor.close() and the release of the settings lock.  (A service that
\* cannot be stopped is reported and left to the operator.)
CloseSupervisor ==
  /\ api = "supervisor"
  /\ services' = "none"
  /\ api' = "down"
  /\ UNCHANGED << writer, crawlVars, corpusVars, backendVars >>

\* After an aborted shutdown the interpreter joins the live worker threads.
ExitAborted ==
  /\ api = "aborted"
  /\ crawlPc \in {"none", "dead"}
  /\ api' = "down"
  /\ UNCHANGED << writer, crawlVars, corpusVars, backendVars, services >>

Lifespan == CloseCorpus \/ JoinCorpus \/ CloseCrawl \/ JoinCrawl
            \/ CloseSupervisor \/ ExitAborted

\* A new process, after an exit or a crash at any point: every in-memory part
\* starts afresh, the last preparation job comes from the history file, crawl jobs
\* are forgotten, and services that the old process started have no owner.
Restart ==
  /\ api' = "serving"
  /\ writer' = "free"
  /\ Crawl!CrawlBoot
  /\ Corpus!CorpusBoot(history)
  /\ Backend!Replace
  /\ services' = "none"
  /\ UNCHANGED << history, corpusIssued, corpusAsked >>

Next ==
  \/ CrawlCommand \/ CorpusCommand \/ Query \/ SaveSettings \/ SwitchService
  \/ CrawlStep \/ CorpusStep \/ WriteIndex
  \/ Shutdown \/ Lifespan \/ Restart

Spec == Init /\ [][Next]_vars

\* Threads of the operating system with bounded waits, and a lifespan that the
\* event loop resumes; nothing makes an operator act or a process restart.  The
\* close() of the corpus manager competes for _lock with requests; the server has
\* stopped accepting connections, so they are finitely many: strong fairness.
Fairness ==
  /\ WF_vars(CrawlStep)
  /\ WF_vars(CorpusStep)
  /\ WF_vars(Lifespan)
  /\ SF_vars(CloseCorpus)
  /\ WF_vars(CorpusCommand /\ Corpus!RequestEnds)
FairSpec == Spec /\ Fairness

-----------------------------------------------------------------------------
(* Properties *)

\* The users of the capture directory, read off the threads and not off the lock.
InUse ==
  (IF crawlPc \in Crawl!Working THEN {"crawl"} ELSE {})
    \union (IF corpusReq # "idle" \/ corpusPc \in Corpus!Working
            THEN {"corpus"} ELSE {})

Single == INSTANCE SingleWriter WITH User <- {"crawl", "corpus"}, using <- InUse

\* Acquisition and preparation exclude each other (docs/crawler-ui.md, "La
\* adquisicion y la preparacion web se excluyen"): the threads of both managers,
\* with their hand-overs, failures, crashes and restarts, implement SingleWriter.
OneWriterAtATime == Single!Spec

\* ADR 0017: "Index writes refresh lazy query backends so new requests rebuild
\* sparse corpus caches, including after partial failures".  Outside a running
\* preparation no new query can be served by chunks older than the index, although
\* backends load concurrently with writes and settings may replace them meanwhile.
QueriesSeeTheIndex ==
  corpusPc \notin Corpus!Working => Backend!BackendIsCurrent

\* A process that has left its lifespan, in order or not, leaves no worker
\* or request behind, so a process started next is the only writer.
NothingRunsAfterShutdown ==
  api = "down" => InUse = {}

\* A shutdown ends: close() never waits for a worker that waits for close().
ShutdownEnds == api \in Stopping ~> api \notin Stopping

\* docs/runtime-management.md: "Un cierre normal de la API detiene sus servicios".
ShutdownStopsServices == api = "down" => services # "owned"

=============================================================================
