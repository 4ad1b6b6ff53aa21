# A verification model of TaxGuide Norway

TaxGuide Norway (`src/src/taxguide`, Python) answers questions about Norwegian
tax from captured pages of skatteetaten.no. It has two halves:

* an **acquisition and administration plane**: an operator's page starts crawls
  and corpus builds, which run in background threads of the API process, write
  files and a Qdrant collection, and manage local model services;
* a **query path**: a question is classified, its tax year is resolved, chunks
  are retrieved, and a grounded answer is generated or refused.

Both are modelled: the first for its concurrency, its persistence and its failure
handling, the second for what an answer may claim, whatever the models and
services it calls return. Paths below are relative to `src/src/taxguide`.

## 1. Inventory

### Components with state

| Component (file) | State | Operations | Hard behaviour |
| --- | --- | --- | --- |
| CrawlManager (`crawling/management.py`) | `_job`, `_thread`, `_cancel`, `_closed`, `writer_lock` | start, cancel, status, `_run`, close | a cancel at any moment; an Event reused by successive jobs; a lock taken by one thread and released by another |
| CorpusManager (`corpus/management.py`) | `_job`, `_thread`, `_cancel`, `_closed`, `.web-job.json` | preview, start, cancel, `_run`, close, recovery | failing history writes; a restart in mid-job; hand-over of `writer_lock` |
| ConfiguredBackend (`api/backend.py`) | cached retrievers and answer services | retrieve, query | a load overlaps writes to the index |
| RuntimeController, Supervisor (`runtime/`) | settings in memory and on disk, revision, process handles | save, restore, start, stop, prepare, close | stale revisions, failing writes, processes that end by themselves or belong to others |
| API lifespan (`api/app.py`) | which managers are open | startup, shutdown | order of closes; one that raises |
| SkatteetatenCrawler (`crawling/skatteetaten.py`) | queue, visited, counters, content ids | crawl | redirects to known pages, budget, failures in mid-page |
| Capture store (`crawling/storage.py`) | a raw file and a manifest per document | save, content_hash_for | two writes that are not one |
| CorpusBuilder, Qdrant store (`corpus/builder.py`, `vectorstores/qdrant.py`) | points of a collection | build, upsert, prune, load_chunks | errors between batches; a reader that pages meanwhile |
| Index aliases (`indexing/aliases.py`) | two Qdrant aliases | promote, rollback | check and switch in two requests |
| SafeHttpClient (`crawling/http.py`) | whether a request was made, the delay of a hop; the crawler's `_robots` | fetch | retries inside redirects, a robots.txt fetched in the middle of a page |
| GroundedRagService (`generation/service.py`) and the layers below it | those of one request | answer, retrieve | services that fail or return anything; layers that decide the same thing twice |

Without state of their own: ingestion, chunking, retrieval and fusion, query
understanding (classification, risk, tax year), deterministic rules, validation,
context building, evaluation, command line, configuration. `PROJECT.json` lists all of them, with the reason where one is
not modelled.

### Interactions

```
 operator page ──/v1/crawl──▶ CrawlManager ──thread──▶ SkatteetatenCrawler ──▶ capture store
        │                         │ writer_lock                                     │
        ├──/v1/corpus─────────▶ CorpusManager ──thread──▶ CorpusBuilder ◀───────────┘
        │                         │ refresh_backend()            │ upsert / prune
        └──/v1/admin──────────▶ RuntimeController ─publishes─▶ ConfiguredBackend ─loads─▶ Qdrant
                                  └─▶ Supervisor ──▶ local services

 question ──▶ tax year ──▶ intent, risk, route ──▶ retriever (tax year again) ──▶ rerank
                                                        │ dense + sparse, fused
          answer or abstention ◀── validation ◀── generator ◀── context ◀──┘
```

* `writer_lock` belongs to the crawl manager and is taken without blocking by
  both managers. It is the only thing that keeps a crawl and a build, or a
  preview and a crawl, out of the same directory.
* `CorpusManager.execute` holds `controller.lock`, then its own `_lock`; its
  worker takes each of them, never both. `close()` joins the worker with neither.
* A query takes a snapshot of `(config, backend)`. A backend is never changed in
  place; it is replaced after each indexing job and each saved setting.
* The lifespan closes the corpus manager, the crawl manager and the supervisor
  in this order, in one `finally` block.

### What makes them correct

* Crawl and corpus jobs: one writer at a time, a lock that always comes back, a
  true and final outcome, a cancellation that is neither lost nor given to
  another job, an end.
* Backend: new queries see the index as it is once a job has ended, whatever the
  job's outcome.
* Lifespan: shutdown ends, nothing runs after it, services do not outlive it.
* Crawler and store: bounded, complete or honest about what is missing, stored
  captures consistent, change reports true, one copy of each content kept.
* Runtime control: no lost update, owned services match the settings, only owned
  processes are stopped.
* Index: after a successful build of a document exactly its chunks are stored, no
  failure on the way takes away the last complete version, and the alias the
  readers use always names a collection.
* HTTP client: no request outside the policy and the robots.txt of its host,
  however it was reached; pauses kept across fetches.
* Answers: grounded in evidence that was found for this question and year; risky
  questions only with a year and enough evidence; layers that agree.

The hazards at their lines are in `PROJECT.json`; each names its properties, or
says why no property covers it yet.

## 2. Modules

| Module | Models | Proofs |
| --- | --- | --- |
| `CrawlJobs` | CrawlManager: commands, worker thread, close | `CrawlJobsProofs` |
| `CorpusJobs` | CorpusManager: commands, worker with the builder's loop, history file, restart | `CorpusJobsProofs` |
| `ServingBackend` | the cache of a published backend and its loads | in `ControlPlaneProofs` |
| `SingleWriter` | abstract: users enter the capture directory one at a time | |
| `AdminPlane` | the four above in one process, with lifespan, crash and restart; implements `SingleWriter` | `ControlPlaneProofs` |
| `SiteCrawl` | one traversal after another, with the capture store | `CrawlerProofs` |
| `RuntimeControl` | RuntimeController, Supervisor, settings file and lock file, settings page: one controller, several tabs, processes that come and go | `ControlPlaneProofs` |
| `Chunking` | the fixed, recursive and structural chunkers as functions on spans of tokens | `ChunkingProofs` |
| `IndexBuild` | CorpusBuilder writing a collection through QdrantVectorStore, beside recaptures, changed settings and a paging reader | `IndexProofs` |
| `IndexAliases` | promote and rollback by several operators | `IndexProofs` |
| `IndexLifecycle` | the two above on one server: a candidate is built, promoted, rolled back | `IndexProofs` |
| `SafeHttp` | SafeHttpClient.fetch with the crawler's hook and its robots.txt | `CrawlerProofs` |
| `QueryRouting` | intent, risk, tax year and route of a question | in `GroundedAnswerProofs` |
| `Retrieval` | rankings, fusion, filters, reranking, context | in `GroundedAnswerProofs` |
| `GroundedAnswer` | one request through `/v1/query` or `/v1/retrieve`, over the two above | `GroundedAnswerProofs` |
| `FoldLemmas` | what a left fold computes, for any operator | itself |
| `MC…` | finite values of the constants for TLC | |

### How the models correspond to the code

**CrawlJobs.** Each action is one critical section of `_lock`, or one unlocked
read of the Event. `crawlPc` names the points of `_run`, `_crawl` and of the
crawler's page loop where another thread may act: `check` is the head of the
loop over sections, `enter` the locked change to "running", `visit` the head of
the page loop, `fetch` a page under way, `settle` and `finally` the two critical
sections that decide the final state, `release` the end of `_run`, and `exit` the
moment after it in which `is_alive()` still holds. A section's outcome is free
(completed or partial), except that a traversal broken by a cancellation is
partial, because it leaves a queue. Requests that the code refuses leave no trace
and are not steps. Job ids are numbers in the order of creation.

**CorpusJobs.** `execute()` runs under two locks, so one request at a time is
inside; `corpusReq` says which, and `corpusPc` where the worker is. `StartWorker`
and `StartFails` are the two outcomes of the history write. `corpusDocs` counts
documents gone through and failed. `history` is the file, and `CorpusBoot` what
`__init__` makes of it. `corpusIssued` and `corpusAsked` are history variables.
That a document is processed or unchanged is one case here, since only failures
decide the outcome of a job.

**ServingBackend.** A cache entry is "empty", "current" or "stale" with respect
to the index; a load that overlaps a write is taken to be stale. Replacing the
backend forgets both, because nobody new reaches the old object.

**AdminPlane** instantiates the three with shared variables: `writer` and, for
`RefreshStep`, the worker's step together with the backend's. `WriteIndex` is a
write inside a document. `api` follows `lifespan`; `Restart` is possible at any
point, which makes it a crash unless the process had ended.

**SiteCrawl.** One action per step of the page loop; the page's save is two, raw
file and manifest, each of which may fail or be the last one. A site is an
outcome, final URL, content, links and annual variants for each URL, chosen when
a crawl begins and constant during it. `first` is `content_ids`. A URL stands for
its normal form and for the document id, which is its hash.

**RuntimeControl.** A request runs under `controller.lock`, so it is one step,
except `prepare`, which visits services one by one while the world goes on;
`preparing` is what it has left. `state` is None when no process serves. `Load`
is the construction of a controller at import, `Acquire` the lock file in the
lifespan; between them the process serves nothing but has read the file already.
`overtaken` is a history variable: the processes that read the file before the last save.
A handle is recorded as the settings its service was launched with, `running` is
what is really there, and `Owned` is what `_owned` finds out by polling. URLs,
providers and launch profiles decide together whether a service can be started
here; a setting carries the outcome in `local`. `tab` follows `run` of
`frontend/components/runtime-settings.tsx`: each answer replaces the revision the
tab sends, but only get, save and restore replace its draft, whose origin is
`base`. A request that is refused, whose write or whose `stop` fails changes
nothing except that dead handles it polled are forgotten (`Refused`).

**Chunking and IndexBuild.** A document is a tree of sections, paragraphs and
sentences over numbered tokens, so a chunk is a span and what a search can reach
is a set of tokens. `IsDocument` is what ingestion leaves: text throughout, parts
that follow one another (`Normalizer` refuses a page without text; a section
without paragraphs gives no structural chunk and is left out). `ChunksOf` tabulates the chunks of each version under each
settings. A chunk id is made of document, version, section path and index, not
of its text, so two settings produce the same ids for different chunks
(`chunking/_chunks.py`); the payload carries the signature that tells them apart.
`build` is one builder inside the loop over manifests, `todo` being the places in
the list that it has not come to: `next` at its head, then
`lookup`, `upsert` per batch, `prune`. `IndexFails` is an exception of any of
these requests, carried out by the server or not, `Crash` a kill. `reported` is
what the last report on a document claims; a build that starts to change a
document withdraws it. `reader` loads pages by point id, `Rank` being the order of
ids on the server; `disturbed` are documents whose points changed since it began.

**IndexAliases and IndexLifecycle.** A command is a read with a decision
(`Promote`, `Rollback`) and later a batch that the server applies as a whole
(`Apply`), or not at all (`Abandon`). `Perform` gives the operations their meaning;
whether a server refuses to create a name that exists is left open (`strict`).
IndexLifecycle lets a candidate exist once its first build has created it.

**SafeHttp.** `fetches` is the call stack: a page, and above it the fetch of a
robots.txt that the page's hook is waiting for. Each hop goes through `check`
(validator, then hook) and `send`. A response is any of: a network error, too
large, 429/5xx with or without `Retry-After`, final, or a redirect anywhere.

**QueryRouting, Retrieval, GroundedAnswer.** A question is the set of phrases it
contains, the years it mentions and whether it opens with a foreign task. A
vocabulary is represented by phrases that differ in the lists that hold them
(intent terms, risky subjects, aliases, ambiguous aliases, scope terms, markers),
with the containment of one phrase in another. Searches return any ranking of
what the filter admits, or, because the remote store is not trusted, anything.
The reranker permutes its pool; the generator writes any citations, any year or
no answer at all. Each stage is one action, each exception an alternative of it.
`found`, `question.risky` and the years are kept for the properties.

## 3. Runs

| Run | States | Shows |
| --- | --- | --- |
| `crawl_jobs` | 12,275 | lock, honesty, finality and cancellation of crawl jobs; the lock comes back |
| `corpus_jobs` | 38,745 | the same for preparation jobs, with crashes and failing writes |
| `admin_plane` | 313,439 | mutual exclusion as refinement, fresh queries, a shutdown that ends cleanly |
| `admin_plane_services` | violation | services survive a normal shutdown |
| `site_crawl` | 678,570 | completeness, duplicates and termination of a crawl; stored captures and change reports across two |
| `site_crawl_duplicate` | violation | a content marked as a duplicate of itself |
| `runtime_control` | 980,424 | ownership, GPU guard, durable settings, revisions |
| `runtime_stale_start` | violation | a process started beside another serves settings that were replaced meanwhile |
| `runtime_lost_update` | violation | testing a draft defeats the revision check |
| `index` | 135,116 | true reports, whole documents, exact snapshots, aliases that never vanish |
| `answer` | 117,864 | grounded and dated answers, sound fusion and context, layers that agree |
| `safe_http` | 685,207 | requests inside the policy, pauses and attempts kept |

### Bounds, and why they suffice

* `CrawlJobs`: two sections (one ended and one pending at the same time), two
  pages (one before and one at the budget), three jobs (a cancelled job, one
  after it, one more after a close is refused). No symmetry, because the run
  checks liveness too.
* `CorpusJobs`: two documents (a failed and a good one), three jobs; restarts are
  unbounded.
* `AdminPlane`: one of each, because each component alone is checked with more;
  what the composition adds is their order, and crashes are unbounded.
* `SiteCrawl`: three URLs in scope admit a redirect onto a captured, a queued and
  an unknown page, a fourth is an annual variant out of scope; two contents admit
  equal and changed pages, two crawls a change of the site. The sites are those
  with pages only, every redirect and every content, and those with one content,
  every redirect and either one outcome that is no page or the variant out of
  scope. Other failures (of the store, by a crash) come in all of them.
* `RuntimeControl`: two tabs (one outdated), three services (two that want the
  GPU, one in a container that others may restart), three settings (a change of
  embedding with and without a new collection, services local and remote), three
  revisions (one replaced, one replacing it, one more). Crashes, exits and
  foreign starts are unbounded. The tabs are symmetric. Processes that start while
  another serves are part of every run; `overtaken` records which of them read the
  file before a save.
* `IndexLifecycle`: two documents, two versions of different shapes, four
  settings that differ in the model alone, in the chunker, and in the vector
  size; the configured collection is the one the builds write, so that a first
  promotion happens before it exists, beside it and of it; batches and pages of
  two points, so that a document takes two of each;
  two builds (one broken, one that repairs it); two events out of captures,
  settings, faults, kills, loads and alias commands; two operators. One builder:
  two processes that build into one collection are not checked, because nothing
  in the code keeps them apart (section 5).
* `GroundedAnswer`: up to four phrases (a topic, an intent, a risk and a foreign
  one), four chunks in two documents, one of another year and with instructions,
  one of three tokens for a budget of four, one chunk per document; limits below,
  at and above the candidate limit of two; replies of up to two citations.
* `SafeHttp`: two allowed hosts, a foreign one, a forbidden path, two redirects,
  two retries, two pages, `Retry-After` below and above its cap.

### Fairness

A worker is an operating-system thread, all its waits are bounded (socket
timeouts, a capped `Retry-After`, `Event.wait` with a timeout), so it takes its
next step sooner or later: weak fairness of the worker. A request inside
`execute()` runs to its end: weak fairness of that end. The lifespan is resumed
by the event loop. `CorpusManager.close` competes with requests for `_lock`; by
then the server accepts no new ones, so there are finitely many: strong fairness
of that one action. Operators, crashes and restarts are never assumed to happen.

### Disagreements between code and documents

1. *Unstarted thread* (`admin_plane_services`). `start` publishes job and thread
   before it writes the history. If the write fails the job stays "running"; a
   cancel leaves it "cancelling" for ever, until another start replaces it; and
   `close()` raises on `join`, which skips the rest of the lifespan's `finally`, the
   supervisor's close included.
2. *Duplicate of itself* (`site_crawl_duplicate`). A queued URL that redirects to
   a page captured earlier in the same crawl is saved again, with `duplicate_of`
   naming the document itself, and the corpus selector drops it.
3. *Revision without its settings* (`runtime_lost_update`). Tab A edits, tab B
   saves, A tests its draft and so receives B's revision, A saves: the controller
   accepts a draft made from the settings before B's and overwrites them.

4. *Read before the lock* (`runtime_stale_start`). `RuntimeController.__init__` reads
   the settings file at import, the lifespan takes the lock later and reads nothing
   again. A save of the process that still serves comes between; that one ends, the
   new one takes the lock and serves the settings from before the save. Its own next
   save records them as the previous ones, so the newer settings are gone, which is
   why `ReplacedIsKept` excepts a process that was overtaken in this way.

Observations that contradict no document, or for which no run is kept:

* `CrawlManager._run` settles a job and marks a cancelled one only in a later
  critical section; status requests between the two see "completed" with pending
  sections, and the page, which polls only active jobs, may stop there.
* The delay of a `Retry-After` on the last attempt is dropped with the fetch: the
  next request to that host waits only `request_delay`.
* With two overlapping alias commands a collection can lose both its names; the
  properties exclude exactly that case (`Undisturbed`).
* A rechunked version overwrites its points in place, so a document may have a
  gap until the build has gone through it (`Rechunking`).
* An abstention after a failed validation carries the year the model wrote
  (`generation/service.py:225`), not the resolved one.
* A result of another year is a 502 for `/v1/retrieve` only; `/v1/query` reports
  the failed answer as 503.
* No composition supplies the tax-year hints `TaxYearResolver` accepts.

## 4. Proofs

`CrawlJobsProofs` proves, for every catalog, budget and number of jobs:

| Theorem | Property |
| --- | --- |
| `CrawlTypeCorrect` | `[]CrawlTypeOK` |
| `WriterNeverLeaks` | `[]WriterHeldByWorker` |
| `FinishedCrawlsAreHonest` | `[]FinishedCrawlIsHonest` |
| `CancellationsAreHonoured` | `[]CancelIsHonoured` |
| `CancellationsDoNotLeak` | `[]NoStaleCancel` |
| `FinishedCrawlsAreFrozen` | `FinishedCrawlIsFrozen` |

Assumptions: `MaxPagesAssumption` and `MaxCrawlsAssumption`, which TLC evaluates
in every run.

None of the properties is inductive: that a finished job is honest depends on
what the worker knew before the finally block. The inductive invariant
`CrawlInv` ties the job record to the worker's program point: `done` holds
exactly outside `check … finally`; the lock is the crawler's exactly inside
`check … release`; at most one section is "running", and only between `enter`
and the end of its traversal; before `settle` no section is "failed" and a
pending one means the Event was set; at `finally` the recorded state agrees with
the sections unless the Event is set; and the Event is set exactly for jobs in
`crawlAsked` or after a close. One step per action shows that it is preserved,
and the last theorem reads the frozen record off it.

`ControlPlaneProofs` proves of `RuntimeControl`, for any services, profiles, settings, tabs and
revisions:

| Theorem | Property |
| --- | --- |
| `RuntimeTypeCorrect` | `[]TypeOK` |
| `OwnedServicesMatch` | `[]ServicesMatchSettings` |
| `OneGpuModelOnly` | `[]OneManagedGpuModel` |
| `MemoryIsDurable` | `[]OnlyOvertakenIsStale` |
| `ReplacedSettingsAreKept` | `ReplacedIsKept` |

from `ServiceAssumption`, `ConnectionsAssumption` and `MaxRevisionAssumption`. Its
invariant has independent halves. `Supervised` adds to the two properties of
services that nothing is owned without a process, which is what makes a restart
with other settings safe, and states the GPU guard for pairs. The lemmas show it
once for each way the services change: a poll, a launch, a change of the world,
the end of a process, a replacement of settings. `Persisted` adds to
`OnlyOvertakenIsStale` the same statement about a process that has read the file and
does not hold the lock yet: it agrees with the file unless a save has come since, and
takes both the settings and the mark in `overtaken` with it when it gets the lock. So
the save between reading and lock (`runtime_stale_start`) is not one way among others
to serve stale settings, it is the only one.

`CrawlerProofs` proves of `SafeHttp`, for any hosts, paths, policy, limits and delays:

| Theorem | Property |
| --- | --- |
| `RequestsStayInside` | `[]RequestsAreAllowed` |
| `PausesAreKept` | `[]RetriesAreDue` |

from `PolicyAssumption`, `RetryAssumption` and `PowerAssumption` (powers of two are
numbers, which no backend knows and TLC checks up to the bound). The properties
speak of the last request; the invariant `HttpInv` speaks of the next one.
`Stacked` says that a robots fetch lies only on a page that is still in its
check, so that learning a robots.txt never disturbs a page that was already
allowed; `Checked` that a hop past its check is allowed; and `FetchState` that a
fetch that was asked to wait remembers for how long. The lemmas treat the four
ways the stack changes: a page fails, a hop goes on, a fetch ends, a fetch is
put on top.

`CorpusJobsProofs` proves, for every selection and number of jobs, from
`MaxDocsAssumption` and `MaxBuildsAssumption`:

| Theorem | Property |
| --- | --- |
| `CorpusTypeCorrect` | `[]CorpusTypeOK` |
| `WriterIsHandedOver` | `[]WriterHandedOver` |
| `FinishedBuildsAreHonest` | `[]FinishedBuildIsHonest` |
| `BuildCancellationsAreHonoured` | `[]CancelIsHonoured` |
| `BuildCancellationsDoNotLeak` | `[]NoStaleCancel` |
| `OutcomesAreFinal` | `OutcomeIsFinal` |

A job has two records here, one in memory and one in the history file, and a
restart goes by the second. `CorpusInv` therefore says of each point of the worker
what either may claim: `Exclusive` that a request and a worker never hold the lock
together, `Placed` that the record is active exactly until it is settled, `Counted`
that the loop is left early only with the Event set, `Evented` who set it, and
`Remembered` that the file, when it is about the same job, is active until the job
is done and is then recovered to the state in memory. Without the last part
neither honesty nor finality survives a step of `CorpusBoot`.

`ControlPlaneProofs` proves of `AdminPlane`, all managers in one process:

| Theorem | Property |
| --- | --- |
| `OneWriterHolds` | `OneWriterAtATime`, the refinement of `SingleWriter` |
| `ProcessImplementsCorpusJobs` | `Corpus!Spec`, the refinement of `CorpusJobs` |
| `ProcessKeepsCorpusPromises`, `OutcomesOutliveTheProcess` | the promises of `CorpusJobs` |
| `ProcessKeepsCrawlPromises` | the promises of `CrawlJobs` |
| `NothingRunsOn` | `[]NothingRunsAfterShutdown` |
| `QueriesFollowTheIndex` | `[]QueriesSeeTheIndex` |

The proofs of the components are instantiated with them
(`CorpusThms == INSTANCE CorpusJobsProofs`), under `CrawlBoundsAssumption` and
`CorpusBoundsAssumption`, which repeat the assumptions of the two modules. A process is
shown to implement `CorpusJobs` step by step, so all that is proved of it is
inherited. `CrawlJobs` has no restart, so the process does not implement it; its
inductive invariant is carried over instead, through the lemma of each of its
steps and a new one for a restart, which forgets the job. `Locked` adds to the two
accounts of the lock that no request is under way beside a worker. `Ended` lists
what each stage of the lifespan has closed and seen the end of. `Behind` says
that the backend is current unless a job that writes the index is still on a way
that leads through its refresh, which is the reason why every way out of the
worker must have one.

`CrawlerProofs` proves of `SiteCrawl`, for every site, scope, budget, depth and number of
crawls into one store:

| Theorem | Property |
| --- | --- |
| `CleanCrawlsAreComplete` | `[]CleanResultIsComplete` |
| `CapturesAreStored` | `[]CapturesAreOnDisk` |
| `MarksNameTheFirst` | `[]DuplicatesNameTheirFirst` |
| `ReportsTellTheChange` | `ChangesAreReported` |
| `NewLinksAreQueuedOnce` | (what a page adds to the queue) |
| `TraversalStaysInBounds` | `[]InBounds`: scope, depth, budget, each URL queued once |

from `SiteAssumption`. Of the site it assumes that the page a fetch ended at does
not redirect (`RedirectsEnd`): `SafeHttpClient.fetch` follows redirects until an
answer is none, and a site does not change during a crawl. Without it a redirect
onto a visited URL could hide a page. `CrawlInv` has, for completeness, `Awaited`
(a URL once queued is in the queue, visited or skipped) and `Handled` (while
nothing was reported, what was visited was captured or is in hand, by its own
name or as a redirect target); for the store, `Written` (between the two writes
the raw file is there) and `CapturesAreOnDisk` itself; and for the marks `Marked`,
which ties `content_ids` to the manifests in both directions, since a mark is only
right if the document it names keeps its own. `InBounds` is inductive as it stands; its one
hard step is `Expand`, where two groups of new links come around what is queued.

`GroundedAnswerProofs` proves, for every set of chunks, question, ranking, reply,
budget, pool and constant k of the fusion:

| Theorem | Property |
| --- | --- |
| `AnswersHaveEvidence` | `[]AnswersAreGrounded` |
| `RiskyAnswersHaveYears` | `[]RiskyAnswersAreDated` |
| `YearIsSettledOnce` | `[]LayersAgree` |
| `FusionIsFair` | `[]FusionRespectsRankings` |
| `ContextsAreMaximal` | `[]ContextIsMaximal` |

from `ChunksAssumption` (finitely many chunks, of a number of tokens each),
`FusionAssumption` (`retrieval/fusion.py:12` refuses a negative k),
`BudgetAssumption` (`context/builder.py:41-44` refuses budgets below one),
`LimitsAssumption` (limits are validated positive integers), `YearsAssumption` and
`NoneAssumption` (a missing year is no year, a missing status no status).
`AnswerInv` says what is known of a request at each stage: `Dated` after routing,
`Searched` and `Ready` of the candidates, `Supported` of the context, `Shown` of an
answer. What each stage must hand on is fixed by the last: that evidence was found
for this question is only visible at the search, that its year is the settled one
only after the temporal layer. The other half of the module is about the
operators: a sort by fused score is an enumeration in that order; a chunk with
better places gets a strictly greater score, because each place divides the common
multiple by which scores are made integers; and the greedy context keeps the
order, the budgets and every chunk that fits.

`ChunkingProofs` proves, for every document (`IsDocument`), every limit above zero
and every overlap below it:

| Theorem | States |
| --- | --- |
| `ChunksTileTheText` | recursive and structural chunks follow one another without gap or overlap, none empty, none over the limit |
| `ChunksCoverTheText` | with any chunker, the chunks hold exactly the tokens of the document, each between one and the limit, and there is at least one |

Both go through one predicate, `Tiling`: pieces that begin at a token, end at one,
follow one another and respect the limit. Windows without overlap are a tiling
(`WindowsTile`), tilings of parts that follow one another join into one
(`JoinedTiles`, a fold), so each level of `_split` yields one (`SplitsTile`), and
`_pack` keeps one, since the group it extends still fits (`PackTiles`, another
fold). Overlapping windows are no tiling; `FixedPiecesCover` shows that each
begins before the last one has ended, and that the last, when `fixed.py` drops
it, held nothing but overlap.

`IndexProofs` proves of `IndexLifecycle`, for any manifests, versions, settings,
batch and page sizes, order of ids, operators and collections:

| Theorem | Property |
| --- | --- |
| `NamesNeverVanish` | `AliasesNeverVanish` |
| `UndisturbedCommandsAreExact` | `CommandsAreExact` |
| `SnapshotsAreExact` | `[]SnapshotIsExact` |
| `PointsAreChunks` | `[]PayloadInv`: text and signature of a point belong together |
| `ReportsAreTrue` | `[]ReportIsTrue`, with one builder at a time |
| `DocumentsStayWhole` | `WholeStaysWhole`, with one builder at a time |

The assumptions: `CollectionAssumption` (the candidate is a collection, "none" is
not), `ManifestAssumption` (manifests are a list), `ShapeAssumption` (versions are
documents as ingestion leaves them), `WindowAssumption` (`chunking/fixed.py`
refuses an overlap as large as the window), `BatchAssumption` and
`RankAssumption` (ids have a place). TLC evaluates them in the run `index`.

* Aliases: `AliasInv` remembers of a command that has been decided on which of
  the two kinds of batch it holds and for which aliases and collections it was made. Since a
  batch may run against others, its effect is computed for each form it can have,
  request by request (`FoldLemmas` with `Op <- Alias!Perform`).
* Snapshots: `BuildInv` says that a builder at work on a document holds the
  chunks of that document, and so writes no other (`WritesStayInside`);
  `PointsInv` that there are finitely many points, which is why a page is
  a prefix of what is ahead (`PageIsPrefix`); `ReaderInv` that of a document nobody
  wrote the reader has read exactly the points before its place. Any number of
  builders may write meanwhile.
* Reports: `ReportIsTrue` is not inductive. `WriteInv` adds that every point is
  what some settings make of its version (`PayloadInv`), and how far the build
  is (`Progress`): what it has upserted is there with its own payload; when it comes
  to prune all of it is; and if a report then still speaks of the document, the
  lookup found its chunks unchanged, so that the pruning leaves those alone. That
  the reported chunks leave no text out is `ChunksCoverTheText`.
* Whole documents: an upsert of one version takes nothing from another, and what it
  replaces in its own was cut the same way, or the document is being cut
  differently (`Rechunking`); a pruning comes when the new version is complete,
  hence whole.

`ReportsAreTrue` and `DocumentsStayWhole` have the hypothesis `OneBuilder`. It is the
bound of the run as well and not a convenience: two builders delete each other's
points (section 5). What is left for any number of them is `PointsAreChunks`, besides
exact snapshots.

`FoldLemmas` is what these proofs use for the recursions over sequences
(`FoldLeft`). The library's induction theorems take a predicate as a parameter,
which the backends cannot instantiate; here the induction is over a set of
numbers (`SetInduction`, from the well-foundedness of `<`, like `LeastExists`), and the operator is a
constant of the module. `INSTANCE FoldLemmas WITH Op <- ...` turns `FoldPassesOn` into
a first-order fact about one fold: a relation between a number of elements and a
value that holds at the start and is passed on by each element holds at the end.

### What stays with TLC

* Liveness (`WriterComesBack`, `ShutdownEnds`, `CrawlEnds` and the other leads-to
  properties): fairness is out of the prover's reach.
* The properties of the runs that expect a violation.

Every invariant and every action property of a passing run has a theorem.

No module uses `RECURSIVE`.

## 5. Not modelled

* Read-only operations (inventory, status, views), HTTP error mapping, logging.
* Exhaustion of threads (`Thread.start` raising), power loss between `fsync` and
  `rename`, a second API process on the capture directories.
* Parsing of HTML and URLs, tokenization, scoring, models, prompts and languages:
  data, not control. The word lists are represented, not copied.
* Two builders on one collection (the page's job and `taxguide corpus build`). They
  share no lock; their prunes delete each other's points, which the next build
  repairs. Documents that leave the selection keep their points.
* `http.close()` raising at the end of a section of a crawl; what a heading path says
  (an index stands for it); which exception of the query path becomes which error.
* Mode "all" of `/v1/retrieve` (the other modes side by side), the cached reranker
  and its warm-up, the embedding cache, evaluation, observability.
* In `ServingBackend` a load that overlaps a write counts as stale as a whole;
  what such a load holds is in `IndexBuild`.

## 6. Plan

Done: the administration plane (`CrawlJobs`, `CorpusJobs`, `ServingBackend`,
`AdminPlane`, `RuntimeControl`), acquisition (`SiteCrawl`, `SafeHttp`), the index
(`Chunking`, `IndexBuild`, `IndexAliases`, `IndexLifecycle`), the query path
(`QueryRouting`, `Retrieval`, `GroundedAnswer`), and the proofs of the safety
properties of all of them. What would extend it, in this order:

1. Two builders on one collection: what each report is still worth, and that a
   later build alone repairs the collection.
2. Mode "all" of `/v1/retrieve` and the caches of the reranker and the answers.
