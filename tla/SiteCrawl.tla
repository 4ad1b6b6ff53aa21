------------------------------ MODULE SiteCrawl ------------------------------
(***************************************************************************)
(* One bounded traversal of a source and the capture store it writes:      *)
(* SkatteetatenCrawler.crawl of src/taxguide/crawling/skatteetaten.py and  *)
(* FileCrawlArtifactRepository of crawling/storage.py, with what           *)
(* ManifestCorpusSelector (corpus/selector.py) later makes of the store.   *)
(*                                                                         *)
(* A capture is two files written one after the other, the raw page and    *)
(* its manifest.  Either write may fail, which makes the page a failure of *)
(* the crawl, and the process may stop between the two.  The site may      *)
(* change between crawls and not during one.  URLs are normalised: the     *)
(* document id of a page is a function of its final URL, so the URL stands *)
(* for it, and a content stands for its SHA-256.                           *)
(***************************************************************************)
EXTENDS Naturals, Sequences, SequencesExt, FiniteSets

CONSTANTS
  Url,        \* normalised URLs
  Content,    \* page contents, up to their hash
  Nothing,    \* no file, no previous hash, no duplicate
  Site,       \* the sites a crawl may meet, see SiteType
  Scope,      \* URLs the source allows
  MaxPages,   \* CrawlRequest.max_pages
  MaxDepth,   \* CrawlRequest.max_depth
  MaxCrawls   \* bound on the crawls of one behaviour

\* What a fetch of each URL ends in: a page, a robots.txt exclusion, no usable
\* answer, an answer that is refused (status, type or requested tax year), or a
\* page in another language; the URL and content of that page; its links and the
\* annual variants its selector offers, in document order.
Outcome == {"page", "robots", "failed", "refused", "language"}
SiteType == [outcome : [Url -> Outcome], final : [Url -> Url],
             content : [Url -> Content], links : [Url -> Seq(Url)],
             annual : [Url -> Seq(Url)]]

\* A manifest file: the hash of its page and the document it duplicates.
ManifestType == [content : Content, duplicateOf : Url \union {Nothing}]

\* SafeHttpClient.fetch follows redirects until an answer is none, so the page
\* that was fetched at last does not redirect itself.
RedirectsEnd(st) ==
  \A u \in Url :
    st.outcome[u] = "page" => st.final[st.final[u]] = st.final[u]

ASSUME SiteAssumption ==
  /\ Nothing \notin Url \union Content \union ManifestType
  /\ Site # {} /\ Site \subseteq SiteType /\ \A st \in Site : RedirectsEnd(st)
  /\ Scope # {} /\ Scope \subseteq Url
  /\ MaxPages \in Nat \ {0} /\ MaxDepth \in Nat /\ MaxCrawls \in Nat

VARIABLES
  site,      \* the site during this crawl
  seed,      \* the seed of this crawl
  queue,     \* [url, depth] entries still to visit
  queued,    \* every URL that was ever put in the queue
  visited,   \* URLs requested or reached by a redirect
  attempts,  \* requests counted against MaxPages
  first,     \* content_ids: the document that had a content first in this crawl
  pages,     \* captures of this crawl: url, change_status
  failures, skipped,
  current,   \* the entry whose response is being handled
  pc,        \* where crawl() is
  raw,       \* the raw files: content by document
  manifest,  \* the manifest files: content and duplicate_of by document
  crawls     \* crawls begun

memory == << site, seed, queue, queued, visited, attempts, first, pages,
             failures, skipped, current, pc >>
store == << raw, manifest >>
vars == << memory, store, crawls >>

\* The state a call of crawl() starts from.
Fresh(st, sd) ==
  /\ site' = st /\ seed' = sd
  /\ queue' = << [url |-> sd, depth |-> 0] >>
  /\ queued' = {sd} /\ visited' = {} /\ attempts' = 0
  /\ first' = [c \in Content |-> Nothing]
  /\ pages' = << >> /\ failures' = {} /\ skipped' = {}
  /\ current' = [url |-> sd, depth |-> 0]

\* Before the first crawl there is neither site nor seed; any will do.
Init ==
  /\ site = (CHOOSE st \in Site : TRUE) /\ seed = (CHOOSE sd \in Scope : TRUE)
  /\ queue = << >> /\ queued = {} /\ visited = {} /\ attempts = 0
  /\ first = [c \in Content |-> Nothing]
  /\ pages = << >> /\ failures = {} /\ skipped = {}
  /\ current = [url |-> seed, depth |-> 0]
  /\ pc = "ended"
  /\ raw = [u \in Url |-> Nothing] /\ manifest = [u \in Url |-> Nothing]
  /\ crawls = 0

\* A crawl begins once the one before has ended, raised or died.
Begin ==
  /\ pc \in {"ended", "raised"}
  /\ crawls < MaxCrawls
  /\ crawls' = crawls + 1
  /\ \E st \in Site, sd \in Scope : Fresh(st, sd)
  /\ pc' = "loop"
  /\ UNCHANGED store

-----------------------------------------------------------------------------
(* The page loop *)

MayContinue == queue # << >> /\ attempts < MaxPages

\* An entry whose URL was already visited, as itself or as a redirect target.
TakeVisited ==
  /\ pc = "loop" /\ MayContinue
  /\ Head(queue).url \in visited
  /\ queue' = Tail(queue)
  /\ UNCHANGED << site, seed, queued, visited, attempts, first, pages,
                  failures, skipped, current, pc, store, crawls >>

Take ==
  /\ pc = "loop" /\ MayContinue
  /\ Head(queue).url \notin visited
  /\ current' = Head(queue)
  /\ queue' = Tail(queue)
  /\ visited' = visited \union {Head(queue).url}
  /\ attempts' = attempts + 1
  /\ pc' = "fetch"
  /\ UNCHANGED << site, seed, queued, first, pages, failures, skipped, store,
                  crawls >>

\* (Definitions named X_y before X are faulty variants of X for mutation runs.)
LeftOver_dropped == {}

\* The queue is empty, the budget is spent, or cancelled() broke the loop: what
\* is left in the queue is skipped.
LeftOver == {queue[i].url : i \in DOMAIN queue}

End ==
  /\ pc = "loop"
  /\ skipped' = skipped \union LeftOver
  /\ queue' = << >>
  /\ pc' = "ended"
  /\ UNCHANGED << site, seed, queued, visited, attempts, first, pages,
                  failures, current, store, crawls >>

-----------------------------------------------------------------------------
(* One response *)

Answer == site.outcome[current.url]
Final == site.final[current.url]
Page == site.content[Final]

\* The redirect target becomes visited only with its response.
Reached == visited' = visited \union {Final}

FetchSkipped ==
  /\ pc = "fetch" /\ Answer \in {"robots", "language"}
  /\ IF Answer = "language" THEN Reached ELSE UNCHANGED visited
  /\ skipped' = skipped \union {current.url}
  /\ pc' = "loop"
  /\ UNCHANGED << site, seed, queue, queued, attempts, first, pages, failures,
                  current, store, crawls >>

FetchFailed_requeues ==
  /\ pc = "fetch" /\ Answer \in {"failed", "refused"}
  /\ queue' = Append(queue, current)
  /\ visited' = visited \ {current.url}
  /\ attempts' = attempts - 1
  /\ pc' = "loop"
  /\ UNCHANGED << site, seed, queued, first, pages, failures, skipped, current,
                  store, crawls >>

FetchFailed ==
  /\ pc = "fetch" /\ Answer \in {"failed", "refused"}
  /\ IF Answer = "refused" THEN Reached ELSE UNCHANGED visited
  /\ failures' = failures \union {current.url}
  /\ pc' = "loop"
  /\ UNCHANGED << site, seed, queue, queued, attempts, first, pages, skipped,
                  current, store, crawls >>

FetchPage ==
  /\ pc = "fetch" /\ Answer = "page"
  /\ Reached
  /\ pc' = "raw"
  /\ UNCHANGED << site, seed, queue, queued, attempts, first, pages, failures,
                  skipped, current, store, crawls >>

\* duplicate_of = content_ids.get(hash); content_ids.setdefault(hash, id)
DuplicateOf == first[Page]
FirstWith_last == Final
FirstWith == IF first[Page] = Nothing THEN Final ELSE first[Page]

\* content_hash_for: the hash in the manifest that is on disk, if any.
PreviousHash_raw == raw[Final]
PreviousHash ==
  IF manifest[Final] = Nothing THEN Nothing ELSE manifest[Final].content

ChangeStatus(previous) ==
  IF previous = Nothing THEN "new"
  ELSE IF previous = Page THEN "unchanged" ELSE "changed"

SaveRaw ==
  /\ pc = "raw"
  /\ raw' = [raw EXCEPT ![Final] = Page]
  /\ pc' = "manifest"
  /\ UNCHANGED << site, seed, queue, queued, visited, attempts, first, pages,
                  failures, skipped, current, manifest, crawls >>

SaveManifest ==
  /\ pc = "manifest"
  /\ manifest' = [manifest EXCEPT ![Final] =
                    [content |-> Page, duplicateOf |-> DuplicateOf]]
  /\ pages' = Append(pages, [url |-> Final, status |-> ChangeStatus(PreviousHash)])
  /\ first' = [first EXCEPT ![Page] = FirstWith]
  /\ pc' = "expand"
  /\ UNCHANGED << site, seed, queue, queued, visited, attempts, failures,
                  skipped, current, raw, crawls >>

SaveFails_swallowed ==
  /\ pc = "raw"
  /\ pc' = "manifest"
  /\ UNCHANGED << site, seed, queue, queued, visited, attempts, first, pages,
                  failures, skipped, current, store, crawls >>

\* The old manifest is unreadable or a write fails: CrawlerError, whichever file
\* is already replaced.
SaveFails ==
  /\ pc \in {"raw", "manifest"}
  /\ failures' = failures \union {current.url}
  /\ pc' = "loop"
  /\ UNCHANGED << site, seed, queue, queued, visited, attempts, first, pages,
                  skipped, current, store, crawls >>

-----------------------------------------------------------------------------
(* The links of a captured page *)

\* Annual variants are validated outside the try: one out of scope raises.
Annual == site.annual[Final]

ExpandRaises ==
  /\ pc = "expand"
  /\ \E i \in DOMAIN Annual : Annual[i] \notin Scope
  /\ pc' = "raised"
  /\ UNCHANGED << site, seed, queue, queued, visited, attempts, first, pages,
                  failures, skipped, current, store, crawls >>

\* "if link not in queued: queued.add(link)", one link after the other.
Enqueue(line, u) ==
  IF u \in Scope /\ u \notin line.known
  THEN [known |-> line.known \union {u}, urls |-> Append(line.urls, u)]
  ELSE line
Unseen(links, known) ==
  FoldLeft(Enqueue, [known |-> known, urls |-> << >>], links).urls
At(urls, depth) == [i \in DOMAIN urls |-> [url |-> urls[i], depth |-> depth]]

DepthLeft == current.depth < MaxDepth

\* Annual variants go to the front of the queue at the depth of their page,
\* links to its end one level deeper.
Expand ==
  /\ pc = "expand"
  /\ \A i \in DOMAIN Annual : Annual[i] \in Scope
  /\ LET variants == Unseen(Annual, queued)
         deeper == IF DepthLeft
                   THEN Unseen(site.links[Final], queued \union Range(variants))
                   ELSE << >>
     IN /\ queue' = At(variants, current.depth) \o queue
                      \o At(deeper, current.depth + 1)
        /\ queued' = queued \union Range(variants) \union Range(deeper)
  /\ pc' = "loop"
  /\ UNCHANGED << site, seed, visited, attempts, first, pages, failures,
                  skipped, current, store, crawls >>

\* The process dies: only the store survives.
Crash ==
  /\ pc \notin {"ended", "raised"}
  /\ pc' = "raised"
  /\ UNCHANGED << site, seed, queue, queued, visited, attempts, first, pages,
                  failures, skipped, current, store, crawls >>

Step == TakeVisited \/ Take \/ End \/ FetchSkipped \/ FetchFailed \/ FetchPage
        \/ SaveRaw \/ SaveManifest \/ SaveFails \/ ExpandRaises \/ Expand

Next == Begin \/ Step \/ Crash

Spec == Init /\ [][Next]_vars

\* crawl() is a loop whose every request is bounded by timeouts and retries.
FairSpec == Spec /\ WF_vars(Step)
-----------------------------------------------------------------------------
(* Properties *)

Ended == pc = "ended"
Captured == {pages[i].url : i \in DOMAIN pages}

\* A crawl that reports neither failures nor skipped pages captured the page
\* behind every URL it ever queued, although entries are dropped without a word
\* when a redirect has reached them first.  _crawl calls only such a crawl
\* "completed".
CleanResultIsComplete ==
  Ended /\ failures = {} /\ skipped = {} =>
    \A u \in queued : site.final[u] \in Captured

\* What a crawl has captured is on disk from then on, both files with the content
\* it saw, although later redirects may save the document again and that save may
\* fail half way, and however the crawl ends: at its end, in a raise or in a crash.
CapturesAreOnDisk ==
  \A u \in Captured :
    /\ raw[u] = site.content[u]
    /\ manifest[u] # Nothing /\ manifest[u].content = site.content[u]

\* A duplicate mark made by this crawl names a document that this crawl captured
\* with the same content and that is itself no duplicate of a third one.
DuplicatesNameTheirFirst ==
  Ended =>
    \A u \in Captured :
      LET d == manifest[u].duplicateOf IN
        d # Nothing => /\ d \in Captured
                       /\ site.content[d] = site.content[u]
                       /\ manifest[d].duplicateOf \in {Nothing, d}

\* change_status across crawls: every capture reports a document as new exactly
\* if it had no manifest before it, and as changed exactly if that one had another
\* hash; nothing but the capture it is reported with replaces a manifest.
ChangesAreReported ==
  [][/\ \A u \in Url : manifest'[u] # manifest[u]
          => Len(pages') > Len(pages) /\ Last(pages').url = u
     /\ Len(pages') > Len(pages)
          => LET u == Last(pages').url
                 before == manifest[u]
             IN  Last(pages').status = IF before = Nothing THEN "new"
                                       ELSE IF manifest'[u].content = before.content
                                       THEN "unchanged" ELSE "changed"]_vars

\* A crawl ends: the queue grows while pages are expanded, the budget does not.
CrawlEnds == pc = "loop" ~> pc \in {"ended", "raised"}

\* requests/corpus_batch.md excludes marked duplicates from the corpus "because
\* duplicate content should not normally enter the RAG corpus twice".  It should
\* enter once: of the captures of one crawl with the same content, one is kept
\* (pages of one tax year, which the selector always keeps, are left out).
Selectable(u) == manifest[u] # Nothing /\ manifest[u].duplicateOf = Nothing
SomeCopyIsKept ==
  Ended => \A u \in Captured :
             \E v \in Captured : site.content[v] = site.content[u] /\ Selectable(v)

=============================================================================
