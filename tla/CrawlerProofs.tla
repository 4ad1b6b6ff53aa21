---------------------------- MODULE CrawlerProofs ----------------------------
(***************************************************************************)
(* The crawler, in two parts: what a traversal promises for every site,    *)
(* every budget and every number of crawls into one store (SiteCrawl); and *)
(* that the requests it makes stay inside the policy and keep their pauses *)
(* for every policy, robots.txt, number of retries and redirects, and      *)
(* whatever the servers answer (SafeHttp).                                 *)
(***************************************************************************)
EXTENDS SiteCrawl, SafeHttp, SequenceTheorems, TLAPS

LinkFold == INSTANCE FoldLemmas WITH Op <- Enqueue

Entry == [url : Url, depth : Nat]
Capture == [url : Url, status : {"new", "unchanged", "changed"}]
Phases == {"loop", "fetch", "raw", "manifest", "expand", "ended", "raised"}

CrawlTypeOK ==
  /\ site \in Site /\ seed \in Url
  /\ queue \in Seq(Entry) /\ queued \subseteq Url /\ visited \subseteq Url
  /\ first \in [Content -> Url \union {Nothing}]
  /\ pages \in Seq(Capture)
  /\ failures \subseteq Url /\ skipped \subseteq Url
  /\ current \in Entry /\ pc \in Phases
  /\ raw \in [Url -> Content \union {Nothing}]
  /\ manifest \in [Url -> ManifestType \union {Nothing}]

\* A URL once put in the queue is still there, was taken, or is reported.
Awaited == pc # "raised" => queued \subseteq visited \union LeftOver \union skipped

Drained == pc = "ended" => queue = << >>

\* The URLs whose response is being handled.
InHand ==
  IF pc = "fetch" THEN {current.url}
  ELSE IF pc \in {"raw", "manifest"} THEN {current.url, Final} ELSE {}

\* Unless something was reported, what was visited was captured.
Handled ==
  pc # "raised" /\ failures = {} /\ skipped = {} =>
    \A v \in visited : site.final[v] \in Captured \/ v \in InHand

AnswerKnown == pc \in {"raw", "manifest", "expand"} => Answer = "page"

\* A manifest is written after the raw file.
Written == pc = "manifest" => raw[Final] = Page

\* A capture is marked with the first document of its content or not at all,
\* and that one with nothing but itself.
Marked ==
  /\ \A u \in Captured :
       /\ first[site.content[u]] # Nothing
       /\ manifest[u].duplicateOf \in {Nothing, first[site.content[u]]}
  /\ \A t \in Content : first[t] # Nothing =>
       /\ first[t] \in Captured
       /\ site.content[first[t]] = t
       /\ manifest[first[t]].duplicateOf \in {Nothing, first[t]}

CrawlInv == Awaited /\ Drained /\ AnswerKnown /\ Handled /\ Written /\ CapturesAreOnDisk /\ Marked

-----------------------------------------------------------------------------
(* The operators *)

LEMMA UnseenIsFold ==
  \A links, known :
    Unseen(links, known) =
      LinkFold!Folded([known |-> known, urls |-> << >>], links).urls
BY DEF Unseen, LinkFold!Folded, FoldLeft, LinkFold!FoldLeft, MapThenFoldSet,
       LinkFold!MapThenFoldSet, Max, LinkFold!Max

Distinct(urls) == \A i, j \in DOMAIN urls : urls[i] = urls[j] => i = j

\* The line after k links.
InLine(line, links, known, k) ==
  /\ line.urls \in Seq(Url)
  /\ line.known = known \union Range(line.urls)
  /\ \A u \in Url : u \in Range(line.urls) <=>
       u \in Scope /\ u \notin known /\ \E i \in 1..k : links[i] = u
  /\ Distinct(line.urls)

\* What a page adds to the queue are its links in scope that never were in it,
\* each once.
THEOREM NewLinksAreQueuedOnce ==
  ASSUME NEW links \in Seq(Url), NEW known \in SUBSET Url
  PROVE  /\ Unseen(links, known) \in Seq(Url)
         /\ Range(Unseen(links, known)) = (Range(links) \intersect Scope) \ known
         /\ Distinct(Unseen(links, known))
<1> DEFINE start == [known |-> known, urls |-> << >>]
           Lines == [known : SUBSET Url, urls : Seq(Url)]
           R == {p \in Nat \X Lines : InLine(p[2], links, known, p[1])}
           end == LinkFold!Folded(start, links)
<1>1. <<0, start>> \in R
  <2>1. start \in Lines /\ start.urls = << >> /\ start.known = known
    OBVIOUS
  <2>2. Range(<< >>) = {} /\ Distinct(<< >>)
    BY DEF Range, Distinct
  <2> HIDE DEF start
  <2> QED
    BY <2>1, <2>2 DEF InLine
<1>2. ASSUME NEW k \in 1..Len(links), NEW line, <<k-1, line>> \in R
      PROVE  <<k, Enqueue(line, links[k])>> \in R
  <2> DEFINE u == links[k]
             added == [known |-> line.known \union {u}, urls |-> Append(line.urls, u)]
  <2>1. /\ line \in Lines /\ InLine(line, links, known, k-1)
        /\ u \in Url /\ k \in Nat /\ k-1 \in Nat
    BY <1>2
  <2>2. \A v \in Url :
          (\E i \in 1..k : links[i] = v) <=> (\E i \in 1..(k-1) : links[i] = v) \/ v = u
    <3>1. \A i \in 1..k : i = k \/ i \in 1..(k-1)
      BY <2>1
    <3>2. \A i \in 1..(k-1) : i \in 1..k
      BY <2>1
    <3>3. k \in 1..k
      BY <2>1
    <3> QED
      BY <3>1, <3>2, <3>3
  <2>3. CASE u \in Scope /\ u \notin line.known
    <3>1. added \in Lines /\ added.urls = Append(line.urls, u)
          /\ added.known = line.known \union {u}
      BY <2>1
    <3> HIDE DEF added
    <3>2. /\ DOMAIN added.urls = DOMAIN line.urls \union {Len(line.urls) + 1}
          /\ added.urls[Len(line.urls) + 1] = u
          /\ \A i \in DOMAIN line.urls : added.urls[i] = line.urls[i]
      BY <2>1, <3>1
    <3>3. Range(added.urls) = Range(line.urls) \union {u}
      BY <3>2 DEF Range
    <3>4. u \notin Range(line.urls)
      BY <2>1, <2>3 DEF InLine
    <3>5. Distinct(added.urls)
      BY <2>1, <3>2, <3>4 DEF InLine, Distinct, Range
    <3>6. \A v \in Url : v \in Range(added.urls) <=>
            v \in Scope /\ v \notin known /\ \E i \in 1..k : links[i] = v
      BY <2>1, <2>2, <2>3, <3>3 DEF InLine
    <3>7. added.known = known \union Range(added.urls)
      BY <2>1, <3>1, <3>3 DEF InLine
    <3>8. InLine(added, links, known, k)
      BY <3>1, <3>5, <3>6, <3>7 DEF InLine
    <3>9. Enqueue(line, u) = added
      BY <2>3 DEF Enqueue, added
    <3> QED
      BY <2>1, <3>1, <3>8, <3>9
  <2>4. CASE ~(u \in Scope /\ u \notin line.known)
    <3>1. InLine(line, links, known, k)
      BY <2>1, <2>2, <2>4 DEF InLine
    <3>2. Enqueue(line, u) = line
      BY <2>4 DEF Enqueue
    <3> QED
      BY <2>1, <3>1, <3>2
  <2> QED
    BY <2>3, <2>4
<1>3. <<Len(links), end>> \in R
  <2> HIDE DEF start, R
  <2> QED
    BY <1>1, <1>2, LinkFold!FoldPassesOn
<1>4. InLine(end, links, known, Len(links))
  BY <1>3
<1>5. Unseen(links, known) = end.urls
  BY UnseenIsFold
<1> HIDE DEF end
<1>6. \A u \in Url : u \in Range(links) <=> \E i \in 1..Len(links) : links[i] = u
  BY DEF Range
<1>7. Range(end.urls) \subseteq Url
  BY <1>4 DEF InLine, Range
<1>8. Range(end.urls) = (Range(links) \intersect Scope) \ known
  BY <1>4, <1>6, <1>7, SiteAssumption DEF InLine
<1> QED
  BY <1>4, <1>5, <1>8 DEF InLine

LEMMA AtType ==
  ASSUME NEW urls \in Seq(Url), NEW depth \in Nat
  PROVE  /\ At(urls, depth) \in Seq(Entry)
         /\ Len(At(urls, depth)) = Len(urls)
         /\ \A i \in DOMAIN urls : At(urls, depth)[i].url = urls[i]
<1> DEFINE entries == At(urls, depth)
<1>1. DOMAIN urls = 1..Len(urls) /\ Len(urls) \in Nat
  OBVIOUS
<1>2. entries = [i \in 1..Len(urls) |-> [url |-> urls[i], depth |-> depth]]
  BY <1>1 DEF At
<1>3. \A i \in 1..Len(urls) : [url |-> urls[i], depth |-> depth] \in Entry
  BY DEF Entry
<1>4. entries \in [1..Len(urls) -> Entry]
  BY <1>2, <1>3
<1> HIDE DEF entries
<1>5. entries \in Seq(Entry) /\ Len(entries) = Len(urls)
  BY <1>1, <1>4
<1> QED
  BY <1>1, <1>2, <1>5 DEF entries

\* What the site says of a URL.
LEMMA SiteFacts ==
  ASSUME NEW st \in Site
  PROVE  /\ st.final \in [Url -> Url] /\ st.content \in [Url -> Content]
         /\ st.outcome \in [Url -> Outcome]
         /\ st.links \in [Url -> Seq(Url)] /\ st.annual \in [Url -> Seq(Url)]
         /\ RedirectsEnd(st)
BY SiteAssumption DEF SiteType

\* The response at hand.
LEMMA AtHand ==
  ASSUME CrawlTypeOK
  PROVE  /\ current.url \in Url /\ current.depth \in Nat
         /\ Answer \in Outcome /\ Final \in Url /\ Page \in Content
         /\ Annual \in Seq(Url) /\ site.links[Final] \in Seq(Url)
         /\ DuplicateOf \in Url \union {Nothing} /\ FirstWith \in Url \union {Nothing}
         /\ PreviousHash \in Content \union {Nothing}
         /\ ChangeStatus(PreviousHash) \in {"new", "unchanged", "changed"}
<1>1. current.url \in Url /\ current.depth \in Nat
  BY DEF CrawlTypeOK, Entry
<1>2. Answer \in Outcome /\ Final \in Url
  BY <1>1, SiteFacts DEF CrawlTypeOK, Answer, Final
<1>3. Page \in Content /\ Annual \in Seq(Url) /\ site.links[Final] \in Seq(Url)
  BY <1>2, SiteFacts DEF CrawlTypeOK, Page, Annual
<1>4. DuplicateOf \in Url \union {Nothing} /\ FirstWith \in Url \union {Nothing}
  BY <1>2, <1>3 DEF CrawlTypeOK, DuplicateOf, FirstWith
<1>5. PreviousHash \in Content \union {Nothing}
  <2>1. CASE manifest[Final] = Nothing
    BY <2>1 DEF PreviousHash
  <2>2. CASE manifest[Final] # Nothing
    <3>1. manifest[Final] \in ManifestType
      BY <1>2, <2>2 DEF CrawlTypeOK
    <3> QED
      BY <2>2, <3>1 DEF PreviousHash, ManifestType
  <2> QED
    BY <2>1, <2>2
<1>6. ChangeStatus(PreviousHash) \in {"new", "unchanged", "changed"}
  BY DEF ChangeStatus
<1> QED
  BY <1>1, <1>2, <1>3, <1>4, <1>5, <1>6

\* What the links of a page add to the queue.
LEMMA ExpandAdds ==
  ASSUME CrawlTypeOK, Expand
  PROVE  \E variants, deeper :
           /\ variants \in Seq(Url) /\ deeper \in Seq(Url)
           /\ queue' = At(variants, current.depth) \o queue
                         \o At(deeper, current.depth + 1)
           /\ queued' = queued \union Range(variants) \union Range(deeper)
<1> DEFINE variants == Unseen(Annual, queued)
           known == queued \union Range(variants)
           deeper == IF DepthLeft THEN Unseen(site.links[Final], known) ELSE << >>
<1>1. variants \in Seq(Url)
  BY AtHand, NewLinksAreQueuedOnce DEF CrawlTypeOK
<1>2. known \in SUBSET Url
  <2> HIDE DEF variants
  <2> QED
    BY <1>1 DEF CrawlTypeOK, Range
<1>3. deeper \in Seq(Url)
  <2> HIDE DEF known
  <2>1. Unseen(site.links[Final], known) \in Seq(Url)
    BY <1>2, AtHand, NewLinksAreQueuedOnce
  <2> QED
    BY <2>1
<1>4. /\ queue' = At(variants, current.depth) \o queue
                    \o At(deeper, current.depth + 1)
      /\ queued' = queued \union Range(variants) \union Range(deeper)
  BY DEF Expand
<1> HIDE DEF variants, deeper
<1> QED
  BY <1>1, <1>3, <1>4

LEMMA LeftOverType == CrawlTypeOK => LeftOver \subseteq Url
<1> SUFFICES ASSUME CrawlTypeOK, NEW i \in DOMAIN queue PROVE queue[i].url \in Url
  BY DEF LeftOver
<1>1. queue[i] \in Entry
  BY DEF CrawlTypeOK
<1> QED
  BY <1>1 DEF Entry

-----------------------------------------------------------------------------
(* Types *)

LEMMA TypeInit == Init => CrawlTypeOK
<1> SUFFICES ASSUME Init PROVE CrawlTypeOK
  OBVIOUS
<1>1. site \in Site /\ seed \in Url
  BY SiteAssumption DEF Init
<1>2. queue \in Seq(Entry) /\ pages \in Seq(Capture)
  BY DEF Init
<1> QED
  BY <1>1, <1>2 DEF Init, CrawlTypeOK, Entry, Phases

LEMMA TypeStep == CrawlTypeOK /\ [Next]_vars => CrawlTypeOK'
<1> SUFFICES ASSUME CrawlTypeOK, [Next]_vars PROVE CrawlTypeOK'
  OBVIOUS
<1>1. CASE Begin
  <2>1. PICK st \in Site, sd \in Scope : Fresh(st, sd)
    BY <1>1 DEF Begin
  <2>2. sd \in Url
    BY SiteAssumption
  <2>3. queue' \in Seq(Entry) /\ pages' \in Seq(Capture) /\ current' \in Entry
    BY <2>1, <2>2 DEF Fresh, Entry
  <2>4. first' \in [Content -> Url \union {Nothing}]
    BY <2>1 DEF Fresh
  <2> QED
    BY <1>1, <2>1, <2>2, <2>3, <2>4 DEF CrawlTypeOK, Begin, Fresh, Phases, store
<1>2. CASE TakeVisited
  BY <1>2 DEF CrawlTypeOK, TakeVisited, MayContinue, store
<1>3. CASE Take
  <2>1. Head(queue) \in Entry /\ Tail(queue) \in Seq(Entry)
    BY <1>3 DEF CrawlTypeOK, Take, MayContinue
  <2> QED
    BY <1>3, <2>1 DEF CrawlTypeOK, Take, store, Entry, Phases
<1>4. CASE End
  <2>1. queue' \in Seq(Entry)
    BY <1>4 DEF End
  <2> QED
    BY <1>4, <2>1, LeftOverType DEF CrawlTypeOK, End, store, Phases
<1>5. CASE FetchSkipped
  BY <1>5, AtHand DEF CrawlTypeOK, FetchSkipped, Reached, store, Phases
<1>6. CASE FetchFailed
  BY <1>6, AtHand DEF CrawlTypeOK, FetchFailed, Reached, store, Phases
<1>7. CASE FetchPage
  BY <1>7, AtHand DEF CrawlTypeOK, FetchPage, Reached, store, Phases
<1>8. CASE SaveRaw
  BY <1>8, AtHand DEF CrawlTypeOK, SaveRaw, store, Phases
<1>9. CASE SaveManifest
  <2>1. [content |-> Page, duplicateOf |-> DuplicateOf] \in ManifestType
    BY AtHand DEF ManifestType
  <2>2. [url |-> Final, status |-> ChangeStatus(PreviousHash)] \in Capture
    BY AtHand DEF Capture
  <2>3. pages' \in Seq(Capture)
    BY <1>9, <2>2 DEF SaveManifest, CrawlTypeOK
  <2>4. manifest' \in [Url -> ManifestType \union {Nothing}]
    BY <1>9, <2>1 DEF SaveManifest, CrawlTypeOK
  <2>5. first' \in [Content -> Url \union {Nothing}]
    BY <1>9, AtHand DEF SaveManifest, CrawlTypeOK
  <2> QED
    BY <1>9, <2>3, <2>4, <2>5 DEF CrawlTypeOK, SaveManifest, Phases
<1>10. CASE SaveFails
  BY <1>10, AtHand DEF CrawlTypeOK, SaveFails, store, Phases
<1>11. CASE ExpandRaises
  BY <1>11 DEF CrawlTypeOK, ExpandRaises, store, Phases
<1>12. CASE Expand
  <2>1. PICK variants, deeper :
           /\ variants \in Seq(Url) /\ deeper \in Seq(Url)
           /\ queue' = At(variants, current.depth) \o queue
                         \o At(deeper, current.depth + 1)
           /\ queued' = queued \union Range(variants) \union Range(deeper)
    BY <1>12, ExpandAdds
  <2>2. queue' \in Seq(Entry)
    <3>1. At(variants, current.depth) \in Seq(Entry)
      BY <2>1, AtHand, AtType
    <3>2. At(deeper, current.depth + 1) \in Seq(Entry)
      BY <2>1, AtHand, AtType
    <3> QED
      BY <2>1, <3>1, <3>2 DEF CrawlTypeOK
  <2>3. queued' \subseteq Url
    BY <2>1 DEF CrawlTypeOK, Range
  <2> QED
    BY <1>12, <2>2, <2>3 DEF CrawlTypeOK, Expand, store, Phases
<1>13. CASE Crash
  BY <1>13 DEF CrawlTypeOK, Crash, store, Phases
<1>14. CASE UNCHANGED vars
  BY <1>14 DEF CrawlTypeOK, vars, memory, store
<1> QED
  BY <1>1, <1>2, <1>3, <1>4, <1>5, <1>6, <1>7, <1>8, <1>9, <1>10, <1>11, <1>12,
     <1>13, <1>14 DEF Next, Step

\* The types of the traversal's state are kept by every crawl.
THEOREM CrawlTypeCorrect == Spec => []CrawlTypeOK
BY TypeInit, TypeStep, PTL DEF Spec

-----------------------------------------------------------------------------
(* The invariant *)

LEMMA CapturedAdds == CrawlTypeOK /\ SaveManifest => Captured' = Captured \union {Final}
<1> SUFFICES ASSUME CrawlTypeOK, SaveManifest PROVE Captured' = Captured \union {Final}
  OBVIOUS
<1> DEFINE page == [url |-> Final, status |-> ChangeStatus(PreviousHash)]
<1>1. pages \in Seq(Capture) /\ pages' = Append(pages, page) /\ page.url = Final
  BY DEF CrawlTypeOK, SaveManifest
<1> HIDE DEF page
<1>2. DOMAIN pages' = DOMAIN pages \union {Len(pages) + 1}
  BY <1>1
<1>3. pages'[Len(pages) + 1] = page /\ \A i \in DOMAIN pages : pages'[i] = pages[i]
  BY <1>1
<1> QED
  BY <1>1, <1>2, <1>3 DEF Captured

LEMMA CapturedType == CrawlTypeOK => Captured \subseteq Url
<1> SUFFICES ASSUME CrawlTypeOK, NEW i \in DOMAIN pages PROVE pages[i].url \in Url
  BY DEF Captured
<1>1. pages[i] \in Capture
  BY DEF CrawlTypeOK
<1> QED
  BY <1>1 DEF Capture

\* Taking the first entry leaves the others.
LEMMA LeftOverTail ==
  ASSUME CrawlTypeOK, queue # << >>, queue' = Tail(queue)
  PROVE  LeftOver \subseteq {Head(queue).url} \union LeftOver'
<1> SUFFICES ASSUME NEW i \in DOMAIN queue, i # 1
             PROVE  \E j \in DOMAIN queue' : queue'[j] = queue[i]
  <2>1. \A i \in DOMAIN queue : i # 1 => queue[i].url \in LeftOver'
    BY DEF LeftOver
  <2>2. Head(queue) = queue[1]
    BY DEF CrawlTypeOK
  <2> QED
    BY <2>1, <2>2 DEF LeftOver
<1>1. i - 1 \in DOMAIN queue' /\ queue'[i - 1] = queue[i]
  BY DEF CrawlTypeOK
<1> QED
  BY <1>1

\* The links of a page join those that are left.
LEMMA LeftOverJoins ==
  ASSUME CrawlTypeOK, Expand
  PROVE  /\ queued' \subseteq queued \union LeftOver'
         /\ LeftOver \subseteq LeftOver'
<1>1. PICK variants, deeper :
         /\ variants \in Seq(Url) /\ deeper \in Seq(Url)
         /\ queue' = At(variants, current.depth) \o queue
                       \o At(deeper, current.depth + 1)
         /\ queued' = queued \union Range(variants) \union Range(deeper)
  BY ExpandAdds
<1> DEFINE front == At(variants, current.depth)
           back == At(deeper, current.depth + 1)
<1>2. /\ front \in Seq(Entry) /\ Len(front) = Len(variants)
      /\ \A i \in DOMAIN variants : front[i].url = variants[i]
  BY <1>1, AtHand, AtType
<1>3. /\ back \in Seq(Entry) /\ Len(back) = Len(deeper)
      /\ \A i \in DOMAIN deeper : back[i].url = deeper[i]
  BY <1>1, AtHand, AtType
<1>4. queue' = (front \o queue) \o back /\ queue \in Seq(Entry)
  BY <1>1 DEF CrawlTypeOK
<1> HIDE DEF front, back
<1>5. \A i \in DOMAIN front : i \in DOMAIN queue' /\ queue'[i] = front[i]
  BY <1>2, <1>3, <1>4
<1>6. \A i \in DOMAIN queue :
        i + Len(front) \in DOMAIN queue' /\ queue'[i + Len(front)] = queue[i]
  BY <1>2, <1>3, <1>4
<1>7. \A i \in DOMAIN back :
        /\ i + Len(front) + Len(queue) \in DOMAIN queue'
        /\ queue'[i + Len(front) + Len(queue)] = back[i]
  BY <1>2, <1>3, <1>4
<1>8. Range(variants) \subseteq LeftOver'
  <2>1. DOMAIN variants = DOMAIN front
    BY <1>1, <1>2
  <2>2. ASSUME NEW i \in DOMAIN variants PROVE variants[i] \in LeftOver'
    BY <1>2, <1>5, <2>1 DEF LeftOver
  <2> QED
    BY <2>2 DEF Range
<1>9. Range(deeper) \subseteq LeftOver'
  <2>1. DOMAIN deeper = DOMAIN back
    BY <1>1, <1>3
  <2>2. ASSUME NEW i \in DOMAIN deeper PROVE deeper[i] \in LeftOver'
    BY <1>3, <1>7, <2>1 DEF LeftOver
  <2> QED
    BY <2>2 DEF Range
<1>10. LeftOver \subseteq LeftOver'
  BY <1>6 DEF LeftOver
<1> QED
  BY <1>1, <1>8, <1>9, <1>10

LEMMA AwaitedStep == CrawlTypeOK /\ Awaited /\ [Next]_vars => Awaited'
<1> SUFFICES ASSUME CrawlTypeOK, Awaited, [Next]_vars PROVE Awaited'
  OBVIOUS
<1>1. CASE Begin
  <2>1. PICK st \in Site, sd \in Scope : Fresh(st, sd)
    BY <1>1 DEF Begin
  <2>2. sd \in LeftOver'
    BY <2>1 DEF Fresh, LeftOver
  <2> QED
    BY <2>1, <2>2 DEF Fresh, Awaited
<1>2. CASE TakeVisited
  BY <1>2, LeftOverTail DEF TakeVisited, MayContinue, Awaited
<1>3. CASE Take
  BY <1>3, LeftOverTail DEF Take, MayContinue, Awaited
<1>4. CASE End
  BY <1>4 DEF End, Awaited
<1>5. CASE FetchSkipped
  BY <1>5 DEF FetchSkipped, Reached, Awaited, LeftOver
<1>6. CASE FetchFailed
  BY <1>6 DEF FetchFailed, Reached, Awaited, LeftOver
<1>7. CASE FetchPage
  BY <1>7 DEF FetchPage, Reached, Awaited, LeftOver
<1>8. CASE SaveRaw \/ SaveManifest \/ SaveFails
  BY <1>8 DEF SaveRaw, SaveManifest, SaveFails, Awaited, LeftOver
<1>9. CASE ExpandRaises \/ Crash
  BY <1>9 DEF ExpandRaises, Crash, Awaited
<1>10. CASE Expand
  BY <1>10, LeftOverJoins DEF Expand, Awaited
<1>11. CASE UNCHANGED vars
  BY <1>11 DEF Awaited, LeftOver, vars, memory
<1> QED
  BY <1>1, <1>2, <1>3, <1>4, <1>5, <1>6, <1>7, <1>8, <1>9, <1>10, <1>11 DEF Next, Step

LEMMA DrainedStep == Drained /\ [Next]_vars => Drained'
BY DEF Drained, Next, Step, Begin, TakeVisited, Take, End, FetchSkipped, FetchFailed,
   FetchPage, SaveRaw, SaveManifest, SaveFails, ExpandRaises, Expand, Crash, vars, memory

LEMMA AnsweredStep == CrawlTypeOK /\ AnswerKnown /\ [Next]_vars => AnswerKnown'
<1> SUFFICES ASSUME CrawlTypeOK, AnswerKnown, [Next]_vars PROVE AnswerKnown'
  OBVIOUS
<1>1. CASE Begin
  BY <1>1 DEF Begin, AnswerKnown
<1>2. CASE FetchPage \/ SaveRaw \/ SaveManifest
  BY <1>2 DEF FetchPage, SaveRaw, SaveManifest, AnswerKnown, Answer
<1>3. CASE Take \/ FetchSkipped \/ FetchFailed \/ SaveFails \/ Expand
  BY <1>3 DEF Take, FetchSkipped, FetchFailed, SaveFails, Expand, AnswerKnown
<1>4. CASE TakeVisited \/ End \/ ExpandRaises \/ Crash
  BY <1>4 DEF TakeVisited, End, ExpandRaises, Crash, AnswerKnown
<1>5. CASE UNCHANGED vars
  BY <1>5 DEF AnswerKnown, Answer, vars, memory
<1> QED
  BY <1>1, <1>2, <1>3, <1>4, <1>5 DEF Next, Step

LEMMA HandledStep == CrawlTypeOK /\ AnswerKnown /\ Handled /\ [Next]_vars => Handled'
<1> SUFFICES ASSUME CrawlTypeOK, AnswerKnown, Handled, [Next]_vars,
                    pc' # "raised", failures' = {}, skipped' = {},
                    NEW v \in visited'
             PROVE  site'.final[v] \in Captured' \/ v \in InHand'
  BY DEF Handled
<1>1. CASE Begin
  BY <1>1 DEF Begin, Fresh
<1>2. CASE TakeVisited
  BY <1>2 DEF TakeVisited, Handled, Captured, InHand
<1>3. CASE Take
  BY <1>3 DEF Take, Handled, Captured, InHand
<1>4. CASE End
  BY <1>4 DEF End, Handled, Captured, InHand
<1>5. CASE FetchSkipped \/ FetchFailed \/ SaveFails
  BY <1>5 DEF FetchSkipped, FetchFailed, SaveFails
<1>6. CASE FetchPage
  BY <1>6 DEF FetchPage, Reached, Handled, Captured, InHand, Final
<1>7. CASE SaveRaw
  BY <1>7 DEF SaveRaw, Handled, Captured, InHand, Final
<1>8. CASE SaveManifest
  <2>1. Captured' = Captured \union {Final}
    BY <1>8, CapturedAdds
  <2>2. site.final[current.url] = Final /\ site.final[Final] = Final
    <3>1. site.outcome[current.url] = "page"
      BY <1>8 DEF SaveManifest, AnswerKnown, Answer
    <3> QED
      BY <3>1, AtHand, SiteFacts DEF CrawlTypeOK, RedirectsEnd, Final
  <2> QED
    BY <1>8, <2>1, <2>2 DEF SaveManifest, Handled, InHand
<1>9. CASE Expand
  BY <1>9 DEF Expand, Handled, Captured, InHand
<1>10. CASE ExpandRaises \/ Crash
  BY <1>10 DEF ExpandRaises, Crash
<1>11. CASE UNCHANGED vars
  BY <1>11 DEF Handled, Captured, InHand, Final, vars, memory
<1> QED
  BY <1>1, <1>2, <1>3, <1>4, <1>5, <1>6, <1>7, <1>8, <1>9, <1>10, <1>11 DEF Next, Step

LEMMA OnDiskStep == CrawlTypeOK /\ Written /\ CapturesAreOnDisk /\ [Next]_vars => CapturesAreOnDisk'
<1> SUFFICES ASSUME CrawlTypeOK, Written, CapturesAreOnDisk, [Next]_vars PROVE CapturesAreOnDisk'
  OBVIOUS
<1>1. CASE Begin
  BY <1>1 DEF Begin, Fresh, CapturesAreOnDisk, Captured
<1>2. CASE SaveRaw
  <2>1. Captured' = Captured /\ site' = site /\ manifest' = manifest
    BY <1>2 DEF SaveRaw, Captured
  <2>2. raw'[Final] = site.content[Final] /\ \A u \in Url \ {Final} : raw'[u] = raw[u]
    BY <1>2, AtHand DEF SaveRaw, CrawlTypeOK, Page
  <2> QED
    BY <2>1, <2>2, CapturedType DEF CapturesAreOnDisk
<1>3. CASE SaveManifest
  <2>1. Captured' = Captured \union {Final}
    BY <1>3, CapturedAdds
  <2>2. site' = site /\ raw' = raw /\ raw[Final] = site.content[Final]
    BY <1>3 DEF SaveManifest, Written, Page
  <2>3. manifest'[Final] = [content |-> Page, duplicateOf |-> DuplicateOf]
    BY <1>3, AtHand DEF SaveManifest, CrawlTypeOK
  <2>4. manifest'[Final] # Nothing /\ manifest'[Final].content = site.content[Final]
    <3>1. [content |-> Page, duplicateOf |-> DuplicateOf] \in ManifestType
      BY AtHand DEF ManifestType
    <3> QED
      BY <2>3, <3>1, SiteAssumption DEF Page
  <2>5. \A u \in Url \ {Final} : manifest'[u] = manifest[u]
    BY <1>3 DEF SaveManifest, CrawlTypeOK
  <2> QED
    BY <2>1, <2>2, <2>4, <2>5, CapturedType DEF CapturesAreOnDisk
<1>4. CASE TakeVisited \/ Take \/ End
  BY <1>4 DEF TakeVisited, Take, End, store, CapturesAreOnDisk, Captured
<1>5. CASE FetchSkipped \/ FetchFailed \/ FetchPage \/ SaveFails
  BY <1>5 DEF FetchSkipped, FetchFailed, FetchPage, SaveFails, store, CapturesAreOnDisk, Captured
<1>6. CASE ExpandRaises \/ Expand \/ Crash
  BY <1>6 DEF ExpandRaises, Expand, Crash, store, CapturesAreOnDisk, Captured
<1>7. CASE UNCHANGED vars
  BY <1>7 DEF CapturesAreOnDisk, Captured, vars, memory, store
<1> QED
  BY <1>1, <1>2, <1>3, <1>4, <1>5, <1>6, <1>7 DEF Next, Step

LEMMA MarkedStep == CrawlTypeOK /\ CapturesAreOnDisk /\ Marked /\ [Next]_vars => Marked'
<1> SUFFICES ASSUME CrawlTypeOK, CapturesAreOnDisk, Marked, [Next]_vars PROVE Marked'
  OBVIOUS
<1>1. CASE Begin
  BY <1>1 DEF Begin, Fresh, Marked, Captured
<1>2. CASE SaveManifest
  <2> DEFINE mark == [content |-> Page, duplicateOf |-> DuplicateOf]
  <2>1. Captured' = Captured \union {Final} /\ site' = site
    BY <1>2, CapturedAdds DEF SaveManifest
  <2>2. Final \in Url /\ Page = site.content[Final] /\ Page \in Content
    BY AtHand DEF Page
  <2>3. /\ manifest'[Final].duplicateOf = first[Page]
        /\ \A u \in Url \ {Final} : manifest'[u] = manifest[u]
    BY <1>2, <2>2 DEF SaveManifest, CrawlTypeOK, DuplicateOf
  <2>4. /\ first'[Page] = FirstWith
        /\ \A t \in Content \ {Page} : first'[t] = first[t]
    BY <1>2, <2>2 DEF SaveManifest, CrawlTypeOK
  <2>5. Final # Nothing
    BY <2>2, SiteAssumption
  <2>6. \A u \in Captured : u \in Url /\ site.content[u] \in Content
    BY CapturedType, SiteFacts DEF CrawlTypeOK
  <2>7. CASE first[Page] = Nothing
    <3>1. first'[Page] = Final
      BY <2>4, <2>7 DEF FirstWith
    <3>2. \A u \in Captured : site.content[u] # Page
      BY <2>7 DEF Marked
    <3>3. \A t \in Content : first[t] # Final
      BY <2>2, <2>5, <3>2 DEF Marked
    <3> QED
      BY <2>1, <2>2, <2>3, <2>4, <2>5, <2>6, <2>7, <3>1, <3>2, <3>3 DEF Marked
  <2>8. CASE first[Page] # Nothing
    <3>1. first'[Page] = first[Page]
      BY <2>4, <2>8 DEF FirstWith
    <3>2. \A t \in Content : first'[t] = first[t]
      BY <2>4, <3>1
    <3>3. \A t \in Content : first[t] = Final => first[Page] = Final
      BY <2>2, <2>5 DEF Marked
    <3>4. \A u \in Captured' :
            /\ first'[site'.content[u]] # Nothing
            /\ manifest'[u].duplicateOf \in {Nothing, first'[site'.content[u]]}
      BY <2>1, <2>2, <2>3, <2>6, <2>8, <3>2 DEF Marked
    <3>5. ASSUME NEW t \in Content, first[t] # Nothing
          PROVE  /\ first[t] \in Captured'
                 /\ site'.content[first[t]] = t
                 /\ manifest'[first[t]].duplicateOf \in {Nothing, first[t]}
      BY <2>1, <2>2, <2>3, <2>6, <3>3, <3>5 DEF Marked
    <3> QED
      BY <3>2, <3>4, <3>5 DEF Marked
  <2> QED
    BY <2>7, <2>8
<1>3. CASE TakeVisited \/ Take \/ End
  BY <1>3 DEF TakeVisited, Take, End, store, Marked, Captured
<1>4. CASE FetchSkipped \/ FetchFailed \/ FetchPage \/ SaveFails \/ SaveRaw
  BY <1>4 DEF FetchSkipped, FetchFailed, FetchPage, SaveFails, SaveRaw, store, Marked,
              Captured
<1>5. CASE ExpandRaises \/ Expand \/ Crash
  BY <1>5 DEF ExpandRaises, Expand, Crash, store, Marked, Captured
<1>6. CASE UNCHANGED vars
  BY <1>6 DEF Marked, Captured, vars, memory, store
<1> QED
  BY <1>1, <1>2, <1>3, <1>4, <1>5, <1>6 DEF Next, Step

LEMMA WrittenStep == CrawlTypeOK /\ Written /\ [Next]_vars => Written'
<1> SUFFICES ASSUME CrawlTypeOK, Written, [Next]_vars PROVE Written'
  OBVIOUS
<1>1. CASE SaveRaw
  BY <1>1, AtHand DEF SaveRaw, Written, CrawlTypeOK, Final, Page
<1>2. CASE Begin \/ Take \/ TakeVisited \/ End
  BY <1>2 DEF Begin, Take, TakeVisited, End, Written
<1>3. CASE FetchSkipped \/ FetchFailed \/ FetchPage \/ SaveManifest \/ SaveFails
  BY <1>3 DEF FetchSkipped, FetchFailed, FetchPage, SaveManifest, SaveFails, Written
<1>4. CASE Expand \/ ExpandRaises \/ Crash
  BY <1>4 DEF Expand, ExpandRaises, Crash, Written
<1>5. CASE UNCHANGED vars
  BY <1>5 DEF Written, Final, Page, vars, memory, store
<1> QED
  BY <1>1, <1>2, <1>3, <1>4, <1>5 DEF Next, Step

LEMMA CrawlInvInit == Init => CrawlInv
BY DEF Init, CrawlInv, Awaited, Drained, AnswerKnown, Handled, Written,
   CapturesAreOnDisk, Marked, Captured

LEMMA CrawlInvariant == Spec => [](CrawlTypeOK /\ CrawlInv)
<1>1. Init => CrawlTypeOK /\ CrawlInv
  BY TypeInit, CrawlInvInit
<1>2. CrawlTypeOK /\ CrawlInv /\ [Next]_vars => (CrawlTypeOK /\ CrawlInv)'
  <2> SUFFICES ASSUME CrawlTypeOK, CrawlInv, [Next]_vars PROVE CrawlTypeOK' /\ CrawlInv'
    OBVIOUS
  <2>1. CrawlTypeOK'
    BY TypeStep
  <2>2. /\ Awaited' /\ Drained' /\ AnswerKnown' /\ Handled' /\ Written'
        /\ CapturesAreOnDisk' /\ Marked'
    BY AwaitedStep, DrainedStep, AnsweredStep, HandledStep, WrittenStep, OnDiskStep,
       MarkedStep DEF CrawlInv
  <2> QED
    BY <2>1, <2>2 DEF CrawlInv
<1> QED
  BY <1>1, <1>2, PTL DEF Spec

-----------------------------------------------------------------------------
(* What follows *)

\* A crawl that ends with neither a failure nor a skipped page captured the page
\* behind every URL it queued, for every site and every budget.
THEOREM CleanCrawlsAreComplete == Spec => []CleanResultIsComplete
<1>1. CrawlTypeOK /\ CrawlInv => CleanResultIsComplete
  <2> SUFFICES ASSUME CrawlTypeOK, CrawlInv, Ended, failures = {}, skipped = {}
               PROVE  \A u \in queued : site.final[u] \in Captured
    BY DEF CleanResultIsComplete
  <2>1. InHand = {}
    BY DEF InHand, Ended
  <2>2. \A v \in visited : site.final[v] \in Captured
    BY <2>1 DEF CrawlInv, Handled, Ended
  <2>3. queued \subseteq visited
    BY DEF CrawlInv, Awaited, Drained, LeftOver, Ended
  <2> QED
    BY <2>2, <2>3
<1> QED
  BY <1>1, CrawlInvariant, PTL

\* What a crawl has captured is on disk, both files with the content it saw, also after a
\* raise or a crash.
THEOREM CapturesAreStored == Spec => []CapturesAreOnDisk
<1>1. CrawlTypeOK /\ CrawlInv => CapturesAreOnDisk
  BY DEF CrawlInv, CapturesAreOnDisk
<1> QED
  BY <1>1, CrawlInvariant, PTL

\* A mark names a capture of this crawl with the same content that is itself
\* marked with no third document.
THEOREM MarksNameTheFirst == Spec => []DuplicatesNameTheirFirst
<1>1. CrawlTypeOK /\ CrawlInv => DuplicatesNameTheirFirst
  <2> SUFFICES ASSUME CrawlTypeOK, CrawlInv, NEW u \in Captured,
                      manifest[u].duplicateOf # Nothing
               PROVE  LET d == manifest[u].duplicateOf IN
                        /\ d \in Captured
                        /\ site.content[d] = site.content[u]
                        /\ manifest[d].duplicateOf \in {Nothing, d}
    BY DEF DuplicatesNameTheirFirst
  <2>1. site.content[u] \in Content
    BY CapturedType, SiteFacts DEF CrawlTypeOK
  <2>2. manifest[u].duplicateOf = first[site.content[u]]
    BY DEF CrawlInv, Marked
  <2> QED
    BY <2>1, <2>2 DEF CrawlInv, Marked
<1> QED
  BY <1>1, CrawlInvariant, PTL

\* Only a capture replaces a manifest, and it reports what it replaced.
THEOREM ReportsTellTheChange == Spec => ChangesAreReported
<1> DEFINE Replaced(u) == manifest'[u] # manifest[u]
             => Len(pages') > Len(pages) /\ Last(pages').url = u
           Told(u) == Last(pages').status = IF manifest[u] = Nothing THEN "new"
                                           ELSE IF manifest'[u].content = manifest[u].content
                                           THEN "unchanged" ELSE "changed"
           Reported == /\ \A u \in Url : Replaced(u)
                       /\ Len(pages') > Len(pages) => Told(Last(pages').url)
<1>1. CrawlTypeOK /\ [Next]_vars => Reported
  <2> SUFFICES ASSUME CrawlTypeOK, [Next]_vars PROVE Reported
    OBVIOUS
  <2>1. CASE SaveManifest
    <3> DEFINE page == [url |-> Final, status |-> ChangeStatus(PreviousHash)]
    <3>1. Len(pages') = Len(pages) + 1 /\ Last(pages') = page /\ Len(pages) \in Nat
      <4>1. pages \in Seq(Capture) /\ pages' = Append(pages, page)
        BY <2>1 DEF SaveManifest, CrawlTypeOK
      <4> HIDE DEF page
      <4> QED
        BY <4>1 DEF Last
    <3>2. Last(pages').url = Final /\ Last(pages').status = ChangeStatus(PreviousHash)
      BY <3>1
    <3>3. \A u \in Url : u # Final => manifest'[u] = manifest[u]
      BY <2>1 DEF SaveManifest, CrawlTypeOK
    <3>4. Final \in Url
      BY AtHand
    <3>5. manifest'[Final].content = Page
      BY <2>1, <3>4 DEF SaveManifest, CrawlTypeOK
    <3>6. manifest[Final] # Nothing => manifest[Final].content # Nothing
      BY <3>4, SiteAssumption DEF CrawlTypeOK, ManifestType
    <3>7. Told(Final)
      BY <3>2, <3>5, <3>6 DEF ChangeStatus, PreviousHash
    <3> QED
      BY <3>1, <3>2, <3>3, <3>7
  <2>2. CASE ~SaveManifest
    <3>1. manifest' = manifest /\ (pages' = pages \/ pages' = << >>)
      BY <2>2 DEF Next, Step, Begin, TakeVisited, Take, End, FetchSkipped, FetchFailed,
         FetchPage, SaveRaw, SaveFails, ExpandRaises, Expand, Crash, Fresh, store, memory,
         vars
    <3>2. pages \in Seq(Capture)
      BY DEF CrawlTypeOK
    <3> QED
      BY <3>1, <3>2
  <2> QED
    BY <2>1, <2>2
<1>2. Reported => [Reported]_vars
  OBVIOUS
<1> QED
  BY <1>1, <1>2, CrawlInvariant, PTL DEF Spec, ChangesAreReported

-----------------------------------------------------------------------------
(* The traversal stays in its bounds *)

\* No URL has two entries.
Once(entries) == \A i, j \in DOMAIN entries : entries[i].url = entries[j].url => i = j

\* The queue holds URLs in scope, each once, at depths that were asked for; the
\* requests stay inside the budget, and every capture used one up.
InBounds ==
  /\ queued \subseteq Scope
  /\ Once(queue)
  /\ \A i \in DOMAIN queue : queue[i].url \in queued /\ queue[i].depth <= MaxDepth
  /\ current.depth <= MaxDepth
  /\ attempts \in 0 .. MaxPages
  /\ Len(pages) <= attempts
  /\ pc \in {"fetch", "raw", "manifest"} => Len(pages) < attempts

LEMMA EntriesJoin ==
  ASSUME NEW a \in Seq(Entry), NEW q \in Seq(Entry), NEW b \in Seq(Entry),
         Once(a), Once(q), Once(b),
         \A i \in DOMAIN a, j \in DOMAIN q : a[i].url # q[j].url,
         \A i \in DOMAIN a, j \in DOMAIN b : a[i].url # b[j].url,
         \A i \in DOMAIN q, j \in DOMAIN b : q[i].url # b[j].url,
         NEW P, \A i \in DOMAIN a : a[i] \in P, \A i \in DOMAIN q : q[i] \in P,
         \A i \in DOMAIN b : b[i] \in P
  PROVE  Once(a \o q \o b) /\ \A i \in DOMAIN (a \o q \o b) : (a \o q \o b)[i] \in P
<1> DEFINE l == a \o q \o b
<1>1. /\ Len(a) \in Nat /\ Len(q) \in Nat /\ Len(b) \in Nat
      /\ DOMAIN a = 1 .. Len(a) /\ DOMAIN q = 1 .. Len(q) /\ DOMAIN b = 1 .. Len(b)
      /\ DOMAIN l = 1 .. Len(a) + Len(q) + Len(b)
  OBVIOUS
<1>2. \A i \in DOMAIN l :
        \/ i \in DOMAIN a /\ l[i] = a[i]
        \/ i - Len(a) \in DOMAIN q /\ l[i] = q[i - Len(a)]
        \/ i - Len(a) - Len(q) \in DOMAIN b /\ l[i] = b[i - Len(a) - Len(q)]
  OBVIOUS
<1>3. \A i \in DOMAIN l : i \in Nat
  BY <1>1
<1> HIDE DEF l
<1>4. Once(l)
  <2> SUFFICES ASSUME NEW i \in DOMAIN l, NEW j \in DOMAIN l, l[i].url = l[j].url PROVE i = j
    BY DEF Once
  <2>1. CASE i \in DOMAIN a /\ l[i] = a[i]
    BY <1>1, <1>2, <1>3, <2>1 DEF Once
  <2>2. CASE i - Len(a) \in DOMAIN q /\ l[i] = q[i - Len(a)]
    <3>1. j - Len(a) \in DOMAIN q /\ l[j] = q[j - Len(a)]
      BY <1>2, <2>2
    <3> QED
      BY <1>1, <1>3, <2>2, <3>1 DEF Once
  <2>3. CASE i - Len(a) - Len(q) \in DOMAIN b /\ l[i] = b[i - Len(a) - Len(q)]
    <3>1. j - Len(a) - Len(q) \in DOMAIN b /\ l[j] = b[j - Len(a) - Len(q)]
      BY <1>2, <2>3
    <3> QED
      BY <1>1, <1>3, <2>3, <3>1 DEF Once
  <2> QED
    BY <1>2, <2>1, <2>2, <2>3
<1>5. \A i \in DOMAIN l : l[i] \in P
  BY <1>2
<1> QED
  BY <1>4, <1>5 DEF l

LEMMA AtOnce ==
  ASSUME NEW urls \in Seq(Url), Distinct(urls), NEW depth \in Nat
  PROVE  /\ Once(At(urls, depth))
         /\ DOMAIN At(urls, depth) = DOMAIN urls
         /\ \A i \in DOMAIN urls : At(urls, depth)[i].url = urls[i]
                                   /\ At(urls, depth)[i].depth = depth
<1>1. /\ DOMAIN At(urls, depth) = DOMAIN urls
      /\ \A i \in DOMAIN urls : At(urls, depth)[i].url = urls[i]
                                /\ At(urls, depth)[i].depth = depth
  BY DEF At
<1> QED
  BY <1>1 DEF Once, Distinct

LEMMA ExpandInBounds ==
  ASSUME CrawlTypeOK, InBounds, Expand
  PROVE  InBounds'
<1>1. PICK variants : variants = Unseen(Annual, queued)
  OBVIOUS
<1>2. /\ variants \in Seq(Url) /\ Distinct(variants)
      /\ Range(variants) \subseteq Scope \ queued
  BY <1>1, AtHand, NewLinksAreQueuedOnce DEF CrawlTypeOK
<1>3. PICK known \in SUBSET Url : known = queued \union Range(variants)
  BY <1>2, SiteAssumption DEF CrawlTypeOK
<1>4. PICK deeper : deeper = IF DepthLeft THEN Unseen(site.links[Final], known) ELSE << >>
  OBVIOUS
<1>5. /\ deeper \in Seq(Url) /\ Distinct(deeper) /\ Range(deeper) \subseteq Scope \ known
      /\ deeper # << >> => DepthLeft
  <2>1. CASE DepthLeft
    BY <1>3, <1>4, <2>1, AtHand, NewLinksAreQueuedOnce
  <2>2. CASE ~DepthLeft
    <3>1. deeper = << >> /\ DOMAIN deeper = {}
      BY <1>4, <2>2
    <3> QED
      BY <3>1 DEF Distinct, Range
  <2> QED
    BY <2>1, <2>2
<1>6. /\ queue' = At(variants, current.depth) \o queue \o At(deeper, current.depth + 1)
      /\ queued' = queued \union Range(variants) \union Range(deeper)
      /\ UNCHANGED << current, attempts, pages >> /\ pc' = "loop"
  BY <1>1, <1>3, <1>4 DEF Expand
<1>7. PICK depth \in Nat : depth = current.depth
  BY AtHand
<1>8. PICK a, b : a = At(variants, depth) /\ b = At(deeper, depth + 1)
  OBVIOUS
<1>9. /\ a \in Seq(Entry) /\ Once(a) /\ DOMAIN a = DOMAIN variants
      /\ \A i \in DOMAIN a : a[i].url \in Range(variants) /\ a[i].depth = depth
  BY <1>2, <1>8, AtType, AtOnce DEF Range
<1>10. /\ b \in Seq(Entry) /\ Once(b) /\ DOMAIN b = DOMAIN deeper
       /\ \A i \in DOMAIN b : b[i].url \in Range(deeper) /\ b[i].depth = depth + 1
  BY <1>5, <1>8, AtType, AtOnce DEF Range
<1>11. queue \in Seq(Entry) /\ MaxDepth \in Nat
  BY SiteAssumption DEF CrawlTypeOK
<1> DEFINE P == {e \in Entry : e.url \in queued' /\ e.depth <= MaxDepth}
<1>12. \A i \in DOMAIN a : a[i] \in P
  <2>1. \A i \in DOMAIN a : a[i] \in Entry
    BY <1>9
  <2> QED
    BY <1>6, <1>7, <1>9, <2>1 DEF InBounds
<1>13. \A i \in DOMAIN queue : queue[i] \in P
  <2>1. \A i \in DOMAIN queue : queue[i] \in Entry
    BY <1>11
  <2> QED
    BY <1>6, <2>1 DEF InBounds
<1>14. \A i \in DOMAIN b : b[i] \in P
  <2>1. \A i \in DOMAIN b : b[i] \in Entry /\ deeper # << >>
    BY <1>10
  <2> QED
    BY <1>5, <1>6, <1>7, <1>10, <1>11, <2>1 DEF DepthLeft
<1>15. /\ \A i \in DOMAIN a, j \in DOMAIN queue : a[i].url # queue[j].url
       /\ \A i \in DOMAIN a, j \in DOMAIN b : a[i].url # b[j].url
       /\ \A i \in DOMAIN queue, j \in DOMAIN b : queue[i].url # b[j].url
  BY <1>2, <1>3, <1>5, <1>9, <1>10 DEF InBounds
<1>16. Once(queue') /\ \A i \in DOMAIN queue' : queue'[i] \in P
  <2>1. queue' = a \o queue \o b /\ Once(queue)
    BY <1>6, <1>7, <1>8 DEF InBounds
  <2> HIDE DEF P
  <2> QED
    BY <1>9, <1>10, <1>11, <1>12, <1>13, <1>14, <1>15, <2>1, EntriesJoin
<1>17. queued' \subseteq Scope
  BY <1>2, <1>5, <1>6 DEF InBounds
<1> QED
  BY <1>6, <1>16, <1>17 DEF InBounds, Once

LEMMA InBoundsStep == CrawlTypeOK /\ InBounds /\ [Next]_vars => InBounds'
<1> SUFFICES ASSUME CrawlTypeOK, InBounds, [Next]_vars PROVE InBounds'
  OBVIOUS
<1> USE SiteAssumption
<1>0. Len(pages) \in Nat /\ attempts \in Nat /\ queue \in Seq(Entry)
  BY DEF CrawlTypeOK, InBounds
<1>1. CASE Begin
  <2>1. PICK sd \in Scope : /\ queue' = << [url |-> sd, depth |-> 0] >> /\ queued' = {sd}
                            /\ attempts' = 0 /\ pages' = << >>
                            /\ current' = [url |-> sd, depth |-> 0] /\ pc' = "loop"
    BY <1>1 DEF Begin, Fresh
  <2> QED
    BY <2>1 DEF InBounds, Once
<1>2. CASE TakeVisited \/ Take
  <2>1. queue # << >> /\ queue' = Tail(queue) /\ UNCHANGED << queued, pages >>
    BY <1>2 DEF TakeVisited, Take, MayContinue
  <2>2. \A i \in DOMAIN queue' : i + 1 \in DOMAIN queue /\ queue'[i] = queue[i + 1] /\ i \in Nat
    BY <1>0, <2>1
  <2>3. Once(queue')
    BY <2>2 DEF InBounds, Once
  <2>4. \A i \in DOMAIN queue' : queue'[i].url \in queued' /\ queue'[i].depth <= MaxDepth
    BY <2>1, <2>2 DEF InBounds
  <2>5. current'.depth <= MaxDepth
    <3>1. Head(queue).depth <= MaxDepth
      BY <1>0, <2>1 DEF InBounds
    <3> QED
      BY <1>2, <3>1 DEF TakeVisited, Take, InBounds
  <2>6. /\ attempts' \in 0 .. MaxPages /\ Len(pages') <= attempts'
        /\ pc' \in {"fetch", "raw", "manifest"} => Len(pages') < attempts'
    BY <1>0, <1>2 DEF TakeVisited, Take, MayContinue, InBounds
  <2> QED
    BY <2>1, <2>3, <2>4, <2>5, <2>6 DEF InBounds, Once
<1>3. CASE End
  BY <1>3 DEF End, InBounds, Once
<1>4. CASE FetchSkipped \/ FetchFailed \/ FetchPage
  BY <1>4 DEF FetchSkipped, FetchFailed, FetchPage, InBounds, Once
<1>5. CASE SaveRaw \/ SaveFails
  BY <1>5 DEF SaveRaw, SaveFails, InBounds, Once
<1>6. CASE SaveManifest
  <2>1. Len(pages') = Len(pages) + 1
    BY <1>6 DEF SaveManifest, CrawlTypeOK
  <2> QED
    BY <1>0, <1>6, <2>1 DEF SaveManifest, InBounds, Once
<1>7. CASE ExpandRaises \/ Crash
  BY <1>7 DEF ExpandRaises, Crash, InBounds, Once
<1>8. CASE UNCHANGED vars
  BY <1>8 DEF vars, memory, InBounds, Once
<1> QED
  BY <1>1, <1>2, <1>3, <1>4, <1>5, <1>6, <1>7, <1>8, ExpandInBounds DEF Next, Step

\* Whatever the pages link to and however they redirect: a crawl only ever
\* queues URLs in scope, each at most once and no deeper than it was asked to,
\* makes no more requests than its budget, and captures no more pages than it
\* made requests.
THEOREM TraversalStaysInBounds == Spec => []InBounds
<1>1. Init => CrawlTypeOK /\ InBounds
  <2>1. Init => InBounds
    BY SiteAssumption DEF Init, InBounds, Once
  <2> QED
    BY <2>1, TypeInit
<1> QED
  BY <1>1, InBoundsStep, TypeStep, PTL DEF Spec

-----------------------------------------------------------------------------
(* The inductive invariant.                                                   *)

\* A fetch that was asked to wait is past its check and knows for how long.
FetchState ==
  {f \in [kind : {"page", "robots"}, url : Urls, redirects : Nat, attempt : 0 .. MaxRetries,
          delay : 0 .. MaxRetryAfter, asked : Nat \cup {None}, pc : {"check", "send"}] :
     f.asked # None => f.pc = "send" /\ f.delay >= Min({f.asked, MaxRetryAfter})}

\* The stack holds a page, or a page that waits in its check for a robots.txt.
Stacked(stack) ==
  /\ stack \in Seq(FetchState)
  /\ Len(stack) <= 2
  /\ Len(stack) = 1 => stack[1].kind = "page"
  /\ Len(stack) = 2 => stack[1].kind = "page" /\ stack[1].pc = "check" /\ stack[2].kind = "robots"

\* A hop past its check may be requested.
Checked(fetch) ==
  fetch.pc = "send" =>
    /\ HostAllowed(fetch.url)
    /\ fetch.kind = "page" =>
         /\ PathAllowed(fetch.url)
         /\ robots[fetch.url.host] # None /\ fetch.url.path \in robots[fetch.url.host]

StackInv ==
  /\ Stacked(fetches)
  /\ fetches # << >> => Checked(Top) /\ (Top.asked # None => made)

HttpInv ==
  /\ StackInv
  /\ DOMAIN robots = Hosts
  /\ made \in BOOLEAN
  /\ RequestsAreAllowed
  /\ RetriesAreDue

-----------------------------------------------------------------------------
(* Lemmas on stacks of at most two fetches.                                   *)

\* An empty stack has no top, a stack of one fetch is it, and below a second
\* fetch there is one.
LEMMA StackShape ==
  ASSUME NEW stack, Stacked(stack), stack # << >>
  PROVE  /\ Len(stack) \in {1, 2}
         /\ Last(stack) = stack[Len(stack)]
         /\ Last(stack) \in FetchState
         /\ Len(stack) = 1 <=> Last(stack).kind = "page"
         /\ Front(stack) = IF Len(stack) = 1 THEN << >> ELSE << stack[1] >>
         /\ stack[1] \in FetchState
<1>1. Len(stack) \in Nat /\ Len(stack) > 0
  BY EmptySeq, LenProperties DEF Stacked
<1>2. Len(stack) \in {1, 2}
  <2>1. Len(stack) <= 2
    BY DEF Stacked
  <2>2. \A n \in Nat : n > 0 /\ n <= 2 => n \in {1, 2}
    OBVIOUS
  <2> QED BY <1>1, <2>1, <2>2
<1>3. \A i \in 1 .. Len(stack) : stack[i] \in FetchState
  <2>1. stack \in Seq(FetchState)
    BY DEF Stacked
  <2> QED BY <2>1, ElementOfSeq
<1>4. CASE Len(stack) = 1
  <2>1. Front(stack) = << >>
    BY <1>4, SubSeqEmpty DEF Front
  <2> QED BY <1>3, <1>4, <2>1 DEF Last, Stacked
<1>5. CASE Len(stack) = 2
  <2>1. Front(stack) = SubSeq(stack, 1, 1)
    BY <1>5 DEF Front
  <2>2. /\ SubSeq(stack, 1, 1) \in Seq(FetchState)
        /\ Len(SubSeq(stack, 1, 1)) = 1
        /\ SubSeq(stack, 1, 1)[1] = stack[1]
    <3>1. \A i \in 1 .. 1 : stack[i] \in FetchState
      BY <1>3, <1>5
    <3> QED BY <3>1, SubSeqProperties
  <2>3. Front(stack) = << stack[1] >>
    <3>1. stack[1] \in FetchState
      BY <1>3, <1>5
    <3>2. << stack[1] >> \in Seq(FetchState) /\ Len(<< stack[1] >>) = 1 /\ << stack[1] >>[1] = stack[1]
      BY <3>1
    <3>3. /\ Len(SubSeq(stack, 1, 1)) = Len(<< stack[1] >>)
          /\ \A i \in 1 .. Len(SubSeq(stack, 1, 1)) : SubSeq(stack, 1, 1)[i] = << stack[1] >>[i]
      BY <2>2, <3>2
    <3>4. SubSeq(stack, 1, 1) = << stack[1] >>
      BY <2>2, <3>2, <3>3, SeqEqual
    <3> QED BY <2>1, <3>4
  <2>4. Last(stack) = stack[2] /\ stack[1] \in FetchState /\ stack[2] \in FetchState
    BY <1>3, <1>5 DEF Last
  <2>5. stack[2].kind # "page"
    BY <1>5 DEF Stacked
  <2> QED BY <1>5, <2>3, <2>4, <2>5
<1> QED BY <1>2, <1>4, <1>5

\* A page on top is alone.
LEMMA LonePage ==
  ASSUME NEW stack, Stacked(stack), stack # << >>, Last(stack).kind = "page"
  PROVE  stack = << Last(stack) >>
<1>1. Len(stack) = 1 /\ Last(stack) = stack[1] /\ stack[1] \in FetchState
  BY StackShape
<1>2. stack \in Seq(FetchState)
  BY DEF Stacked
<1>3. << stack[1] >> \in Seq(FetchState) /\ Len(<< stack[1] >>) = 1 /\ << stack[1] >>[1] = stack[1]
  BY <1>1
<1>4. \A i \in 1 .. Len(stack) : stack[i] = << stack[1] >>[i]
  BY <1>1, <1>3
<1>5. stack = << stack[1] >>
  BY <1>1, <1>2, <1>3, <1>4, SeqEqual
<1> QED BY <1>1, <1>5

\* The empty stack is in shape.
LEMMA EmptyShape == Stacked(<< >>)
  BY DEF Stacked

\* A page alone is in shape.
LEMMA OneFetch ==
  ASSUME NEW fetch \in FetchState, fetch.kind = "page"
  PROVE  Stacked(<< fetch >>) /\ << fetch >> # << >> /\ Last(<< fetch >>) = fetch
  BY DEF Stacked, Last

\* So is a page in its check with the fetch of a robots.txt above it.
LEMMA TwoFetches ==
  ASSUME NEW page \in FetchState, page.kind = "page", page.pc = "check",
         NEW fetch \in FetchState, fetch.kind = "robots"
  PROVE  Stacked(<< page, fetch >>) /\ << page, fetch >> # << >> /\ Last(<< page, fetch >>) = fetch
<1>1. << page, fetch >> \in Seq(FetchState) /\ Len(<< page, fetch >>) = 2
  OBVIOUS
<1>2. << page, fetch >>[1] = page /\ << page, fetch >>[2] = fetch
  OBVIOUS
<1> QED BY <1>1, <1>2 DEF Stacked, Last

\* A second fetch appended to a page is above it.
LEMMA AppendPair ==
  ASSUME NEW page \in FetchState, NEW fetch \in FetchState
  PROVE  Append(<< page >>, fetch) = << page, fetch >>
<1> DEFINE s == Append(<< page >>, fetch)
           t == << page, fetch >>
<1>1. << page >> \in Seq(FetchState) /\ Len(<< page >>) = 1 /\ << page >>[1] = page
  OBVIOUS
<1>2. s \in Seq(FetchState) /\ Len(s) = 2 /\ s[1] = page /\ s[2] = fetch
  BY <1>1, AppendProperties
<1>3. t \in Seq(FetchState) /\ Len(t) = 2 /\ t[1] = page /\ t[2] = fetch
  OBVIOUS
<1> HIDE DEF s, t
<1>4. Len(s) = Len(t) /\ \A i \in 1 .. Len(s) : s[i] = t[i]
  <2>1. \A i \in 1 .. 2 : i = 1 \/ i = 2
    OBVIOUS
  <2> QED BY <1>2, <1>3, <2>1
<1>5. s = t
  BY <1>2, <1>3, <1>4, SeqEqual
<1> QED BY <1>5 DEF s, t

\* Going on with the fetch on top keeps the stack in shape.
LEMMA ContinueKeepsShape ==
  ASSUME NEW stack, Stacked(stack), stack # << >>,
         NEW fetch \in FetchState, fetch.kind = Last(stack).kind
  PROVE  /\ Stacked(Append(Front(stack), fetch))
         /\ Last(Append(Front(stack), fetch)) = fetch
         /\ Append(Front(stack), fetch) # << >>
<1>1. CASE Len(stack) = 1
  <2>1. Front(stack) = << >>
    BY <1>1, StackShape
  <2>2. Append(<< >>, fetch) = << fetch >>
    OBVIOUS
  <2>3. fetch.kind = "page"
    BY <1>1, StackShape
  <2> QED BY <2>1, <2>2, <2>3, OneFetch
<1>2. CASE Len(stack) = 2
  <2>1. Front(stack) = << stack[1] >>
    BY <1>2, StackShape
  <2>2. fetch.kind = "robots"
    <3>1. stack[2].kind = "robots"
      BY <1>2 DEF Stacked
    <3> QED BY <1>2, <3>1, StackShape
  <2>3. stack[1] \in FetchState /\ stack[1].kind = "page" /\ stack[1].pc = "check"
    BY <1>2, StackShape DEF Stacked
  <2>4. Append(<< stack[1] >>, fetch) = << stack[1], fetch >>
    BY <2>3, AppendPair
  <2> QED BY <2>1, <2>2, <2>3, <2>4, TwoFetches
<1> QED BY <1>1, <1>2, StackShape

\* When the fetch on top is over, a page that waits for it is back in its check.
LEMMA PopKeepsShape ==
  ASSUME NEW stack, Stacked(stack), stack # << >>
  PROVE  /\ Stacked(Front(stack))
         /\ Front(stack) # << >> => Last(Front(stack)).pc = "check"
<1>1. CASE Len(stack) = 1
  <2>1. Front(stack) = << >>
    BY <1>1, StackShape
  <2> QED BY <2>1, EmptyShape
<1>2. CASE Len(stack) = 2
  <2>1. Front(stack) = << stack[1] >> /\ stack[1] \in FetchState
    BY <1>2, StackShape
  <2>2. stack[1].kind = "page" /\ stack[1].pc = "check"
    BY <1>2 DEF Stacked
  <2> QED BY <2>1, <2>2, OneFetch
<1> QED BY <1>1, <1>2, StackShape

-----------------------------------------------------------------------------
(* Lemmas on pauses.                                                          *)

\* Max and Min of two numbers.
LEMMA MaxOfTwo ==
  ASSUME NEW a \in Int, NEW b \in Int
  PROVE  Max({a, b}) = IF a >= b THEN a ELSE b
<1>1. \E x \in {a, b} : \A y \in {a, b} : x >= y
  OBVIOUS
<1> QED BY <1>1 DEF Max
LEMMA MinOfTwo ==
  ASSUME NEW a \in Int, NEW b \in Int
  PROVE  Min({a, b}) = IF a <= b THEN a ELSE b
<1>1. \E x \in {a, b} : \A y \in {a, b} : x <= y
  OBVIOUS
<1> QED BY <1>1 DEF Min

\* The delay after an answer is what it asked for, up to the limit.
LEMMA DelayIsCapped ==
  ASSUME NEW retryAfter \in RetryAfters \cup {None}, NEW attempt \in 0 .. MaxRetries
  PROVE  /\ RetryDelay(retryAfter, attempt) \in 0 .. MaxRetryAfter
         /\ retryAfter # None =>
              RetryDelay(retryAfter, attempt) >= Min({retryAfter, MaxRetryAfter})
<1> DEFINE wish == IF retryAfter # None THEN retryAfter ELSE 2 ^ attempt
<1>1. wish \in Nat /\ MaxRetryAfter \in Nat
  BY RetryAssumption, PowerAssumption
<1>2. RetryDelay(retryAfter, attempt) = Min({MaxRetryAfter, wish})
  BY DEF RetryDelay
<1>3. retryAfter # None => wish = retryAfter
  OBVIOUS
<1> HIDE DEF wish
<1>4. Min({MaxRetryAfter, wish}) = IF MaxRetryAfter <= wish THEN MaxRetryAfter ELSE wish
  BY <1>1, MinOfTwo
<1>5. retryAfter # None =>
        Min({retryAfter, MaxRetryAfter}) =
          IF retryAfter <= MaxRetryAfter THEN retryAfter ELSE MaxRetryAfter
  BY <1>1, <1>3, MinOfTwo
<1> QED BY <1>1, <1>2, <1>3, <1>4, <1>5

-----------------------------------------------------------------------------
(* What a request, and what the end of one, leaves of the invariant.          *)

\* The hop that is sent is one that was checked.
LEMMA SendsWhatWasChecked ==
  ASSUME HttpInv, Sends
  PROVE  /\ HostAllowed(sent'.url)
         /\ sent'.kind = "page" =>
              /\ PathAllowed(sent'.url)
              /\ robots[sent'.url.host] # None /\ sent'.url.path \in robots[sent'.url.host]
         /\ sent'.kind = Top.kind
<1>1. sent'.url = Top.url /\ sent'.kind = Top.kind
  BY DEF Sends
<1>2. Checked(Top) /\ Top.pc = "send"
  BY DEF HttpInv, StackInv, Sends
<1> QED BY <1>1, <1>2 DEF Checked

\* The pause before it is due.
LEMMA SendsWhenDue ==
  ASSUME HttpInv, Sends
  PROVE  /\ sent'.first \/ sent'.pause >= RequestDelay
         /\ sent'.pause <= Max({RequestDelay, MaxRetryAfter})
         /\ sent'.asked # None => sent'.pause >= Min({sent'.asked, MaxRetryAfter})
<1>1. /\ sent'.pause = Pause(Top) /\ sent'.first = ~made /\ sent'.asked = Top.asked
  BY DEF Sends
<1>2. Top \in FetchState
  BY StackShape DEF HttpInv, StackInv, Sends, Top
<1>3. /\ Top.delay \in 0 .. MaxRetryAfter
      /\ Top.asked # None => Top.asked \in Nat /\ Top.delay >= Min({Top.asked, MaxRetryAfter})
  BY <1>2 DEF FetchState
<1>4. RequestDelay \in Nat /\ MaxRetryAfter \in Nat
  BY RetryAssumption
<1>5. /\ Max({RequestDelay, Top.delay}) = IF RequestDelay >= Top.delay THEN RequestDelay ELSE Top.delay
      /\ Max({RequestDelay, MaxRetryAfter}) = IF RequestDelay >= MaxRetryAfter THEN RequestDelay ELSE MaxRetryAfter
  BY <1>3, <1>4, MaxOfTwo
<1>6. Top.asked # None =>
        Min({Top.asked, MaxRetryAfter}) \in Int /\ made
  <2>1. Top.asked # None => made
    BY DEF HttpInv, StackInv, Sends
  <2> QED BY <1>3, <1>4, <2>1, MinOfTwo
<1>7. CASE made
  <2>1. Pause(Top) = Max({RequestDelay, Top.delay})
    BY <1>7 DEF Pause
  <2> QED BY <1>1, <1>3, <1>4, <1>5, <1>6, <2>1
<1>8. CASE ~made
  <2>1. Pause(Top) = 0
    BY <1>8 DEF Pause
  <2>2. sent'.first /\ sent'.asked = None
    BY <1>1, <1>6, <1>8, Zenon
  <2>3. sent'.pause <= Max({RequestDelay, MaxRetryAfter})
    BY <1>1, <1>4, <1>5, <2>1
  <2> QED BY <2>2, <2>3, Zenon
<1> QED BY <1>7, <1>8

\* A failed page leaves an empty stack.
LEMMA FailedPage ==
  ASSUME PageFails
  PROVE  StackInv'
BY EmptyShape DEF PageFails, StackInv

\* A hop that goes on keeps the stack in shape.
LEMMA ContinuedFetch ==
  ASSUME HttpInv, fetches # << >>,
         NEW fetch \in FetchState, fetch.kind = Top.kind, Continue(fetch),
         Checked(fetch)', fetch.asked # None => made'
  PROVE  StackInv'
<1>1. Stacked(fetches')
  BY ContinueKeepsShape DEF HttpInv, StackInv, Continue, Top
<1>2. Last(fetches') = fetch
  BY ContinueKeepsShape DEF HttpInv, StackInv, Continue, Top
<1> QED BY <1>1, <1>2 DEF StackInv, Top

\* A fetch that is over leaves its page in a check that is still to come.
LEMMA EndedFetch ==
  ASSUME HttpInv, fetches # << >>, fetches' = Front(fetches)
  PROVE  StackInv'
<1>1. Stacked(fetches') /\ (fetches' # << >> => Last(fetches').pc = "check")
  BY PopKeepsShape DEF HttpInv, StackInv
<1>2. fetches' # << >> => Last(fetches') \in FetchState
  BY <1>1, StackShape
<1>3. fetches' # << >> => Last(fetches').asked = None
  BY <1>1, <1>2 DEF FetchState
<1> QED BY <1>1, <1>3 DEF StackInv, Top, Checked

\* A new fetch is one of the fetches, and waits for nothing.
LEMMA NewFetch ==
  ASSUME NEW kind \in {"page", "robots"}, NEW url \in Urls
  PROVE  /\ Fetch(kind, url) \in FetchState
         /\ Fetch(kind, url).kind = kind /\ Fetch(kind, url).pc = "check"
         /\ Fetch(kind, url).asked = None
BY RetryAssumption DEF Fetch, FetchState

-----------------------------------------------------------------------------
(* The invariant is inductive.                                                *)

LEMMA HttpInvInit == HttpInit => HttpInv
<1> SUFFICES ASSUME HttpInit PROVE HttpInv
  OBVIOUS
<1>1. StackInv
  BY EmptyShape DEF HttpInit, StackInv
<1> QED BY <1>1 DEF HttpInit, HttpInv, RequestsAreAllowed, RetriesAreDue

\* Steps that send nothing only have to leave the stack in order.
LEMMA NothingSent ==
  ASSUME HttpInv, StackInv', UNCHANGED << robots, made, sent, ended >>
  PROVE  HttpInv'
BY DEF HttpInv, RequestsAreAllowed, RetriesAreDue, HostAllowed, PathAllowed

\* Steps that send also have to end a hop truly; if they learn a robots.txt,
\* they sent for it.
LEMMA OneSent ==
  ASSUME HttpInv, Sends, StackInv', DOMAIN robots' = Hosts,
         Top.kind = "robots" \/ robots' = robots,
         \/ UNCHANGED ended
         \/ ended'.how \in {"network", "transient"} => ended'.attempts = MaxRetries + 1
  PROVE  HttpInv'
<1>1. made' \in BOOLEAN
  BY DEF Sends
<1>2. RequestsAreAllowed'
  BY SendsWhatWasChecked DEF RequestsAreAllowed, HostAllowed, PathAllowed
<1>3. RetriesAreDue'
  BY SendsWhenDue DEF HttpInv, RetriesAreDue
<1> QED BY <1>1, <1>2, <1>3 DEF HttpInv

LEMMA HttpInvNext == HttpInv /\ [HttpNext]_httpVars => HttpInv'
<1> SUFFICES ASSUME HttpInv, [HttpNext]_httpVars PROVE HttpInv'
  OBVIOUS
<1>a. Sends => /\ fetches # << >> /\ Top \in FetchState /\ made' = TRUE /\ Checked(Top)
  BY StackShape DEF Sends, HttpInv, StackInv, Top
<1>1. ASSUME NEW url \in Urls, Visit(url) PROVE HttpInv'
  <2>1. fetches' = << Fetch("page", url) >>
    BY <1>1 DEF Visit
  <2>2. StackInv'
    BY <2>1, NewFetch, OneFetch DEF StackInv, Top, Checked
  <2> QED BY <1>1, <2>2, NothingSent DEF Visit
<1>2. CASE Check
  <2>1. StackInv'
    <3> DEFINE url == Top.url
    <3>1. Top \in FetchState /\ fetches # << >>
      BY <1>2, StackShape DEF Check, HttpInv, StackInv, Top
    <3>2. Top.asked = None /\ Top.pc = "check"
      BY <1>2, <3>1 DEF Check, FetchState
    <3>3. CASE PageFails
      BY <3>3, FailedPage
    <3>4. CASE /\ Continue([Top EXCEPT !.pc = "send"])
               /\ HostAllowed(url)
               /\ Top.kind = "page" =>
                    PathAllowed(url) /\ robots[url.host] # None /\ url.path \in robots[url.host]
      <4>1. [Top EXCEPT !.pc = "send"] \in FetchState
        BY <3>1, <3>2 DEF FetchState
      <4>2. PICK next \in FetchState : next = [Top EXCEPT !.pc = "send"]
        BY <4>1
      <4>3. next.kind = Top.kind /\ next.url = url /\ next.asked = None
        BY <3>1, <3>2, <4>2 DEF FetchState
      <4>4. Checked(next)'
        BY <1>2, <3>4, <4>3 DEF Check, Checked, HostAllowed, PathAllowed
      <4>5. Continue(next)
        BY <3>4, <4>2
      <4> QED BY <3>1, <4>3, <4>4, <4>5, ContinuedFetch
    <3>5. CASE /\ fetches' = Append(fetches, Fetch("robots", Address(url.host, Robots)))
               /\ Top.kind = "page"
      <4> DEFINE robotsFetch == Fetch("robots", Address(url.host, Robots))
      <4>1. Address(url.host, Robots) \in Urls
        <5>1. url \in Urls
          BY <3>1 DEF FetchState
        <5> QED BY <5>1 DEF Urls, Address
      <4>2. /\ robotsFetch \in FetchState /\ robotsFetch.kind = "robots"
            /\ robotsFetch.pc = "check" /\ robotsFetch.asked = None
        BY <4>1, NewFetch
      <4> HIDE DEF robotsFetch
      <4>3. fetches = << Top >>
        BY <3>1, <3>5, LonePage DEF HttpInv, StackInv, Top
      <4>4. fetches' = << Top, robotsFetch >>
        BY <3>1, <3>5, <4>2, <4>3, AppendPair DEF robotsFetch
      <4> QED BY <3>1, <3>2, <3>5, <4>2, <4>4, TwoFetches DEF StackInv, Top, Checked
    <3> QED BY <1>2, <3>3, <3>4, <3>5 DEF Check, HasHook
  <2> QED BY <1>2, <2>1, NothingSent DEF Check
<1>3. CASE NetworkFails
  <2>0. Sends
    BY <1>3 DEF NetworkFails
  <2>1. CASE LastAttempt
    <3>1. EndHop("network") /\ PageFails /\ UNCHANGED robots
      BY <1>3, <2>1 DEF NetworkFails, Raises
    <3>2. StackInv'
      BY <3>1, FailedPage
    <3> QED BY <2>0, <2>1, <3>1, <3>2, OneSent DEF EndHop, LastAttempt, HttpInv
  <2>2. CASE ~LastAttempt
    <3>1. [Top EXCEPT !.attempt = @ + 1, !.asked = None] \in FetchState
      <4>1. Top \in FetchState
        BY <1>a, <2>0
      <4>2. Top.attempt \in 0 .. MaxRetries /\ Top.attempt + 1 \in 0 .. MaxRetries
        BY <2>2, <4>1, RetryAssumption DEF FetchState, LastAttempt
      <4> QED BY <4>1, <4>2 DEF FetchState
    <3>2. PICK again \in FetchState : again = [Top EXCEPT !.attempt = @ + 1, !.asked = None]
      BY <3>1
    <3>3. /\ again.kind = Top.kind /\ again.asked = None
          /\ again.pc = Top.pc /\ again.url = Top.url
      BY <1>a, <2>0, <3>2 DEF FetchState
    <3>4. Continue(again) /\ UNCHANGED << robots, ended >>
      BY <1>3, <2>2, <3>2 DEF NetworkFails
    <3>5. Checked(again)'
      BY <1>a, <2>0, <3>3, <3>4 DEF Checked, HostAllowed, PathAllowed
    <3>6. StackInv'
      BY <1>a, <2>0, <3>3, <3>4, <3>5, ContinuedFetch
    <3> QED BY <2>0, <3>4, <3>6, OneSent DEF HttpInv
  <2> QED BY <2>1, <2>2
<1>4. CASE ResponseTooLarge
  <2>1. Sends /\ EndHop("large") /\ PageFails /\ UNCHANGED robots
    BY <1>4 DEF ResponseTooLarge, Raises
  <2>2. StackInv'
    BY <2>1, FailedPage
  <2> QED BY <2>1, <2>2, OneSent DEF EndHop, HttpInv
<1>5. ASSUME NEW retryAfter \in RetryAfters \cup {None}, TransientAnswer(retryAfter)
      PROVE  HttpInv'
  <2>1. CASE LastAttempt
    <3>1. Answered("transient", {}) /\ Sends
      BY <1>5, <2>1 DEF TransientAnswer
    <3>2. StackInv'
      BY <1>a, <3>1, EndedFetch DEF Answered
    <3> QED BY <2>1, <3>1, <3>2, OneSent DEF Answered, EndHop, LastAttempt, HttpInv
  <2>2. CASE ~LastAttempt
    <3> DEFINE retry == [Top EXCEPT !.attempt = @ + 1, !.asked = retryAfter,
                                    !.delay = RetryDelay(retryAfter, Top.attempt)]
    <3>1. Continue(retry) /\ Sends /\ UNCHANGED << robots, ended >>
      BY <1>5, <2>2 DEF TransientAnswer
    <3>2. retry \in FetchState
      <4>1. Top \in FetchState /\ Top.pc = "send"
        BY <1>a, <3>1 DEF Sends
      <4>2. Top.attempt \in 0 .. MaxRetries /\ Top.attempt + 1 \in 0 .. MaxRetries
        BY <2>2, <4>1, RetryAssumption DEF FetchState, LastAttempt
      <4>3. /\ RetryDelay(retryAfter, Top.attempt) \in 0 .. MaxRetryAfter
            /\ retryAfter # None =>
                 RetryDelay(retryAfter, Top.attempt) >= Min({retryAfter, MaxRetryAfter})
        BY <4>2, DelayIsCapped
      <4>4. retryAfter \in Nat \cup {None}
        BY RetryAssumption
      <4> QED BY <4>1, <4>2, <4>3, <4>4 DEF FetchState
    <3>3. PICK again \in FetchState : again = retry
      BY <3>2
    <3>4. again.kind = Top.kind /\ again.pc = Top.pc /\ again.url = Top.url
      BY <1>a, <3>1, <3>3 DEF FetchState
    <3>5. Checked(again)'
      BY <1>a, <3>1, <3>4 DEF Checked, HostAllowed, PathAllowed
    <3>6. Continue(again) /\ made' = TRUE
      BY <1>a, <3>1, <3>3
    <3>7. StackInv'
      BY <1>a, <3>1, <3>4, <3>5, <3>6, ContinuedFetch
    <3> QED BY <3>1, <3>7, OneSent DEF HttpInv
  <2> QED BY <2>1, <2>2
<1>6. ASSUME NEW status \in {200, 403, 404}, NEW rules \in SUBSET Paths,
             FinalAnswer(status, rules)
      PROVE  HttpInv'
  <2>1. /\ Sends /\ fetches' = Front(fetches) /\ ended'.how = "final"
        /\ DOMAIN robots' = DOMAIN robots
        /\ Top.kind = "robots" \/ robots' = robots
    BY <1>6 DEF FinalAnswer, Answered, EndHop
  <2>2. StackInv'
    BY <1>a, <2>1, EndedFetch
  <2> QED BY <2>1, <2>2, OneSent DEF HttpInv
<1>7. ASSUME NEW location \in Urls \cup {None}, Redirect(location)
      PROVE  HttpInv'
  <2>1. Sends
    BY <1>7 DEF Redirect
  <2>2. CASE location = None \/ Top.redirects = MaxRedirects
    <3>1. EndHop("redirect") /\ PageFails /\ UNCHANGED robots
      BY <1>7, <2>2 DEF Redirect, Raises
    <3>2. StackInv'
      BY <3>1, FailedPage
    <3> QED BY <2>1, <3>1, <3>2, OneSent DEF EndHop, HttpInv
  <2>3. CASE ~(location = None \/ Top.redirects = MaxRedirects)
    <3> DEFINE moved == [Fetch(Top.kind, location) EXCEPT !.redirects = Top.redirects + 1]
    <3>1. Continue(moved) /\ EndHop("redirect") /\ UNCHANGED robots
      BY <1>7, <2>3 DEF Redirect
    <3>2. moved \in FetchState /\ moved.kind = Top.kind /\ moved.pc = "check" /\ moved.asked = None
      <4>1. Top.kind \in {"page", "robots"} /\ Top.redirects \in Nat
        BY <1>a, <2>1 DEF FetchState
      <4>2. location \in Urls
        BY <2>3
      <4>3. /\ Fetch(Top.kind, location) \in FetchState /\ Fetch(Top.kind, location).kind = Top.kind
            /\ Fetch(Top.kind, location).pc = "check" /\ Fetch(Top.kind, location).asked = None
        BY <4>1, <4>2, NewFetch
      <4> QED BY <4>1, <4>3 DEF FetchState
    <3>3. PICK hop \in FetchState : hop = moved
      BY <3>2
    <3>4. hop.kind = Top.kind /\ hop.pc = "check" /\ hop.asked = None /\ Continue(hop)
      BY <3>1, <3>2, <3>3
    <3>5. Checked(hop)'
      BY <3>4 DEF Checked
    <3>6. StackInv'
      BY <1>a, <2>1, <3>4, <3>5, ContinuedFetch
    <3> QED BY <2>1, <3>1, <3>6, OneSent DEF EndHop, HttpInv
  <2> QED BY <2>2, <2>3
<1>8. CASE UNCHANGED httpVars
  BY <1>8 DEF httpVars, HttpInv, StackInv, Top, Checked, RequestsAreAllowed, RetriesAreDue,
              HostAllowed, PathAllowed
<1> QED BY <1>1, <1>2, <1>3, <1>4, <1>5, <1>6, <1>7, <1>8 DEF HttpNext

-----------------------------------------------------------------------------
LEMMA HttpInvAlways == HttpSpec => []HttpInv
BY HttpInvInit, HttpInvNext, PTL DEF HttpSpec

\* No request leaves the allowed hosts, and a page is requested only inside the
\* allowed paths and where the robots.txt of its host is known and allows it,
\* for every policy and whatever redirects lead there.
THEOREM RequestsStayInside == HttpSpec => []RequestsAreAllowed
<1>1. HttpInv => RequestsAreAllowed
  BY DEF HttpInv
<1> QED BY <1>1, HttpInvAlways, PTL

\* The pauses between requests are kept, and temporary failures use up every
\* attempt, for all delays and limits.
THEOREM PausesAreKept == HttpSpec => []RetriesAreDue
<1>1. HttpInv => RetriesAreDue
  BY DEF HttpInv
<1> QED BY <1>1, HttpInvAlways, PTL

=============================================================================
