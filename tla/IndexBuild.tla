------------------------------ MODULE IndexBuild ------------------------------
(* CorpusBuilder.build writing one Qdrant collection through                  *)
(* QdrantVectorStore, while captures and settings change, requests fail,      *)
(* builds are cancelled or killed, and a reader pages through the collection  *)
(* for its lexical snapshot.  Each request to Qdrant is one step.             *)
EXTENDS Chunking, FiniteSets

CONSTANTS
  Manifests,          \* the captured documents, in the order of their files
  Versions,           \* contents a capture can have
  Shape,              \* version -> what the chunkers see of it
  Settings, Config,   \* saved settings; settings -> chunker and embedding model
  Dimension,          \* embedding model -> vector size
  Captures,           \* document -> what the crawler may leave on disk for it
  Builders,           \* processes that build into the collection
  BatchSize,          \* embedding_batch_size
  PageSize, Rank,     \* scroll page size; place of a point id in the collection
  None,
  MaxEvents,          \* captures, changes of the settings, faults and loads in one behaviour
  MaxBuilds

ASSUME BatchAssumption == BatchSize \in Nat \ {0} /\ PageSize \in Nat \ {0}
Docs == ToSet(Manifests)
ASSUME ManifestAssumption == Manifests \in Seq(Docs) /\ None \notin Docs \cup Nat
ASSUME ShapeAssumption ==
  DOMAIN Shape = Versions /\ \A v \in Versions : IsDocument(Shape[v])
ASSUME WindowAssumption ==
  \A s \in Settings :
    /\ Config[s] \in [strategy : {"fixed", "recursive", "structural"}, max : Nat \ {0},
                     overlap : Nat, model : DOMAIN Dimension]
    /\ Config[s].overlap < Config[s].max

VARIABLES
  capture,     \* document -> its manifest and raw file
  settings,    \* the saved settings
  collection,  \* vector size of the collection, None before it exists
  points,      \* point id -> payload, for the points stored
  build,       \* builder -> the build it is running
  reported,    \* document -> what the last report on it claims is indexed
  reader,      \* the snapshot being loaded
  used         \* how often each bounded event happened

vars == << capture, settings, collection, points, build, reported, reader, used >>

-----------------------------------------------------------------------------
ChunksOf == [v \in Versions |-> [s \in Settings |-> Chunks(Shape[v], Config[s])]]

\* The identity of a chunk does not depend on its text: two settings give
\* chunks of one version the same ids.
ChunkId(d, v, chunks, i) == [doc |-> d, ver |-> v, path |-> chunks[i].path, index |-> i]
Payload(chunk, s) == [from |-> chunk.from, to |-> chunk.to, signature |-> s]

Expected ==
  [d \in Docs |-> [v \in Versions |-> [s \in Settings |->
     LET chunks == ChunksOf[v][s]
     IN  [id \in {ChunkId(d, v, chunks, i) : i \in DOMAIN chunks} |->
            Payload(chunks[id.index], s)]]]]

\* The ids points can have; Qdrant keeps the points in some order of their ids.
PointIds == UNION {DOMAIN Expected[d][v][s] : d \in Docs, v \in Versions, s \in Settings}
ASSUME RankAssumption == \A id \in PointIds : Rank[id] \in Nat

Stored(d) == {id \in DOMAIN points : id.doc = d}
StoredVersion(d, v) == {id \in Stored(d) : id.ver = v}

HasDocumentVersion_idsOnly(d, v, s) == StoredVersion(d, v) = DOMAIN Expected[d][v][s]
\* has_document_version: ids, text and signature of the version all agree.
HasDocumentVersion(d, v, s) ==
  [id \in StoredVersion(d, v) |-> points[id]] = Expected[d][v][s]

Batch_lacksLast(b) == {i \in DOMAIN b.chunks : i \in b.offset + 1 .. b.offset + BatchSize - 1}
\* upsert: a batch of chunks replaces the points with the same ids.
Batch(b) == {i \in DOMAIN b.chunks : i \in b.offset + 1 .. b.offset + BatchSize}
Upserted(b) ==
  LET new == [id \in {ChunkId(b.doc, b.ver, b.chunks, i) : i \in Batch(b)} |->
                Payload(b.chunks[id.index], b.settings)]
  IN  [id \in DOMAIN points \cup DOMAIN new |->
         IF id \in DOMAIN new THEN new[id] ELSE points[id]]

\* prune_document_points: the document keeps the ids of its current chunks.
KeepIds(b) == {ChunkId(b.doc, b.ver, b.chunks, i) : i \in DOMAIN b.chunks}
Pruned(b) == Restrict(points, DOMAIN points \ (Stored(b.doc) \ KeepIds(b)))

\* ManifestCorpusSelector: page filters, then duplicates other than annual ones.
Selected(m) == m.eligible /\ (m.duplicate => m.annual)

-----------------------------------------------------------------------------
NoBuild == [pc |-> "idle", settings |-> None, todo |-> {}, doc |-> None, ver |-> None,
            chunks |-> << >>, offset |-> 0]
NoLoad == [pc |-> "idle", from |-> 0, got |-> {}, disturbed |-> {}]

Init ==
  /\ capture \in [Docs -> {c \in UNION Range(Captures) : c.file \in Versions /\ ~c.duplicate}]
  /\ settings \in Settings
  /\ collection = None
  /\ points = [id \in {} |-> None]
  /\ build = [b \in Builders |-> NoBuild]
  /\ reported = [d \in Docs |-> None]
  /\ reader = NoLoad
  /\ used = [events |-> 0, builds |-> 0]

May(what, bound) == used[what] < bound /\ used' = [used EXCEPT ![what] = @ + 1]

\* Points of d changed under the eyes of a running load.
Disturb(d) ==
  reader' = IF points' = points \/ reader.pc = "idle" THEN reader
            ELSE [reader EXCEPT !.disturbed = @ \cup {d}]

\* The crawler stores a new capture; the operator saves other settings.
Recapture(d, c) ==
  /\ c # capture[d] /\ May("events", MaxEvents)
  /\ capture' = [capture EXCEPT ![d] = c]
  /\ UNCHANGED << settings, collection, points, build, reported, reader >>
SaveSettings(s) ==
  /\ s # settings /\ May("events", MaxEvents)
  /\ settings' = s
  /\ UNCHANGED << capture, collection, points, build, reported, reader >>

-----------------------------------------------------------------------------
\* ensure_collection: a collection is created or must fit the embedder.
Compatible(size) == collection \in {None, size}

\* indexing() and select.
Start(b) ==
  /\ build[b].pc = "idle" /\ May("builds", MaxBuilds)
  /\ LET size == Dimension[Config[settings].model] IN
       IF Compatible(size)
       THEN /\ collection' = size
            /\ build' = [build EXCEPT ![b] =
                 [NoBuild EXCEPT !.pc = "next", !.settings = settings,
                   !.todo = {i \in DOMAIN Manifests : Selected(capture[Manifests[i]])}]]
       ELSE UNCHANGED << collection, build >>
  /\ UNCHANGED << capture, settings, points, reported, reader >>

\* The manifests are taken in the order of their files.
First(b) == Min(build[b].todo)
NextManifest(b) == [build[b] EXCEPT !.pc = "next", !.todo = @ \ {First(b)}, !.doc = None,
                                     !.ver = None, !.chunks = << >>, !.offset = 0]

\* One manifest of the loop up to the index: a raw file that is missing or
\* fails to ingest makes the document fail.
Ingest(b) ==
  /\ build[b].pc = "next" /\ build[b].todo # {}
  /\ LET d == Manifests[First(b)]
         v == capture[d].file
     IN  build' = [build EXCEPT ![b] =
           IF v \notin Versions THEN NextManifest(b)
           ELSE [@ EXCEPT !.pc = "lookup", !.doc = d, !.ver = v,
                          !.chunks = ChunksOf[v][build[b].settings]]]
  /\ UNCHANGED << capture, settings, collection, points, reported, reader, used >>

\* An unchanged version only has its obsolete points retired.
Lookup(b) ==
  /\ build[b].pc = "lookup"
  /\ LET matches == HasDocumentVersion(build[b].doc, build[b].ver, build[b].settings) IN
       /\ build' = [build EXCEPT ![b].pc =
            IF matches \/ build[b].chunks = << >> THEN "prune" ELSE "upsert"]
       /\ reported' = IF matches THEN reported ELSE [reported EXCEPT ![build[b].doc] = None]
  /\ UNCHANGED << capture, settings, collection, points, reader, used >>

\* One batch is embedded and upserted.
UpsertBatch(b) ==
  /\ build[b].pc = "upsert"
  /\ points' = Upserted(build[b])
  /\ Disturb(build[b].doc)
  /\ build' = [build EXCEPT ![b].offset = @ + BatchSize,
                            ![b].pc = IF build[b].offset + BatchSize < Len(build[b].chunks)
                                      THEN "upsert" ELSE "prune"]
  /\ UNCHANGED << capture, settings, collection, reported, used >>

\* The document is complete: it is reported as processed or unchanged.
Prune(b) ==
  /\ build[b].pc = "prune"
  /\ points' = Pruned(build[b])
  /\ Disturb(build[b].doc)
  /\ reported' = [reported EXCEPT ![build[b].doc] =
                    [ver |-> build[b].ver, settings |-> build[b].settings]]
  /\ build' = [build EXCEPT ![b] = NextManifest(b)]
  /\ UNCHANGED << capture, settings, collection, used >>

\* Embedding or a request fails: the document fails, the loop goes on.  Qdrant
\* may have carried out a request whose answer was lost.
IndexFails(b) ==
  /\ build[b].pc \in {"lookup", "upsert", "prune"} /\ May("events", MaxEvents)
  /\ points' \in CASE build[b].pc = "lookup" -> {points}
                   [] build[b].pc = "upsert" -> {points, Upserted(build[b])}
                   [] build[b].pc = "prune"  -> {points, Pruned(build[b])}
  /\ Disturb(build[b].doc)
  /\ build' = [build EXCEPT ![b] = NextManifest(b)]
  /\ UNCHANGED << capture, settings, collection, reported >>

\* The loop ends after the last manifest, or before one when cancelled.
Finish(b) ==
  /\ build[b].pc = "next"
  /\ build' = [build EXCEPT ![b] = NoBuild]
  /\ UNCHANGED << capture, settings, collection, points, reported, reader, used >>

\* The process is killed.
Crash(b) ==
  /\ build[b].pc \notin {"idle", "next"} /\ May("events", MaxEvents)
  /\ build' = [build EXCEPT ![b] = NoBuild]
  /\ UNCHANGED << capture, settings, collection, points, reported, reader >>

-----------------------------------------------------------------------------
\* load_chunks: pages in the order of the point ids; the offset of the next
\* page is the id of the first point that did not fit.
StartLoad ==
  /\ reader.pc # "reading" /\ collection # None /\ May("events", MaxEvents)
  /\ reader' = [NoLoad EXCEPT !.pc = "reading"]
  /\ UNCHANGED << capture, settings, collection, points, build, reported >>

Ahead == {id \in DOMAIN points : Rank[id] >= reader.from}
Page == {id \in Ahead : Cardinality({o \in Ahead : Rank[o] < Rank[id]}) < PageSize}
NextOffset_skips == IF Ahead = Page THEN None ELSE Min({Rank[id] : id \in Ahead \ Page}) + 1
NextOffset == IF Ahead = Page THEN None ELSE Min({Rank[id] : id \in Ahead \ Page})

LoadPage ==
  /\ reader.pc = "reading"
  /\ reader' = [reader EXCEPT
       !.got  = @ \cup {[id |-> id, payload |-> points[id]] : id \in Page},
       !.pc   = IF NextOffset = None THEN "loaded" ELSE "reading",
       !.from = IF NextOffset = None THEN 0 ELSE NextOffset]
  /\ UNCHANGED << capture, settings, collection, points, build, reported, used >>

-----------------------------------------------------------------------------
BuildStep(b) ==
  \/ Start(b) \/ Ingest(b)
  \/ Lookup(b) \/ UpsertBatch(b) \/ Prune(b)
  \/ IndexFails(b) \/ Finish(b) \/ Crash(b)
IndexNext ==
  \/ \E d \in Docs : \E c \in Captures[d] : Recapture(d, c)
  \/ \E s \in Settings : SaveSettings(s)
  \/ \E b \in Builders : BuildStep(b)
  \/ StartLoad \/ LoadPage
IndexSpec == Init /\ [][IndexNext]_vars

-----------------------------------------------------------------------------
\* The text of version v that a search in the points of d can reach.
Reachable(d, v) == UNION {TokensOf(points[id]) : id \in StoredVersion(d, v)}
Whole(d, v) == Reachable(d, v) = TokensOf(DocumentSpan(Shape[v]))

SameChunking(s, t) ==
  [Config[s] EXCEPT !.model = None] = [Config[t] EXCEPT !.model = None]
\* A build is replacing chunks of d by chunks cut differently under the same ids.
Rechunking(d) ==
  \E b \in Builders : \E id \in StoredVersion(d, build[b].ver) :
    /\ build[b].doc = d
    /\ ~SameChunking(points[id].signature, build[b].settings)

\* What a build reported as processed or unchanged is what the collection
\* holds of that document, under the settings of that build and with no text
\* left out, until a later build changes it (corpus/builder.py:101-142).
ReportIsTrue ==
  \A d \in Docs : reported[d] # None =>
    /\ Restrict(points, Stored(d)) = Expected[d][reported[d].ver][reported[d].settings]
    /\ Whole(d, reported[d].ver)

\* A document of which one version can be searched in full never loses its
\* last complete version: obsolete points go after the new ones are complete,
\* whatever fails in between (builder.py:122-137).  Settings that cut the same
\* version differently overwrite it in place and are excepted.
Intact(d) == \E v \in Versions : Whole(d, v)
WholeStaysWhole ==
  [][points' # points =>
       \A d \in Docs : Intact(d) /\ ~Rechunking(d) => Intact(d)']_vars

\* A lexical snapshot loaded page by page holds exactly the points of each
\* document no build wrote to since the load began (qdrant.py:234-254).
SnapshotIsExact ==
  reader.pc = "loaded" =>
    \A d \in Docs \ reader.disturbed :
      {p \in reader.got : p.id.doc = d} = {[id |-> id, payload |-> points[id]] : id \in Stored(d)}

=============================================================================
