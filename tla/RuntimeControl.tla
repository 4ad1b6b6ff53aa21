--------------------------- MODULE RuntimeControl ---------------------------
(***************************************************************************)
(* The settings and services of src/taxguide/runtime: one RuntimeController *)
(* executes requests one at a time under its lock, keeps the settings in    *)
(* memory and in connections.json, and owns the local services it started.  *)
(* Around it: browser tabs with drafts and revisions (runtime-settings.tsx), *)
(* processes that exit or are started by others, crashes, and a next process *)
(* that reads the file before it holds the lock file.                       *)
(***************************************************************************)
EXTENDS Naturals, Sequences, FiniteSets

CONSTANTS
  Service,          \* the services of this host, among SERVICES
  Profile, Gpu,     \* those with a launch profile, those with gpu_layers > 0
  Docker,           \* those run in a container: qdrant
  Connections,      \* settings: [embedding, collection, local \subseteq Service]
  Initial,          \* the settings of the YAML files
  Tab,              \* browser tabs of operators
  MaxRevision,      \* bound: revisions ever issued
  None              \* no settings, handle, file or process

SERVICES == {"qdrant", "embeddings", "reranker", "generator"}

ASSUME ServiceAssumption ==
  /\ Service \subseteq SERVICES
  /\ Profile \subseteq Service /\ Gpu \subseteq Profile /\ Docker \subseteq Service
ASSUME ConnectionsAssumption ==
  /\ Initial \in Connections
  /\ None \notin Connections
ASSUME MaxRevisionAssumption == MaxRevision \in Nat

VARIABLES
  disk,       \* connections.json
  state,      \* the settings in force in the process that serves, None without one
  loaded,     \* what a process that does not hold the lock file yet has read
  issued,     \* the number of revisions issued
  tab,        \* per tab, the revision it sends and the one its draft started from
  handle,     \* supervisor.handles: the settings each service was launched with
  running,    \* what runs at each endpoint: "none", our "child", or some "other"
  statuses,   \* per service, the settings its cached status was computed under
  preparing,  \* the services a prepare request has still to visit
  \* For the properties only, no action depends on it:
  overtaken   \* which of the processes "starting" and "serving" read the file
              \* before the last save of a process that served then

serviceVars == << handle, running, statuses, preparing >>
runtimeVars == << disk, state, loaded, issued, tab, overtaken, serviceVars >>

Revision == 1..MaxRevision
Saved == [current : Connections, previous : Connections \union {None},
          revision : Revision]
Modes == {"dense", "sparse", "hybrid", "reranked"}

TypeOK ==
  /\ {disk, state, loaded} \subseteq Saved \union {None}
  /\ issued \in 0..MaxRevision
  /\ tab \in [Tab -> [revision : 0..MaxRevision, base : 0..MaxRevision]]
  /\ handle \in [Service -> Connections \union {None}]
  /\ running \in [Service -> {"none", "child", "other"}]
  /\ \A s \in Service : running[s] = "child" => handle[s] # None
  /\ statuses \in [Service -> Connections \union {None}]
  /\ preparing \in Seq(Service)
  /\ overtaken \subseteq {"starting", "serving"}

Nothing == [s \in Service |-> None]

RuntimeInit ==
  /\ disk = None /\ state = None /\ loaded = None
  /\ issued = 0
  /\ tab = [t \in Tab |-> [revision |-> 0, base |-> 0]]
  /\ handle = Nothing /\ statuses = Nothing
  /\ running \in [Service -> {"none", "other"}]
  /\ preparing = << >>
  /\ overtaken = {}

-----------------------------------------------------------------------------
(* The supervisor *)

Owned(s) == handle[s] # None /\ running[s] = "child"

\* Mistake: a poll forgets the handle of a live process.
Polled_dropsLive(S) == [s \in Service |-> IF s \in S THEN None ELSE handle[s]]

\* _owned forgets the handle of a process that ended or changed hands.  (Which
\* dead handles a request happens to poll shows nowhere but in the event list.)
Polled(S) == [s \in Service |-> IF s \in S /\ ~Owned(s) THEN None ELSE handle[s]]

CanStart(s) == s \in Profile \intersect state.current.local
Occupied(s) == running[s] = "other"
\* Mistake: the guard looks at the service that is started only.
GpuFree_sameService(s) == s \in Gpu => ~Owned(s)
GpuFree(s) == s \in Gpu => \A t \in Gpu : ~Owned(t)

\* start returns a status: the service is owned already, its endpoint is occupied,
\* or it has been launched.
Started(s) ==
  \/ /\ Owned(s) \/ (CanStart(s) /\ Occupied(s))
     /\ handle' = Polled({s})
     /\ UNCHANGED running
  \/ /\ ~Owned(s) /\ CanStart(s) /\ ~Occupied(s) /\ GpuFree(s)
     /\ handle' = [Polled(Service) EXCEPT ![s] = state.current]
     /\ running' = [running EXCEPT ![s] = "child"]

\* start raises: no profile, a GPU model runs, or the launcher fails; a container
\* that was started but could not be inspected afterwards runs without an owner.
StartRaises(s) ==
  /\ ~Owned(s)
  /\ CanStart(s) => ~Occupied(s)
  /\ handle' = Polled(Service)
  /\ \/ UNCHANGED running
     \/ /\ CanStart(s) /\ GpuFree(s) /\ s \in Docker
        /\ running' = [running EXCEPT ![s] = "other"]

Reports(s) == statuses' = [statuses EXCEPT ![s] = state.current]

-----------------------------------------------------------------------------
(* Requests: each holds controller.lock, so a prepare excludes the others.   *)

Serving == state # None /\ preparing = << >>
\* Mistake: any tab that was told a revision passes.
RevisionMatches_any(t) == tab[t].revision # 0
RevisionMatches(t) == tab[t].revision = state.revision

\* get: polls every service (a container that cannot be inspected keeps its
\* handle) and refreshes the tab, draft included.
Look(t) ==
  /\ Serving
  /\ \E unknown \in SUBSET Docker : handle' = Polled(Service \ unknown)
  /\ statuses' = [s \in Service |-> state.current]
  /\ tab' = [tab EXCEPT ![t] = [revision |-> state.revision, base |-> state.revision]]
  /\ UNCHANGED << disk, state, loaded, issued, running, preparing, overtaken >>

\* check: probes the draft and returns the current view with its revision, which
\* the tab adopts while it keeps the draft.
Check(t) ==
  /\ Serving
  /\ tab[t].revision # 0
  /\ tab' = [tab EXCEPT ![t].revision = state.revision]
  /\ UNCHANGED << disk, state, loaded, issued, overtaken, serviceVars >>

\* Mistake: has_owned is not asked.
NothingOwned_unchecked == TRUE
NothingOwned == \A s \in Service : ~Owned(s)

EmbeddingRule(c) ==
  c.embedding # state.current.embedding => c.collection # state.current.collection

MayReplace(t, c) ==
  /\ Serving
  /\ RevisionMatches(t)
  /\ NothingOwned
  /\ EmbeddingRule(c)
  /\ issued < MaxRevision

\* The file is replaced first, then the settings in memory.
Write(c) ==
  /\ disk' = [current |-> c, previous |-> state.current, revision |-> issued + 1]
  /\ issued' = issued + 1
  /\ overtaken' = IF loaded = None THEN {} ELSE {"starting"}

Replace(t, c) ==
  /\ MayReplace(t, c)
  /\ Write(c)
  /\ state' = disk'
  /\ handle' = Polled(Service)
  /\ statuses' = Nothing
  /\ UNCHANGED << loaded, running, preparing >>

\* The draft is now what is in force, but the answer, and with it the revision,
\* may get lost.
Save(t) ==
  /\ \E c \in Connections : Replace(t, c)
  /\ \E told \in {tab[t].revision, issued'} :
       tab' = [tab EXCEPT ![t] = [revision |-> told, base |-> issued']]

\* The button is disabled while the draft differs from the settings shown.
Restore(t) ==
  /\ Serving /\ state.previous # None
  /\ tab[t].base = tab[t].revision
  /\ Replace(t, state.previous)
  /\ \/ tab' = [tab EXCEPT ![t] = [revision |-> issued', base |-> issued']]
     \/ UNCHANGED tab

\* A refused request, or one whose write fails, leaves nothing but its polls.
Refused ==
  /\ Serving
  /\ \E S \in SUBSET Service : handle' = Polled(S)
  /\ UNCHANGED << disk, state, loaded, issued, tab, overtaken, running, statuses,
                  preparing >>

Start(t, s) ==
  /\ Serving /\ RevisionMatches(t)
  /\ \/ Started(s) /\ Reports(s)
     \/ StartRaises(s) /\ UNCHANGED statuses
  /\ UNCHANGED << disk, state, loaded, issued, tab, preparing, overtaken >>

\* A stop that raises retains the handle: it changes nothing.
Stop(t, s) ==
  /\ Serving /\ RevisionMatches(t)
  /\ Owned(s)
  /\ handle' = [handle EXCEPT ![s] = None]
  /\ running' = [running EXCEPT ![s] = "none"]
  /\ Reports(s)
  /\ UNCHANGED << disk, state, loaded, issued, tab, preparing, overtaken >>

Only(s, needed) == IF s \in Service /\ needed THEN << s >> ELSE << >>
Needed(mode) ==
  Only("qdrant", TRUE) \o Only("embeddings", mode # "sparse")
    \o Only("reranker", mode = "reranked") \o Only("generator", TRUE)

Prepare(t) ==
  /\ Serving /\ RevisionMatches(t)
  /\ \E mode \in Modes : preparing' = Needed(mode)
  /\ UNCHANGED << disk, state, loaded, issued, tab, overtaken, handle, running,
                  statuses >>

\* The probe of a service, or its error, decides about the rest.
AfterProbe == {Tail(preparing), << >>}

\* One service of a prepare: started if it can be, else only inspected.
PrepareNext ==
  /\ state # None /\ preparing # << >>
  /\ LET s == Head(preparing) IN
       /\ \/ /\ IF CanStart(s) THEN Started(s)
                               ELSE handle' = Polled({s}) /\ UNCHANGED running
             /\ preparing' \in AfterProbe
          \/ CanStart(s) /\ StartRaises(s) /\ preparing' = << >>
       /\ Reports(s)
  /\ UNCHANGED << disk, state, loaded, issued, tab, overtaken >>

-----------------------------------------------------------------------------
(* The processes *)

\* Mistake: the previous settings are not read back.
ReadBack_currentOnly == [disk EXCEPT !.previous = None]
ReadBack == disk

\* A new process reads the file when it is imported, whoever serves then.
Load ==
  /\ loaded = None
  /\ \/ disk # None /\ loaded' = ReadBack /\ UNCHANGED issued
     \/ /\ disk = None /\ issued < MaxRevision
        /\ issued' = issued + 1
        /\ loaded' = [current |-> Initial, previous |-> None, revision |-> issued']
  /\ UNCHANGED << disk, state, tab, overtaken, serviceVars >>

\* Its lifespan takes the lock file, or it ends because another holds the lock.
Acquire ==
  /\ loaded # None /\ loaded' = None
  /\ \/ /\ state = None
        /\ state' = loaded
        /\ overtaken' = IF "starting" \in overtaken THEN {"serving"} ELSE {}
     \/ /\ state # None
        /\ UNCHANGED state
        /\ overtaken' = overtaken \ {"starting"}
  /\ UNCHANGED << disk, issued, tab, serviceVars >>

\* What a process that ends leaves of the services it owned: those in left run on
\* and belong to nobody.
Ends(left) ==
  /\ state' = None
  /\ running' = [s \in Service |-> IF ~Owned(s) THEN running[s]
                                   ELSE IF s \in left THEN "other" ELSE "none"]
  /\ handle' = Nothing /\ statuses' = Nothing /\ preparing' = << >>
  /\ UNCHANGED << loaded, tab >>

\* Normal shutdown after the last request; a stop that raises is reported.
Close ==
  /\ Serving
  /\ \E unstopped \in SUBSET Service : Ends(unstopped)
  /\ overtaken' = overtaken \ {"serving"}
  /\ UNCHANGED << disk, issued >>

Crash ==
  /\ state # None
  /\ Ends(Service)
  /\ overtaken' = overtaken \ {"serving"}
  /\ UNCHANGED << disk, issued >>

\* The process dies after os.replace and before the settings are published.
CrashInSave ==
  /\ \E t \in Tab, c \in Connections : MayReplace(t, c) /\ Write(c)
  /\ Ends(Service)

\* A child exits, its container is restarted by others, or others start and stop
\* something at an endpoint.
World(s) ==
  /\ \E r \in {"none", "other"} :
       /\ r # running[s]
       /\ (running[s] = "child" /\ r = "other") => s \in Docker
       /\ running' = [running EXCEPT ![s] = r]
  /\ UNCHANGED << disk, state, loaded, issued, tab, overtaken, handle, statuses,
                  preparing >>

TabRequest(t) ==
  \/ Look(t) \/ Check(t) \/ Save(t) \/ Restore(t) \/ Prepare(t)
  \/ \E s \in Service : Start(t, s) \/ Stop(t, s)

RuntimeNext ==
  \/ \E t \in Tab : TabRequest(t)
  \/ Refused \/ PrepareNext
  \/ Load \/ Acquire \/ Close \/ Crash \/ CrashInSave
  \/ \E s \in Service : World(s)

RuntimeSpec == RuntimeInit /\ [][RuntimeNext]_runtimeVars

-----------------------------------------------------------------------------
(* Properties *)

\* docs/runtime-management.md: services are stopped before a save or restore "para
\* no dejar un proceso gestionado apuntando a una configuracion distinta".  Every
\* owned process was launched with the settings in force, and no cached status
\* describes others, through saves, restores, exits, crashes and restarts.
ServicesMatchSettings ==
  \A s \in Service :
    /\ Owned(s) => handle[s] = state.current
    /\ statuses[s] # None => statuses[s] = state.current

\* ADR 0011: "One managed GPU llama.cpp profile may run at a time", in whatever
\* order services are started, prepared, exit and are lost.
OneManagedGpuModel == Cardinality({s \in Gpu : Owned(s)}) <= 1

\* docs/runtime-management.md: "Un bloqueo de archivo excluye otros workers usando
\* el mismo estado", and a process that is started again "vuelve a cargar el estado
\* guardado": what a process serves is what the file holds, or the YAML settings.
StateIsDurable ==
  state # None => \/ state = disk
                  \/ disk = None /\ state.current = Initial /\ state.previous = None

\* ADR 0011: "New settings publish only after persistence succeeds".  The one way to
\* serve what the next process would not load, current, previous and revision, is a
\* save between the reading of the file and the lock: not a refused or lost save, a
\* crash between write and publication, or any order of starts, ends and saves.
OnlyOvertakenIsStale == "serving" \notin overtaken => StateIsDurable

\* ADR 0011: the snapshot stores "current and previous connections with
\* revision-based optimistic concurrency".  A save keeps what it replaces as the
\* previous settings, and comes from a tab that was told their revision, unless the
\* process was overtaken by a save before it held the lock.
ReplacedIsKept ==
  [][disk' # disk /\ disk # None /\ "serving" \notin overtaken =>
       /\ disk'.previous = disk.current
       /\ \E t \in Tab : tab[t].revision = disk.revision]_runtimeVars

\* docs/runtime-management.md: "Las revisiones impiden sobrescribir cambios
\* realizados por otra pestana": the settings a tab replaces are those its draft
\* started from.
NoLostUpdate ==
  [][\A t \in Tab : disk' # disk /\ tab'[t] # tab[t]
                      => tab[t].base = state.revision]_runtimeVars

=============================================================================
