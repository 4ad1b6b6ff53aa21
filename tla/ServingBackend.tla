--------------------------- MODULE ServingBackend ---------------------------
(***************************************************************************)
(* The query backend that new requests receive: ConfiguredBackend of       *)
(* src/taxguide/api/backend.py, published by RuntimeController.            *)
(*                                                                         *)
(* Sparse and hybrid retrievers read every chunk of the collection when    *)
(* they are first used and keep them in memory.  Loads are serialised by   *)
(* the backend's _lock and may overlap writes to the index.  A backend is  *)
(* never invalidated in place: the controller replaces the whole object,   *)
(* and a load still running on the old one finishes where nobody new looks.*)
(***************************************************************************)

CONSTANTS
  Key,   \* (mode, candidate limit) pairs whose adapters hold chunks in memory
  NoKey  \* not a key: no load is under way

VARIABLES
  cache,   \* for each key, how its adapter relates to the index
  loading  \* the load that holds _lock: its key, and whether the index stood still

backendVars == << cache, loading >>

NoLoad == [key |-> NoKey, still |-> TRUE]

BackendInit ==
  /\ cache = [k \in Key |-> "empty"]
  /\ loading = NoLoad

\* _retriever / query: the key is not cached, so its adapters are built.
LoadBegins(k) ==
  /\ loading = NoLoad
  /\ cache[k] = "empty"
  /\ loading' = [key |-> k, still |-> TRUE]
  /\ UNCHANGED cache

LoadEnds ==
  /\ loading # NoLoad
  /\ cache' = [cache EXCEPT ![loading.key] =
                 IF loading.still THEN "current" ELSE "stale"]
  /\ loading' = NoLoad

\* create_retriever raises: nothing is cached and the lock is released.
LoadFails ==
  /\ loading # NoLoad
  /\ loading' = NoLoad
  /\ UNCHANGED cache

Queries == (\E k \in Key : LoadBegins(k)) \/ LoadEnds \/ LoadFails

\* A point of the collection is written or pruned.
IndexChanges ==
  /\ cache' = [k \in Key |-> IF cache[k] = "empty" THEN "empty" ELSE "stale"]
  /\ loading' = IF loading = NoLoad THEN NoLoad
                ELSE [loading EXCEPT !.still = FALSE]

\* refresh_backend and _replace: a new object with nothing cached.
Replace ==
  /\ cache' = [k \in Key |-> "empty"]
  /\ loading' = NoLoad

\* Nothing that a new request can read, now or when its load ends, is older
\* than the index.
BackendIsCurrent ==
  /\ \A k \in Key : cache[k] # "stale"
  /\ loading.still

=============================================================================
