-------------------------- MODULE MCRuntimeControl --------------------------
(* Bounds for RuntimeControl: three services, of which two would use the GPU  *)
(* and one runs in a container, settings with two embeddings and collections  *)
(* and with and without local endpoints.                                      *)
EXTENDS RuntimeControl, TLC

CONSTANTS e1, e2, c1, c2

\* No definition tells one tab from another, and no property is a liveness property.
MCSymmetry == Permutations(Tab)

MCService == {"qdrant", "reranker", "generator"}
MCGpu == {"reranker", "generator"}
MCDocker == {"qdrant"}
Settings(e, c, local) == [embedding |-> e, collection |-> c, local |-> local]
MCInitial == Settings(e1, c1, MCService)
MCConnections == {MCInitial, Settings(e2, c2, MCService), Settings(e1, c2, {"qdrant"})}

=============================================================================
