-------------------------------- MODULE MCIndex --------------------------------
(* Bounds for IndexBuild: two documents, two versions of different shape, and *)
(* settings that differ in the model alone, in the chunker, and in the size   *)
(* of the vectors.                                                            *)
EXTENDS IndexLifecycle

CONSTANTS web, op1, op2, blue, red, green, d1, d2, v1, v2, m1, m2, m3, s1, s2, s3, s4

MCManifests == << d1, d2 >>
MCVersions == {v1, v2}
MCShape ==
  v1 :> [rates |-> FALSE,
         sections |-> << << << Span(1, 2), Span(3, 3) >>, << Span(4, 4) >> >> >>] @@
  v2 :> [rates |-> FALSE,
         sections |-> << << << Span(1, 1) >> >>, << << Span(2, 4) >>, << Span(5, 5) >> >> >>]

Setting(strategy, max, overlap, model) ==
  [strategy |-> strategy, max |-> max, overlap |-> overlap, model |-> model]
MCConfig ==
  s1 :> Setting("structural", 2, 0, m1) @@ s2 :> Setting("structural", 2, 0, m2) @@
  s3 :> Setting("fixed", 3, 2, m1) @@ s4 :> Setting("recursive", 3, 0, m3)
MCDimension == m1 :> 1 @@ m2 :> 1 @@ m3 :> 2

Page0(file, eligible, duplicate, annual) ==
  [file |-> file, eligible |-> eligible, duplicate |-> duplicate, annual |-> annual]
MCCaptures ==
  d1 :> {Page0(v1, TRUE, FALSE, FALSE), Page0(v2, TRUE, TRUE, TRUE)} @@
  d2 :> {Page0(v1, TRUE, FALSE, FALSE), Page0(v2, TRUE, TRUE, FALSE), Page0("missing", TRUE, FALSE, FALSE)}

MCBefore == {[current |-> None, previous |-> None], [current |-> blue, previous |-> red]}

\* Qdrant orders points by UUID: an order that is neither that of the
\* documents nor that of the chunks.
MCRank ==
  [id \in PointIds |->
     2 * (2 * (4 * (IF id.index = 2 THEN 0 ELSE 6 - id.index) + id.path)
          + (IF id.ver = v2 THEN 0 ELSE 1)) + (IF id.doc = d1 THEN 0 ELSE 1)]
ASSUME MCRankIsAnOrder ==
  \A id, other \in PointIds : MCRank[id] = MCRank[other] => id = other

=============================================================================
