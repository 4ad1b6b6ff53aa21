---------------------------- MODULE MCAdminPlane ----------------------------
(* Bounds for AdminPlane: one section of one page, one crawl job per process  *)
(* life, one preparation job of one document over all of them, at most one    *)
(* cached adapter; crashes and restarts are not bounded.                      *)
EXTENDS AdminPlane

CONSTANTS s1, k1

MCSource == {s1}
MCKey == {k1}

=============================================================================
