---------------------------- MODULE SingleWriter ----------------------------
(***************************************************************************)
(* What the crawl and corpus managers promise together ("one job can write *)
(* this acquisition directory at a time", class CrawlConflict): the users  *)
(* of the capture directory enter it one at a time and leave it before     *)
(* another one enters.  No lock, no job, no thread.                        *)
(***************************************************************************)
CONSTANT User  \* the components that may use the directory

VARIABLE using \* the users inside it

Enter(u) == using = {} /\ using' = {u}
Leave(u) == using = {u} /\ using' = {}

Init == using = {}
Next == \E u \in User : Enter(u) \/ Leave(u)
Spec == Init /\ [][Next]_using

=============================================================================
