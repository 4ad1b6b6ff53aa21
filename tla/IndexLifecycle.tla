---------------------------- MODULE IndexLifecycle ----------------------------
(* The life of a candidate index: it is built (IndexBuild), and once its      *)
(* collection exists operators may promote it and roll back (IndexAliases).   *)
EXTENDS IndexBuild

CONSTANTS Operators, Physical, Initial,
          Candidate,   \* the collection the builders write
          Before       \* aliases earlier cycles may have left

ASSUME CollectionAssumption == Candidate \in Physical /\ None \notin Physical

VARIABLES aliases, command

Alias == INSTANCE IndexAliases

lifecycleVars == << vars, aliases, command >>

\* The collections on the server: all were there before but the candidate.
Exists == IF collection = None THEN Physical \ {Candidate} ELSE Physical

LifecycleInit ==
  /\ Init
  /\ Alias!AliasInit
  /\ aliases \in Before

\* A command is one of the bounded events.
Begin(o) ==
  /\ \/ \E c \in Physical : Alias!Promote(o, c, Exists)
     \/ Alias!Rollback(o)
  /\ May("events", MaxEvents)
  /\ UNCHANGED << capture, settings, collection, points, build, reported, reader >>

End(o) ==
  /\ Alias!Apply(o) \/ Alias!Abandon(o)
  /\ UNCHANGED vars

LifecycleNext ==
  \/ IndexNext /\ UNCHANGED << aliases, command >>
  \/ \E o \in Operators : Begin(o) \/ End(o)

LifecycleSpec == LifecycleInit /\ [][LifecycleNext]_lifecycleVars

AliasesNeverVanish == Alias!AliasesNeverVanish
CommandsAreExact == Alias!CommandsAreExact

=============================================================================
