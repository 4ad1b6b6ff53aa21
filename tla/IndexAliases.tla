----------------------------- MODULE IndexAliases -----------------------------
(* QdrantIndexAliases: promote and rollback of the alias the readers use.  A  *)
(* command reads the list of aliases in one request, decides, and sends a     *)
(* batch that Qdrant applies as a whole; another operator's command may come  *)
(* in between, and the answer may be lost.                                    *)
EXTENDS Integers, Sequences, SequencesExt

CONSTANTS
  Operators,   \* shells that run taxguide index
  Physical,    \* names of physical collections
  Initial,     \* the collection the configuration names
  None

VARIABLES
  aliases,     \* taxguide_current and taxguide_previous: a collection or None
  command      \* operator -> the batch decided on and not yet applied, with the
               \* aliases and the collections it was decided on

aliasVars == << aliases, command >>

NoAlias == [current |-> None, previous |-> None]
NoCommand ==
  [kind |-> "none", candidate |-> None, seen |-> NoAlias, exists |-> {}, batch |-> << >>]

AliasInit ==
  /\ aliases \in {NoAlias} \cup
       {[current |-> c, previous |-> p] : c \in Physical, p \in (Physical \cup {None})}
  /\ aliases.current # None => aliases.previous # aliases.current
  /\ command = [o \in Operators |-> NoCommand]

-----------------------------------------------------------------------------
\* The operations of a batch, on what the aliases have become when they run.
Delete(name) == [op |-> "delete", name |-> name, to |-> None]
Create(name, target) == [op |-> "create", name |-> name, to |-> target]
Rename(old, new) == [op |-> "rename", name |-> old, to |-> new]

Perform(a, op) ==
  CASE op.op = "delete" -> [a EXCEPT ![op.name] = None]
    [] op.op = "create" -> [a EXCEPT ![op.name] = op.to]
    [] op.op = "rename" -> [a EXCEPT ![op.to] = a[op.name], ![op.name] = None]

\* Renaming needs the old name; a server may also insist that a new name is free.
Refuses(a, op, strict) ==
  \/ op.op = "rename" /\ a[op.name] = None
  \/ strict /\ op.op = "create" /\ a[op.name] # None
  \/ strict /\ op.op = "rename" /\ a[op.to] # None

Prefix(batch, i) == FoldLeft(Perform, aliases, SubSeq(batch, 1, i))
Refused(batch, strict) ==
  \E i \in DOMAIN batch : Refuses(Prefix(batch, i - 1), batch[i], strict)

-----------------------------------------------------------------------------
\* What promote retains when there is no alias yet: the configured collection.
Former_activeOnly(a, candidate, exists) == a.current
Former(a, candidate, exists) ==
  IF a.current # None THEN a.current
  ELSE IF Initial \in exists \ {candidate} THEN Initial ELSE None

PromoteBatch(a, candidate, exists) ==
  (IF a.current # None
   THEN (IF a.previous # None THEN << Delete("previous") >> ELSE << >>)
        \o << Rename("current", "previous") >>
   ELSE IF Former(a, candidate, exists) # None
        THEN << Create("previous", Former(a, candidate, exists)) >> ELSE << >>)
  \o << Create("current", candidate) >>

RollbackBatch_keepsOne(a) == << Delete("current"), Rename("previous", "current") >>
RollbackBatch(a) ==
  << Delete("current"), Rename("previous", "current"), Create("previous", a.current) >>

Decide(o, kind, candidate, exists, batch) ==
  /\ command' = [command EXCEPT ![o] =
       [kind |-> kind, candidate |-> candidate, seen |-> aliases, exists |-> exists,
        batch |-> batch]]
  /\ UNCHANGED aliases

\* promote: a candidate that exists and is neither active nor the rollback target.
Promote(o, candidate, exists) ==
  /\ command[o] = NoCommand
  /\ candidate \in exists
  /\ candidate \notin {aliases.current, aliases.previous}
  /\ aliases.current = None => aliases.previous = None
  /\ Decide(o, "promote", candidate, exists, PromoteBatch(aliases, candidate, exists))

Rollback(o) ==
  /\ command[o] = NoCommand
  /\ None \notin {aliases.current, aliases.previous}
  /\ aliases.current # aliases.previous
  /\ Decide(o, "rollback", None, {}, RollbackBatch(aliases))

\* The batch reaches the server: all of it is applied or nothing.  Whether the
\* answer comes back or is lost, the command is over.
Apply(o) ==
  /\ command[o] # NoCommand
  /\ \E strict \in BOOLEAN :
       aliases' = IF Refused(command[o].batch, strict) THEN aliases
                  ELSE Prefix(command[o].batch, Len(command[o].batch))
  /\ command' = [command EXCEPT ![o] = NoCommand]

\* The shell is interrupted, or the request never arrives.
Abandon(o) ==
  /\ command[o] # NoCommand
  /\ command' = [command EXCEPT ![o] = NoCommand]
  /\ UNCHANGED aliases

-----------------------------------------------------------------------------
\* However commands of several operators interleave, the alias of the readers
\* and the rollback alias, once set, never cease to name a collection
\* (indexing/aliases.py:64-96, 124-139).
AliasesNeverVanish ==
  [][\A name \in {"current", "previous"} : aliases[name] # None => aliases'[name] # None]_aliases

\* A command whose list of aliases is still right when its batch runs moves
\* both names as promised: the promoted or restored collection becomes active
\* and the rollback alias names the one that was active until then; at the
\* first promotion, it names the configured collection if the command found
\* that one beside its candidate, and is left unset if not.  Only commands
\* that overlap may lose a collection (aliases.py:31, 49-55, 109).
Undisturbed(o) == command[o] # NoCommand /\ command[o].seen = aliases
CommandsAreExact ==
  [][\A o \in Operators : Undisturbed(o) =>
       /\ \A strict \in BOOLEAN : ~Refused(command[o].batch, strict)
       /\ (command'[o] = NoCommand /\ aliases' # aliases) =>
            /\ aliases'.current =
                 IF command[o].kind = "promote" THEN command[o].candidate ELSE aliases.previous
            /\ aliases'.previous # aliases'.current
            /\ aliases.current # None => aliases'.previous = aliases.current
            /\ aliases.current = None =>
                 aliases'.previous = IF Initial \in command[o].exists \ {command[o].candidate}
                                     THEN Initial ELSE None]_aliasVars

=============================================================================
