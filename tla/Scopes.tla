-------------------------------- MODULE Scopes --------------------------------
(***************************************************************************)
(* examples/100-dependency-injection(-sync): a repository for the whole    *)
(* application and a ContextLocalSingleton unit of work, which the         *)
(* transaction behavior and the handler of one dispatch share, and other   *)
(* dispatches of the same context too, until the context resets it.  A     *)
(* task starts with a copy of the context that created it.  No coroutine   *)
(* awaits anything that suspends: a dispatch is one step.                  *)
(***************************************************************************)
EXTENDS Selection, Naturals, Sequences, SequencesExt

CONSTANTS
  Contexts,    \* contexts dispatches run in
  Root,        \* the one the others are spawned from
  MaxDispatch  \* bound on the dispatches

ASSUME ScopesAssumption == Root \in Contexts /\ MaxDispatch \in Nat

VARIABLES
  alive,    \* the contexts that exist
  unit,     \* context -> its UnitOfWork, 0 if it has none yet
  entries,  \* the logs of the units of work made so far
  users,    \* how many users the repository has: ids 1 .. users
  tally     \* what was dispatched: [registered, found, missed]

scopesVars == <<alive, unit, entries, users, tally>>

ScopesInit ==
  /\ alive = {Root} /\ unit = [c \in Contexts |-> 0] /\ entries = <<>>
  /\ users = 0 /\ tally = [registered |-> 0, found |-> 0, missed |-> 0]

Spawn(c) ==
  /\ c \notin alive /\ alive' = alive \cup {c}
  /\ unit' = [unit EXCEPT ![c] = unit[Root]]
  /\ UNCHANGED <<entries, users, tally>>

(* ContextLocalSingleton (external): the context's instance, or a new one. *)
UnitFor(c) == IF unit[c] = 0 THEN Len(entries) + 1 ELSE unit[c]

Mark(kind) == [kind |-> kind, user |-> 0]
Registered(id) == [kind |-> "registered", user |-> id]
Begin == Mark("begin")
Commit == Mark("commit")

(* The behavior and the handler were both given the context's unit of work.*)
Write(c, log) ==
  /\ unit' = [unit EXCEPT ![c] = UnitFor(c)]
  /\ entries' = IF unit[c] = 0 THEN Append(entries, log) ELSE [entries EXCEPT ![unit[c]] = @ \o log]

Dispatch(c, kind) ==
  /\ c \in alive /\ tally.registered + tally.found + tally.missed < MaxDispatch
  /\ tally' = [tally EXCEPT ![kind] = @ + 1] /\ UNCHANGED alive

(* As if unit_of_work were a Factory: the handler logs to one of its own.  *)
RegisterUser_OwnUnit(c) ==
  /\ Dispatch(c, "registered") /\ users' = users + 1
  /\ unit' = [unit EXCEPT ![c] = UnitFor(c)]
  /\ entries' = (IF unit[c] = 0 THEN Append(entries, <<Begin, Commit>>)
                 ELSE [entries EXCEPT ![unit[c]] = @ \o <<Begin, Commit>>]) \o <<(<<Registered(users + 1)>>)>>
RegisterUser(c) ==
  /\ Dispatch(c, "registered")
  /\ users' = users + 1
  /\ Write(c, <<Begin, Registered(users + 1), Commit>>)

GetUser(c, id) ==
  /\ id \in 1 .. users
  /\ Dispatch(c, "found") /\ Write(c, <<Begin, Commit>>) /\ UNCHANGED users

(* UserNotFoundError passes the behavior, which has no finally.            *)
GetMissingUser_Committed(c) ==
  Dispatch(c, "missed") /\ Write(c, <<Begin, Commit>>) /\ UNCHANGED users
GetMissingUser(c) ==
  Dispatch(c, "missed") /\ Write(c, <<Begin>>) /\ UNCHANGED users

(* unit_of_work.reset(), at the boundary of a scope.                       *)
ResetUnit(c) ==
  /\ c \in alive /\ unit[c] # 0
  /\ unit' = [unit EXCEPT ![c] = 0]
  /\ UNCHANGED <<alive, entries, users, tally>>

ScopesNext ==
  \E c \in Contexts :
    \/ Spawn(c) \/ RegisterUser(c) \/ GetMissingUser(c) \/ ResetUnit(c)
    \/ \E id \in 1 .. MaxDispatch : GetUser(c, id)
ScopesSpec == ScopesInit /\ [][ScopesNext]_scopesVars

-----------------------------------------------------------------------------
ScopesTypeOK ==
  /\ Root \in alive /\ users \in 0 .. MaxDispatch
  /\ \A c \in Contexts : unit[c] \in 0 .. Len(entries)

Count(log, mark) == Len(Selected(log, {mark}))
Total(mark) == SumFunction([u \in DOMAIN entries |-> Count(entries[u], mark)])

(* In every log, shared or not, each registration stands between the begin *)
(* and the commit of its own dispatch, and a commit closes a begin: what   *)
(* failed earlier in the same scope leaves a begin without a commit only.  *)
WritesAreBracketed ==
  \A u \in DOMAIN entries :
    LET log == entries[u] IN
    \A i \in DOMAIN log :
      /\ log[i].kind = "registered" =>
           i > 1 /\ i < Len(log) /\ log[i - 1] = Begin /\ log[i + 1] = Commit
      /\ log[i] = Commit => i > 1 /\ log[i - 1] # Commit

(* Over all scopes together, the logs account for every dispatch: one      *)
(* commit for each that succeeded, one begin for each, each user in one    *)
(* log, however contexts were spawned and reset in between.                *)
LogsAccountForDispatches ==
  /\ Total(Begin) = tally.registered + tally.found + tally.missed
  /\ Total(Commit) = tally.registered + tally.found
  /\ \A id \in 1 .. users : Total(Registered(id)) = 1
===============================================================================
