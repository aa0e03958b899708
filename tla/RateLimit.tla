------------------------------- MODULE RateLimit -------------------------------
(***************************************************************************)
(* examples/045-behaviors-vs-decorators and its synchronous twin: one      *)
(* operation, AddTask, limited by a decorator on the handler's __call__,   *)
(* or by a behavior of the mediator in front of a plain handler.  Nothing  *)
(* awaits between the check and the task's insertion, so a call is one     *)
(* step in both twins.                                                     *)
(***************************************************************************)
EXTENDS Integers, Sequences, FiniteSets, FiniteSetsExt

CONSTANTS
  Quota,    \* the limit of a CallCountLimiter
  MaxAdds   \* bound on the AddTask calls

ASSUME RateAssumption == Quota \in Nat /\ MaxAdds \in Nat

Routes == {"decorated", "mediated", "plain"}  \* plain: the mediator's handler, called directly
Limiters == {"first", "second"}               \* CallCountLimiter instances
AlwaysAllow == "always"

VARIABLES
  limiter,  \* what the decorated handler and the behavior were given
  used,     \* limiter -> its count for the key "AddTask", which both routes use
  store,    \* task id -> the route by which it was added
  calls     \* route -> calls made

rateVars == <<limiter, used, store, calls>>

RateInit ==
  /\ limiter \in [{"decorated", "mediated"} -> Limiters \cup {AlwaysAllow}]
  /\ used = [l \in Limiters |-> 0]
  /\ store = <<>> /\ calls = [r \in Routes |-> 0]

(* CallCountLimiter.check: a call is counted first, a rejected one too.    *)
Exceeded_AtQuota(l) == used'[l] >= Quota
Exceeded(l) == used'[l] > Quota
Passes(l) ==
  IF l = AlwaysAllow THEN UNCHANGED used
  ELSE used' = [used EXCEPT ![l] = @ + 1] /\ ~Exceeded(l)
Rejects(l) ==
  /\ l # AlwaysAllow
  /\ used' = [used EXCEPT ![l] = @ + 1] /\ Exceeded(l)

NewTask(r) == store' = Append(store, r)
Called(r) ==
  /\ MapThenSumSet(LAMBDA x : calls[x], Routes) < MaxAdds
  /\ calls' = [calls EXCEPT ![r] = @ + 1] /\ UNCHANGED limiter

DecoratedAdd ==
  /\ Called("decorated")
  /\ \/ Passes(limiter["decorated"]) /\ NewTask("decorated")
     \/ Rejects(limiter["decorated"]) /\ UNCHANGED store

MediatedAdd ==
  /\ Called("mediated")
  /\ \/ Passes(limiter["mediated"]) /\ NewTask("mediated")
     \/ Rejects(limiter["mediated"]) /\ UNCHANGED store

(* A direct call of the plain handler meets no behavior.                   *)
PlainAdd == Called("plain") /\ NewTask("plain") /\ UNCHANGED used

RateNext == DecoratedAdd \/ MediatedAdd \/ PlainAdd
RateSpec == RateInit /\ [][RateNext]_rateVars

-----------------------------------------------------------------------------
RateTypeOK ==
  /\ limiter \in [{"decorated", "mediated"} -> Limiters \cup {AlwaysAllow}]
  /\ used \in [Limiters -> 0 .. MaxAdds] /\ calls \in [Routes -> 0 .. MaxAdds]
  /\ Len(store) <= MaxAdds

(* A limiter lets through exactly its quota: the tasks added by the routes *)
(* that share it, through a decorator, a behavior or both, are as many as  *)
(* their calls up to the quota; direct calls use none of it up.            *)
QuotaIsExact ==
  \A l \in Limiters :
    LET sharers == {r \in DOMAIN limiter : limiter[r] = l}
        made == MapThenSumSet(LAMBDA r : calls[r], sharers)
    IN  Cardinality({i \in DOMAIN store : store[i] \in sharers}) = Min({Quota, made})
===============================================================================
