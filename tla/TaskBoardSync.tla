----------------------------- MODULE TaskBoardSync -----------------------------
(***************************************************************************)
(* examples/040-pipeline-behaviors-sync: a task board behind a pipeline of *)
(* logging, authorization, caching and transaction behaviors.  A request   *)
(* runs from its send to its answer in one step, which makes this twin the *)
(* specification the asynchronous one (TaskBoard) implements.              *)
(***************************************************************************)
EXTENDS Naturals

CONSTANTS
  BoardSends,  \* requests sent
  Kind,        \* request -> "add", "complete", "get" or "list"
  Target,      \* request -> the task id it names
  MayWrite,    \* requests of principals with can_write
  WantsCache   \* queries whose cacheable field is True, the default of GetTask only

VARIABLES
  made,     \* how many tasks TaskStore has: their ids are 1 .. made
  done,     \* the ids of those that are done
  cached,   \* FakeCache: key -> {the ids of the tasks stored under it}, or {}
  answer    \* request -> its answer

NoAnswer == [kind |-> "none", ids |-> {}, done |-> {}]
Refusal(error) == [NoAnswer EXCEPT !.kind = error]
Command(r) == Kind[r] \in {"add", "complete"}

(* An answer is a Task or a list of them, shown as they are then.          *)
Shown(kind, ids, finished) == [kind |-> kind, ids |-> ids, done |-> ids \cap finished]

(* CachingBehavior.should_apply; the key is the repr of the request.       *)
Cacheable(r) == ~Command(r) /\ r \in WantsCache
Key(r) == <<Kind[r], IF Kind[r] = "get" THEN Target[r] ELSE 0>>
Keys == {Key(r) : r \in {q \in BoardSends : Cacheable(q)}}

Init ==
  /\ made = 0 /\ done = {} /\ cached = [k \in Keys |-> {}]
  /\ answer = [r \in BoardSends |-> NoAnswer]

Respond(r, response) == answer[r] = NoAnswer /\ answer' = [answer EXCEPT ![r] = response]

(* AuthorizationBehavior.                                                  *)
Denied(r) ==
  /\ Command(r) /\ r \notin MayWrite
  /\ Respond(r, Refusal("AccessDenied")) /\ UNCHANGED <<made, done, cached>>

AddTask(r) ==
  /\ Kind[r] = "add" /\ r \in MayWrite
  /\ made' = made + 1
  /\ Respond(r, Shown("task", {made + 1}, {}))
  /\ UNCHANGED <<done, cached>>

CompleteTask(r) ==
  /\ Kind[r] = "complete" /\ r \in MayWrite
  /\ IF Target[r] \in 1 .. made
     THEN done' = done \cup {Target[r]} /\ Respond(r, Shown("task", {Target[r]}, done'))
     ELSE Respond(r, Refusal("TaskNotFound")) /\ UNCHANGED done
  /\ UNCHANGED <<made, cached>>

(* The short circuit of CachingBehavior: the Tasks of the entry are those  *)
(* of the store, so that a hit shows them as they are now; which tasks a   *)
(* list has is settled when it is stored.  An empty list is an entry too.  *)
CacheHit(r) ==
  /\ Cacheable(r)
  /\ \E ids \in cached[Key(r)] :
       Respond(r, Shown(IF Kind[r] = "get" THEN "task" ELSE "list", ids, done))
  /\ UNCHANGED <<made, done, cached>>
Missed(r) == Cacheable(r) => cached[Key(r)] = {}

(* CachingBehavior stores what the handler returns, never what it raises.  *)
Return(r, kind, ids) ==
  /\ Respond(r, Shown(kind, ids, done))
  /\ cached' = IF Cacheable(r) THEN [cached EXCEPT ![Key(r)] = {ids}] ELSE cached
  /\ UNCHANGED <<made, done>>

GetTask(r) ==
  /\ Kind[r] = "get" /\ Missed(r)
  /\ IF Target[r] \in 1 .. made
     THEN Return(r, "task", {Target[r]})
     ELSE Respond(r, Refusal("TaskNotFound")) /\ UNCHANGED <<made, done, cached>>

Open == (1 .. made) \ done
ListOpenTasks(r) == Kind[r] = "list" /\ Missed(r) /\ Return(r, "list", Open)

boardState == <<made, done, cached, answer>>

Next ==
  \E r \in BoardSends :
    Denied(r) \/ AddTask(r) \/ CompleteTask(r) \/ CacheHit(r) \/ GetTask(r) \/ ListOpenTasks(r)

(* What no step of this board does: a list that finds an entry answers     *)
(* afresh from the store, and its answer replaces the entry.               *)
Refill(r) ==
  /\ Kind[r] = "list" /\ Cacheable(r) /\ cached[Key(r)] # {}
  /\ Return(r, "list", Open)
===============================================================================
