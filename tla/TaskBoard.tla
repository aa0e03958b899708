------------------------------- MODULE TaskBoard -------------------------------
(***************************************************************************)
(* examples/040-pipeline-behaviors on the event loop: each handler awaits  *)
(* its datastore once before it acts, so that requests overlap between the *)
(* cache lookup of one and the store access of another, and a request can  *)
(* be cancelled at that await.  Mediators of several principals share the  *)
(* store and the cache.                                                    *)
(***************************************************************************)
EXTENDS Naturals, Sequences, SequencesExt

CONSTANTS
  BoardSends, Kind, Target, MayWrite, WantsCache,  \* as in TaskBoardSync
  NoEntry                                          \* what FakeCache.get answers for a key it has not

ASSUME BoardAssumption == NoEntry \notin [ids : SUBSET Nat, done : SUBSET Nat]

VARIABLES
  made, done,  \* TaskStore: its ids are 1 .. made; those done
  cache,       \* FakeCache: key -> the answer stored under it, or NoEntry
  stage,       \* request -> "idle", "awaiting" or "ended"
  answer,      \* request -> its answer
  trace        \* request -> the markers the behaviors left for it

boardVars == <<made, done, cache, stage, answer, trace>>

NoAnswer == [kind |-> "none", ids |-> {}, done |-> {}]
Refusal(error) == [NoAnswer EXCEPT !.kind = error]
Shown(kind, ids, finished) == [kind |-> kind, ids |-> ids, done |-> ids \cap finished]
Command(r) == Kind[r] \in {"add", "complete"}

(* CachingBehavior.should_apply: a query with its field cacheable set.     *)
Cacheable(r) == ~Command(r) /\ r \in WantsCache
Key(r) == <<Kind[r], IF Kind[r] = "get" THEN Target[r] ELSE 0>>
Keys == {Key(r) : r \in {q \in BoardSends : Cacheable(q)}}

BoardInit ==
  /\ made = 0 /\ done = {}
  /\ cache = [k \in Keys |-> NoEntry]
  /\ stage = [r \in BoardSends |-> "idle"]
  /\ answer = [r \in BoardSends |-> NoAnswer]
  /\ trace = [r \in BoardSends |-> <<>>]

-----------------------------------------------------------------------------
(* The cache holds the Tasks themselves, not copies: a hit shows those of  *)
(* its entry as they are when it comes.                                    *)
Entry(ids) == [ids |-> ids, done |-> ids \cap done]
DoneOf_WhenStored(entry) == entry.done
DoneOf(entry) == entry.ids \cap done

(* LoggingBehavior appends its exit in a finally block.                    *)
LogExit_OnReturn(r, markers) ==
  IF "transaction:error" \in Range(markers) THEN trace[r] \o markers
  ELSE trace[r] \o markers \o <<"log:exit">>
LogExit(r, markers) == trace[r] \o markers \o <<"log:exit">>

End(r, response, markers) ==
  /\ stage' = [stage EXCEPT ![r] = "ended"]
  /\ answer' = [answer EXCEPT ![r] = response]
  /\ trace' = [trace EXCEPT ![r] = LogExit(r, markers)]

Sent(r) == stage[r] = "idle"

(* The pipeline down to the first await of the handler.                    *)
Await(r, markers) ==
  /\ Sent(r)
  /\ stage' = [stage EXCEPT ![r] = "awaiting"]
  /\ trace' = [trace EXCEPT ![r] = <<"log:enter">> \o markers]
  /\ UNCHANGED <<made, done, cache, answer>>

SendCommand(r) == Command(r) /\ r \in MayWrite /\ Await(r, <<"authorization", "transaction:enter">>)

(* AuthorizationBehavior refuses before anything else has run.             *)
SendDenied(r) ==
  /\ Command(r) /\ r \notin MayWrite /\ Sent(r)
  /\ stage' = [stage EXCEPT ![r] = "ended"]
  /\ answer' = [answer EXCEPT ![r] = Refusal("AccessDenied")]
  /\ trace' = [trace EXCEPT ![r] = <<"log:enter", "log:exit">>]
  /\ UNCHANGED <<made, done, cache>>

SendQuery(r) ==
  /\ ~Command(r)
  /\ Cacheable(r) => cache[Key(r)] = NoEntry
  /\ Await(r, IF Cacheable(r) THEN <<"cache:miss">> ELSE <<>>)

CacheHit(r) ==
  /\ Cacheable(r) /\ Sent(r) /\ cache[Key(r)] # NoEntry
  /\ stage' = [stage EXCEPT ![r] = "ended"]
  /\ answer' = [answer EXCEPT ![r] =
                  Shown(IF Kind[r] = "get" THEN "task" ELSE "list",
                        cache[Key(r)].ids, DoneOf(cache[Key(r)]))]
  /\ trace' = [trace EXCEPT ![r] = <<"log:enter", "cache:hit", "log:exit">>]
  /\ UNCHANGED <<made, done, cache>>

-----------------------------------------------------------------------------
(* The handler resumes, acts and returns through the behaviors in one step *)
(* of the loop.                                                            *)
Raise(r, error) ==
  /\ End(r, Refusal(error), IF Command(r) THEN <<"transaction:error">> ELSE <<>>)
  /\ UNCHANGED <<made, done>>
Committed == <<"transaction:exit">>

AddTask(r) ==
  /\ stage[r] = "awaiting" /\ Kind[r] = "add"
  /\ made' = made + 1
  /\ End(r, Shown("task", {made + 1}, {}), Committed)
  /\ UNCHANGED <<done, cache>>

CompleteTask(r) ==
  /\ stage[r] = "awaiting" /\ Kind[r] = "complete"
  /\ IF Target[r] \in 1 .. made
     THEN /\ done' = done \cup {Target[r]}
          /\ End(r, Shown("task", {Target[r]}, done'), Committed) /\ UNCHANGED made
     ELSE Raise(r, "TaskNotFound")
  /\ UNCHANGED cache

(* The handler of a query reads the store; CachingBehavior, if it applies, *)
(* stores what it returns, over what another miss has stored meanwhile.    *)
Return(r, kind, ids) ==
  /\ End(r, Shown(kind, ids, done), <<>>)
  /\ cache' = IF Cacheable(r) THEN [cache EXCEPT ![Key(r)] = Entry(ids)] ELSE cache
  /\ UNCHANGED <<made, done>>

GetTask(r) ==
  /\ stage[r] = "awaiting" /\ Kind[r] = "get"
  /\ IF Target[r] \in 1 .. made
     THEN Return(r, "task", {Target[r]})
     ELSE Raise(r, "TaskNotFound") /\ UNCHANGED cache

ListOpenTasks(r) ==
  /\ stage[r] = "awaiting" /\ Kind[r] = "list"
  /\ Return(r, "list", (1 .. made) \ done)

(* The caller cancels its task: CancelledError is raised at the await.  It *)
(* is no Exception, so TransactionBehavior lets it pass.                   *)
CancelSend(r) ==
  /\ stage[r] = "awaiting"
  /\ End(r, Refusal("cancelled"), <<>>)
  /\ UNCHANGED <<made, done, cache>>

BoardNext ==
  \E r \in BoardSends :
    \/ SendCommand(r) \/ SendDenied(r) \/ SendQuery(r) \/ CacheHit(r)
    \/ AddTask(r) \/ CompleteTask(r) \/ GetTask(r) \/ ListOpenTasks(r) \/ CancelSend(r)

BoardSpec == BoardInit /\ [][BoardNext]_boardVars

-----------------------------------------------------------------------------
BoardTypeOK ==
  /\ made \in Nat /\ done \subseteq 1 .. made
  /\ stage \in [BoardSends -> {"idle", "awaiting", "ended"}]
  /\ \A r \in BoardSends : stage[r] = "ended" <=> answer[r] # NoAnswer
  /\ \A k \in DOMAIN cache : cache[k] # NoEntry => cache[k].ids \subseteq 1 .. made

(* Logging sees every request out, however it ends; and a transaction that *)
(* was entered is closed once, inside it, unless the request was cancelled.*)
TraceIsBracketed ==
  \A r \in BoardSends : stage[r] = "ended" =>
    /\ trace[r][1] = "log:enter" /\ Last(trace[r]) = "log:exit"
    /\ "transaction:enter" \in Range(trace[r]) /\ answer[r].kind # "cancelled" =>
         trace[r][Len(trace[r]) - 1] =
           IF answer[r].kind = "task" THEN "transaction:exit" ELSE "transaction:error"

(* The asynchronous board answers every request as the synchronous one     *)
(* would have, had it run it in one go between its send and its answer: a  *)
(* Task is never older than its send although CachingBehavior invalidates  *)
(* nothing, a query that opted out neither reads nor writes the cache, and *)
(* a cancelled request is as if it had not been sent.  One case is this    *)
(* board's own: of cacheable lists that missed together, the later answers *)
(* afresh and replaces the entry of the earlier.                           *)
Sync == INSTANCE TaskBoardSync WITH
  cached <- [k \in DOMAIN cache |-> IF cache[k] = NoEntry THEN {} ELSE {cache[k].ids}],
  answer <- [r \in BoardSends |-> IF answer[r].kind = "cancelled" THEN NoAnswer ELSE answer[r]]
Refills == \E r \in BoardSends : stage[r] = "awaiting" /\ Sync!Refill(r)
MirrorsSyncBoard == Sync!Init /\ [][Sync!Next \/ Refills]_(Sync!boardState)
===============================================================================
