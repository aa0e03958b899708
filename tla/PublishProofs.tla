----------------------------- MODULE PublishProofs -----------------------------
(***************************************************************************)
(* Proofs about Publish for any number of publications and subscribers.    *)
(* Those of delivery assume that every subscriber is of the form the       *)
(* asynchronous mediator is for, an async def; the last two do not.        *)
(***************************************************************************)
EXTENDS Publish, SequenceTheorems, TLAPS

Types ==
  /\ registered \in Seq(Subscribers)
  /\ handlers \in [Publications -> Seq(Subscribers)]
  /\ phase \in [Publications -> Phases]
  /\ task \in [Publications -> [Subscribers -> TaskStates]]
  /\ ready \in Seq(Publications \X Subscribers)

(* A task exists for exactly the subscribers publish resolved, each once,  *)
(* and while one of them is not done publish waits in gather.              *)
Addressed ==
  /\ IsInjective(registered)
  /\ \A p \in Publications :
       /\ IsInjective(handlers[p])
       /\ Range(handlers[p]) \subseteq wired
       /\ phase[p] = "idle" => handlers[p] = <<>>
       /\ \A s \in Subscribers :
            /\ task[p][s] = "none" <=> s \notin Range(handlers[p])
            /\ task[p][s] \in Unfinished => phase[p] = "gathering"

(* The ready queue holds each task that has not started, once.             *)
Queued ==
  /\ IsInjective(ready)
  /\ \A i \in 1 .. Len(ready) : task[ready[i][1]][ready[i][2]] = "ready"
Queue ==
  /\ Queued
  /\ \A p \in Publications, s \in Subscribers :
       task[p][s] = "ready" => \E i \in 1 .. Len(ready) : ready[i] = <<p, s>>

(* Of one publication, they are queued and so started as registered.       *)
Ordered ==
  \A p \in Publications : \A i, j \in 1 .. Len(handlers[p]) : i < j =>
    /\ task[p][handlers[p][j]] \notin {"ready", "unborn"} => task[p][handlers[p][i]] # "ready"
    /\ \A a, b \in 1 .. Len(ready) :
         ready[a] = <<p, handlers[p][i]>> /\ ready[b] = <<p, handlers[p][j]>> => a < b

(* A subscriber is only cancelled along with its publication.              *)
Cancellations ==
  /\ cancelling \subseteq cancelled \X Subscribers
  /\ \A p \in Publications, s \in Subscribers : task[p][s] = "unborn" => p \in cancelled

PublishInv == Types /\ Addressed /\ Queue /\ Ordered /\ Cancellations

-----------------------------------------------------------------------------
LEMMA InitInv == Init => PublishInv
  <1> SUFFICES ASSUME Init PROVE PublishInv
    OBVIOUS
  <1>1. Types
    BY DEF Init, Types, Phases, TaskStates
  <1>2. Addressed
    BY DEF Init, Addressed, IsInjective, Range, Unfinished
  <1>3. Queue /\ Ordered /\ Cancellations
    BY DEF Init, Queue, Queued, Ordered, Cancellations, IsInjective
  <1> QED BY <1>1, <1>2, <1>3 DEF PublishInv

(* The head of the queue, and the queue without it.                        *)
LEMMA QueueHead ==
  ASSUME Types, Queued, ready # <<>>
  PROVE  /\ Head(ready) = ready[1] /\ 1 \in 1 .. Len(ready)
         /\ Head(ready)[1] \in Publications /\ Head(ready)[2] \in Subscribers
         /\ Head(ready) = <<Head(ready)[1], Head(ready)[2]>>
         /\ task[Head(ready)[1]][Head(ready)[2]] = "ready"
  <1>1. ready \in Seq(Publications \X Subscribers) /\ Len(ready) \in Nat /\ Len(ready) > 0
    BY DEF Types
  <1>2. Head(ready) = ready[1] /\ ready[1] \in Publications \X Subscribers
    BY <1>1
  <1> QED BY <1>1, <1>2 DEF Queued

LEMMA QueueTail ==
  ASSUME Types, Queued, ready # <<>>, ready' = Tail(ready)
  PROVE  /\ ready' \in Seq(Publications \X Subscribers)
         /\ Len(ready') = Len(ready) - 1 /\ Len(ready) \in Nat
         /\ \A i \in 1 .. Len(ready') :
              i + 1 \in 1 .. Len(ready) /\ ready'[i] = ready[i + 1] /\ ready'[i] # Head(ready)
  <1>1. /\ ready' \in Seq(Publications \X Subscribers)
        /\ Len(ready') = Len(ready) - 1 /\ Len(ready) \in Nat
        /\ \A i \in 1 .. Len(ready') : i + 1 \in 1 .. Len(ready) /\ ready'[i] = ready[i + 1] /\ i + 1 # 1
    BY DEF Types
  <1>2. DOMAIN ready = 1 .. Len(ready) /\ 1 \in 1 .. Len(ready) /\ Head(ready) = ready[1]
    BY QueueHead DEF Types
  <1> QED BY <1>1, <1>2 DEF Queued, IsInjective

(* One task moves on: from its wake-up, or from the head of the queue.     *)
Moves(p, s, state) ==
  /\ task[p][s] \in Unfinished
  /\ state \in Finished \cup {"suspended"}
  /\ state = "unborn" => task[p][s] = "ready"
  /\ task' = [task EXCEPT ![p][s] = state]
  /\ \/ task[p][s] = "suspended" /\ UNCHANGED ready
     \/ ready # <<>> /\ Head(ready) = <<p, s>> /\ ready' = Tail(ready)
  /\ UNCHANGED <<registered, wired, handlers, phase>>

(* A cancellation that hits a task before it starts was meant for p.       *)
Sanctioned(p, state) ==
  /\ state = "unborn" => p \in cancelled
  /\ cancelled \subseteq cancelled' /\ cancelling' \subseteq cancelled' \X Subscribers

LEMMA QueueMoves ==
  ASSUME Types, Queued, NEW p \in Publications, NEW s \in Subscribers, NEW state, Moves(p, s, state)
  PROVE  Queued'
  <1>1. \A q \in Publications, r \in Subscribers :
          task'[q][r] = IF q = p /\ r = s THEN state ELSE task[q][r]
    BY DEF Moves, Types
  <1>2. ASSUME task[p][s] = "suspended", UNCHANGED ready PROVE Queued'
    <2>1. ASSUME NEW i \in 1 .. Len(ready) PROVE task'[ready[i][1]][ready[i][2]] = "ready"
      <3>1. ready[i] \in Publications \X Subscribers /\ task[ready[i][1]][ready[i][2]] = "ready"
        BY DEF Types, Queued
      <3>2. ~(ready[i][1] = p /\ ready[i][2] = s)
        BY <1>2, <3>1
      <3> QED BY <1>1, <3>1, <3>2
    <2> QED BY <1>2, <2>1 DEF Queued
  <1>3. ASSUME ready # <<>>, Head(ready) = <<p, s>>, ready' = Tail(ready) PROVE Queued'
    <2>1. IsInjective(ready')
      <3>1. DOMAIN ready = 1 .. Len(ready) /\ DOMAIN ready' = 1 .. Len(ready')
        BY <1>3, QueueTail DEF Types
      <3> QED BY <1>3, <3>1, QueueTail DEF Queued, IsInjective
    <2>2. ASSUME NEW i \in 1 .. Len(ready') PROVE task'[ready'[i][1]][ready'[i][2]] = "ready"
      <3>1. PICK k \in 1 .. Len(ready) : ready'[i] = ready[k] /\ ready[k] # <<p, s>>
        BY <1>3, QueueTail
      <3>2. ready[k] \in Publications \X Subscribers /\ task[ready[k][1]][ready[k][2]] = "ready"
        BY DEF Types, Queued
      <3> QED BY <1>1, <3>1, <3>2
    <2> QED BY <2>1, <2>2 DEF Queued
  <1> QED BY <1>2, <1>3 DEF Moves

LEMMA MoveStep ==
  ASSUME PublishInv, NEW p \in Publications, NEW s \in Subscribers, NEW state, Moves(p, s, state),
         Sanctioned(p, state)
  PROVE  PublishInv'
  <1>0. handlers' = handlers
    BY DEF Moves
  <1>11. Types /\ Queued
    BY DEF PublishInv, Queue
  <1>10. Queued'
    BY <1>11, QueueMoves
  <1>1. \A q \in Publications, r \in Subscribers :
          task'[q][r] = IF q = p /\ r = s THEN state ELSE task[q][r]
    BY DEF Moves, PublishInv, Types
  <1>2. /\ task' \in [Publications -> [Subscribers -> TaskStates]]
        /\ state # "none" /\ state # "ready"
    BY DEF Moves, PublishInv, Types, TaskStates, Finished, Unfinished
  <1>3. Types'
    BY <1>0, <1>11, <1>2, QueueTail DEF Moves, PublishInv, Types
  <1>4. Addressed'
    <2>1. \A q \in Publications, r \in Subscribers :
            /\ task'[q][r] = "none" <=> task[q][r] = "none"
            /\ task'[q][r] \in Unfinished => task[q][r] \in Unfinished
      BY <1>1, <1>2 DEF Moves, Unfinished
    <2> QED BY <2>1 DEF Moves, PublishInv, Addressed
  <1>5. \A q \in Publications, r \in Subscribers :
          task'[q][r] = "ready" => task[q][r] = "ready" /\ ~(q = p /\ r = s)
    BY <1>1, <1>2
  <1>6. ASSUME task[p][s] = "suspended", UNCHANGED ready PROVE Queue' /\ Ordered'
    <2>1. Queue'
      BY <1>5, <1>6, <1>10 DEF PublishInv, Queue
    <2>2. Ordered'
      <3> SUFFICES ASSUME NEW q \in Publications, NEW i \in 1 .. Len(handlers[q]), NEW j \in 1 .. Len(handlers[q]),
                          i < j
                   PROVE  /\ task'[q][handlers[q][j]] \notin {"ready", "unborn"} => task'[q][handlers[q][i]] # "ready"
                          /\ \A a, b \in 1 .. Len(ready) :
                               ready[a] = <<q, handlers[q][i]>> /\ ready[b] = <<q, handlers[q][j]>> => a < b
        BY <1>0, <1>6 DEF Ordered
      <3>1. handlers[q][i] \in Subscribers /\ handlers[q][j] \in Subscribers
        BY DEF PublishInv, Types
      <3>2. task'[q][handlers[q][j]] \notin {"ready", "unborn"} => task[q][handlers[q][j]] \notin {"ready", "unborn"}
        BY <1>1, <1>6, <3>1
      <3> QED BY <1>5, <3>1, <3>2 DEF PublishInv, Ordered
    <2> QED BY <2>1, <2>2
  <1>7. ASSUME ready # <<>>, Head(ready) = <<p, s>>, ready' = Tail(ready) PROVE Queue' /\ Ordered'
    <2>1. ready[1] = <<p, s>> /\ 1 \in 1 .. Len(ready) /\ task[p][s] = "ready"
      BY <1>11, <1>7, QueueHead
    <2>2. \A i \in 1 .. Len(ready') : i + 1 \in 1 .. Len(ready) /\ ready'[i] = ready[i + 1] /\ ready'[i] # <<p, s>>
      BY <1>11, <1>7, QueueTail
    <2>3. Queue'
      <3>3. ASSUME NEW q \in Publications, NEW r \in Subscribers, task'[q][r] = "ready"
            PROVE  \E i \in 1 .. Len(ready') : ready'[i] = <<q, r>>
        <4>1. PICK k \in 1 .. Len(ready) : ready[k] = <<q, r>>
          BY <1>5, <3>3 DEF PublishInv, Queue, Queued
        <4>2. k # 1
          BY <1>5, <2>1, <3>3, <4>1
        <4>3. k - 1 \in 1 .. Len(ready') /\ ready'[k - 1] = ready[(k - 1) + 1] /\ (k - 1) + 1 = k
          BY <1>11, <1>7, <4>2, QueueTail
        <4> QED BY <4>1, <4>3
      <3> QED BY <1>10, <3>3 DEF Queue
    <2>4. Ordered'
      <3> SUFFICES ASSUME NEW q \in Publications, NEW i \in 1 .. Len(handlers[q]), NEW j \in 1 .. Len(handlers[q]),
                          i < j
                   PROVE  /\ task'[q][handlers[q][j]] \notin {"ready", "unborn"} => task'[q][handlers[q][i]] # "ready"
                          /\ \A a, b \in 1 .. Len(ready') :
                               ready'[a] = <<q, handlers[q][i]>> /\ ready'[b] = <<q, handlers[q][j]>> => a < b
        BY <1>0 DEF Ordered
      <3>1. handlers[q][i] \in Subscribers /\ handlers[q][j] \in Subscribers
        BY DEF PublishInv, Types
      <3>2. ASSUME task'[q][handlers[q][j]] \notin {"ready", "unborn"}, task'[q][handlers[q][i]] = "ready" PROVE FALSE
        <4>1. task[q][handlers[q][i]] = "ready"
          BY <1>5, <3>1, <3>2
        <4>2. q = p /\ handlers[q][j] = s
          BY <1>1, <3>1, <3>2, <4>1 DEF PublishInv, Ordered
        <4>3. PICK b \in 1 .. Len(ready) : ready[b] = <<q, handlers[q][i]>>
          BY <3>1, <4>1 DEF PublishInv, Queue, Queued
        <4>4. b < 1
          BY <2>1, <4>2, <4>3 DEF PublishInv, Ordered
        <4> QED BY <4>4
      <3>3. ASSUME NEW a \in 1 .. Len(ready'), NEW b \in 1 .. Len(ready'),
                   ready'[a] = <<q, handlers[q][i]>>, ready'[b] = <<q, handlers[q][j]>>
            PROVE  a < b
        <4>1. /\ a + 1 \in 1 .. Len(ready) /\ ready[a + 1] = <<q, handlers[q][i]>>
              /\ b + 1 \in 1 .. Len(ready) /\ ready[b + 1] = <<q, handlers[q][j]>>
          BY <2>2, <3>3
        <4>2. a + 1 < b + 1
          BY <4>1 DEF PublishInv, Ordered
        <4> QED BY <4>2
      <3> QED BY <3>2, <3>3
    <2> QED BY <2>3, <2>4
  <1>8. Queue' /\ Ordered'
    BY <1>6, <1>7 DEF Moves
  <1>9. Cancellations'
    BY <1>1 DEF Sanctioned, Moves, PublishInv, Cancellations
  <1> QED BY <1>3, <1>4, <1>8, <1>9 DEF PublishInv

(* What the loop lets run, and what may become of it.                      *)
LEMMA RunMoves ==
  ASSUME PublishInv, NEW p \in Publications, NEW s \in Subscribers, task[p][s] \in Unfinished,
         \/ task[p][s] = "suspended" /\ UNCHANGED ready
         \/ ready # <<>> /\ Head(ready) = <<p, s>> /\ ready' = Tail(ready),
         \/ Run(p, s)
         \/ <<p, s>> \in cancelling /\ task[p][s] = "ready" /\ Reach(p, s, "unborn")
  PROVE  \E state \in Finished \cup {"suspended"} : Moves(p, s, state) /\ Sanctioned(p, state)
  <1>1. ASSUME NEW state \in Finished \cup {"suspended"}, Reach(p, s, state),
               state = "unborn" => <<p, s>> \in cancelling /\ task[p][s] = "ready"
        PROVE  Moves(p, s, state) /\ Sanctioned(p, state)
    BY <1>1 DEF Reach, Moves, Sanctioned, PublishInv, Cancellations
  <1>2. ASSUME Exit(p, s)
        PROVE  Moves(p, s, "exited") /\ Sanctioned(p, "exited")
    <2>1. Moves(p, s, "exited")
      BY <1>2 DEF Exit, Moves, Finished
    <2>2. ASSUME NEW u \in Undone PROVE u[1] \in {q \in Publications : phase[q] = "gathering"} /\ u[2] \in Subscribers
                                        /\ u = <<u[1], u[2]>>
      BY <2>2 DEF Undone, PublishInv, Addressed
    <2>3. CASE loop = "running"
      <3>1. cancelled' = cancelled \cup {q \in Publications : phase[q] = "gathering"} /\ cancelling' \subseteq Undone
        BY <1>2, <2>3 DEF Exit
      <3> QED BY <2>1, <2>2, <3>1 DEF Sanctioned
    <2>4. CASE loop # "running"
      BY <1>2, <2>1, <2>4 DEF Exit, Sanctioned, PublishInv, Cancellations
    <2> QED BY <2>3, <2>4
  <1>3. {"suspended", "returned", "raised", "cancelled", "unborn", "exited"} \subseteq Finished \cup {"suspended"}
    BY DEF Finished
  <1> QED BY <1>1, <1>2, <1>3 DEF Run

(* Without subscribers of the other form, a publication is one of these.   *)
LEMMA CallCases ==
  ASSUME SyncForm = {}, NEW p \in Publications, PublishCall(p)
  PROVE  phase[p] = "idle" /\ (PublishUnresolved(p) \/ PublishToNobody(p) \/ PublishToAll(p))
  BY DEF PublishCall, PublishToMixed

LEMMA StaysOrdered ==
  ASSUME Ordered, UNCHANGED <<handlers, task, ready>>
  PROVE  Ordered'
  <1> SUFFICES ASSUME NEW q \in Publications, NEW i \in 1 .. Len(handlers[q]), NEW j \in 1 .. Len(handlers[q]),
                      i < j
               PROVE  /\ task[q][handlers[q][j]] \notin {"ready", "unborn"} => task[q][handlers[q][i]] # "ready"
                      /\ \A a, b \in 1 .. Len(ready) :
                           ready[a] = <<q, handlers[q][i]>> /\ ready[b] = <<q, handlers[q][j]>> => a < b
    BY DEF Ordered
  <1> QED BY DEF Ordered

LEMMA EndsUnstarted ==
  ASSUME PublishInv, NEW p \in Publications, phase[p] = "idle",
         PublishUnresolved(p) \/ PublishToNobody(p)
  PROVE  PublishInv'
  <1>1. PICK outcome \in {"missing", "returned"} :
          /\ phase' = [phase EXCEPT ![p] = outcome]
          /\ UNCHANGED <<registered, wired, handlers, task, ready, cancelled, cancelling>>
    BY DEF PublishUnresolved, PublishToNobody, EndPublish
  <1>2. Types'
    BY <1>1 DEF PublishInv, Types, Phases
  <1>3. \A s \in Subscribers : task[p][s] \notin Unfinished
    BY DEF PublishInv, Addressed
  <1>4. Addressed'
    BY <1>1, <1>3 DEF PublishInv, Addressed, Types
  <1>5. Queue' /\ Cancellations'
    BY <1>1 DEF PublishInv, Queue, Queued, Cancellations
  <1>6. Ordered'
    BY <1>1, StaysOrdered DEF PublishInv
  <1> QED BY <1>2, <1>4, <1>5, <1>6 DEF PublishInv

(* gather's tasks, behind those of the other publications.                 *)
Joins(p, hs) == ready' = ready \o [i \in DOMAIN hs |-> <<p, hs[i]>>]

LEMMA QueueGrows ==
  ASSUME Types, NEW p \in Publications, NEW hs \in Seq(Subscribers), Joins(p, hs)
  PROVE  /\ ready' \in Seq(Publications \X Subscribers)
         /\ Len(ready) \in Nat /\ Len(hs) \in Nat
         /\ Len(ready') = Len(ready) + Len(hs)
         /\ \A i \in 1 .. Len(ready) : ready'[i] = ready[i]
         /\ \A k \in 1 .. Len(hs) : ready'[Len(ready) + k] = <<p, hs[k]>>
  <1> DEFINE added == [i \in DOMAIN hs |-> <<p, hs[i]>>]
  <1>1. DOMAIN hs = 1 .. Len(hs) /\ \A i \in 1 .. Len(hs) : hs[i] \in Subscribers
    BY DEF Types
  <1>2. added \in Seq(Publications \X Subscribers) /\ Len(added) = Len(hs)
        /\ \A k \in 1 .. Len(hs) : added[k] = <<p, hs[k]>>
    <2>1. \A i \in DOMAIN hs : <<p, hs[i]>> \in Publications \X Subscribers
      BY <1>1
    <2>2. Len(hs) \in Nat
      BY DEF Types
    <2>3. added \in [1 .. Len(hs) -> Publications \X Subscribers]
      BY <1>1, <2>1
    <2> QED BY <1>1, <2>2, <2>3
  <1>3. ready' = ready \o added /\ ready \in Seq(Publications \X Subscribers)
    BY DEF Types, Joins
  <1>4. Len(ready) \in Nat /\ Len(hs) \in Nat
    BY DEF Types
  <1> HIDE DEF added
  <1>5. Len(ready') = Len(ready) + Len(hs) /\ ready' \in Seq(Publications \X Subscribers)
    <2>1. Len(ready \o added) = Len(ready) + Len(added) /\ ready \o added \in Seq(Publications \X Subscribers)
      BY <1>2, <1>3, ConcatProperties
    <2> QED BY <1>2, <1>3, <2>1
  <1>6. \A i \in 1 .. Len(ready) : ready'[i] = ready[i]
    BY <1>2, <1>3, <1>4
  <1>7. \A k \in 1 .. Len(hs) : ready'[Len(ready) + k] = added[k]
    BY <1>2, <1>3, <1>4
  <1> QED BY <1>2, <1>4, <1>5, <1>6, <1>7

(* The queue stays one of distinct, unstarted tasks.                       *)
LEMMA QueueOpens ==
  ASSUME Types, Queued, NEW p \in Publications, NEW hs \in Seq(Subscribers), IsInjective(hs),
         Joins(p, hs),
         \A s \in Subscribers : task[p][s] = "none",
         \A q \in Publications, s \in Subscribers : q # p => task'[q][s] = task[q][s],
         \A s \in Range(hs) : task'[p][s] = "ready"
  PROVE  /\ Queued'
         /\ \A i \in 1 .. Len(ready') :
              \/ i \in 1 .. Len(ready) /\ ready'[i] = ready[i] /\ ready[i][1] # p
              \/ /\ ready'[i][1] = p
                 /\ \E k \in 1 .. Len(hs) : i = Len(ready) + k /\ ready'[i] = <<p, hs[k]>>
  <1>0. DOMAIN hs = 1 .. Len(hs)
    OBVIOUS
  <1>10. /\ Len(ready) \in Nat /\ Len(hs) \in Nat /\ ready' \in Seq(Publications \X Subscribers)
         /\ Len(ready') = Len(ready) + Len(hs)
         /\ \A i \in 1 .. Len(ready) : ready'[i] = ready[i]
         /\ \A k \in 1 .. Len(hs) : ready'[Len(ready) + k] = <<p, hs[k]>>
    BY QueueGrows
  <1>5. \A i \in 1 .. Len(ready) : /\ ready[i] \in Publications \X Subscribers /\ ready[i][1] # p
                                   /\ task'[ready[i][1]][ready[i][2]] = "ready"
    <2> SUFFICES ASSUME NEW i \in 1 .. Len(ready)
                 PROVE  /\ ready[i] \in Publications \X Subscribers /\ ready[i][1] # p
                        /\ task'[ready[i][1]][ready[i][2]] = "ready"
      OBVIOUS
    <2>1. ready[i] \in Publications \X Subscribers
      BY DEF Types
    <2>2. task[ready[i][1]][ready[i][2]] = "ready"
      BY DEF Queued
    <2>3. ready[i][1] \in Publications /\ ready[i][2] \in Subscribers
      BY <2>1
    <2>4. ready[i][1] # p
      BY <2>2, <2>3
    <2> QED BY <2>1, <2>2, <2>3, <2>4
  <1>6. \A i \in 1 .. Len(ready') :
          \/ i \in 1 .. Len(ready) /\ ready'[i] = ready[i] /\ ready[i][1] # p
          \/ /\ ready'[i][1] = p
             /\ \E k \in 1 .. Len(hs) : i = Len(ready) + k /\ ready'[i] = <<p, hs[k]>>
    <2> SUFFICES ASSUME NEW i \in 1 .. Len(ready'), i \notin 1 .. Len(ready)
                 PROVE  /\ ready'[i][1] = p
                        /\ \E k \in 1 .. Len(hs) : i = Len(ready) + k /\ ready'[i] = <<p, hs[k]>>
      BY <1>5, <1>10
    <2>1. i - Len(ready) \in 1 .. Len(hs) /\ i = Len(ready) + (i - Len(ready))
      BY <1>10
    <2>2. PICK k \in 1 .. Len(hs) : i = Len(ready) + k /\ ready'[i] = <<p, hs[k]>>
      BY <2>1, <1>10
    <2> QED BY <2>2
  <1>7. Queued'
    <2>1. IsInjective(ready')
      <3> SUFFICES ASSUME NEW i \in 1 .. Len(ready'), NEW j \in 1 .. Len(ready'), ready'[i] = ready'[j] PROVE i = j
        BY <1>10 DEF IsInjective
      <3>1. CASE i \in 1 .. Len(ready) /\ ready'[i] = ready[i] /\ ready[i][1] # p
        <4>0. ready'[j][1] # p
          BY <3>1
        <4>1. j \in 1 .. Len(ready) /\ ready'[j] = ready[j]
          BY <1>6, <4>0
        <4>2. DOMAIN ready = 1 .. Len(ready)
          BY DEF Types
        <4>3. ready[i] = ready[j]
          BY <3>1, <4>1
        <4> QED BY <3>1, <4>1, <4>2, <4>3 DEF Queued, IsInjective
      <3>2. ASSUME NEW k \in 1 .. Len(hs), i = Len(ready) + k, ready'[i] = <<p, hs[k]>> PROVE i = j
        <4>0. ready'[j][1] = p
          BY <3>2
        <4>1. PICK n \in 1 .. Len(hs) : j = Len(ready) + n /\ ready'[j] = <<p, hs[n]>>
          BY <1>6, <4>0
        <4>2. k = n
          BY <1>0, <3>2, <4>1 DEF IsInjective
        <4> QED BY <3>2, <4>1, <4>2
      <3> QED BY <1>6, <3>1, <3>2
    <2>2. ASSUME NEW i \in 1 .. Len(ready') PROVE task'[ready'[i][1]][ready'[i][2]] = "ready"
      <3>1. ASSUME NEW k \in 1 .. Len(hs) PROVE task'[p][hs[k]] = "ready"
        BY <1>0 DEF Range
      <3>2. CASE i \in 1 .. Len(ready) /\ ready'[i] = ready[i]
        BY <1>5, <3>2
      <3>3. ASSUME NEW k \in 1 .. Len(hs), ready'[i] = <<p, hs[k]>>
            PROVE  task'[ready'[i][1]][ready'[i][2]] = "ready"
        BY <3>1, <3>3
      <3> QED BY <1>6, <3>2, <3>3
    <2> QED BY <2>1, <2>2 DEF Queued
  <1> QED BY <1>6, <1>7

LEMMA OpenStep ==
  ASSUME PublishInv, NEW p \in Publications, phase[p] = "idle", PublishToAll(p)
  PROVE  PublishInv'
  <1>0. /\ registered \in Seq(Subscribers) /\ DOMAIN registered = 1 .. Len(registered)
        /\ handlers' = [handlers EXCEPT ![p] = registered]
        /\ phase' = [phase EXCEPT ![p] = "gathering"]
        /\ UNCHANGED <<registered, wired, cancelled, cancelling>>
    BY DEF PublishToAll, EndPublish, PublishInv, Types
  <1>1. \A q \in Publications, s \in Subscribers :
          task'[q][s] = IF q = p /\ s \in Range(registered) THEN "ready" ELSE task[q][s]
    BY DEF PublishToAll, CreateTasks, CreationOrder, PublishInv, Types
  <1>2. \A s \in Subscribers : task[p][s] = "none"
    BY DEF PublishInv, Addressed, Range
  <1>3. Types'
    <2>1. task' \in [Publications -> [Subscribers -> TaskStates]]
      BY DEF PublishToAll, CreateTasks, CreationOrder, PublishInv, Types, TaskStates, Unfinished
    <2>2. ready' \in Seq(Publications \X Subscribers)
      BY <1>0, QueueGrows DEF Joins, PublishToAll, CreateTasks, CreationOrder, PublishInv
    <2> QED BY <1>0, <2>1, <2>2 DEF PublishInv, Types, Phases
  <1>4. Addressed'
    <2>1. Range(registered) \subseteq wired
      BY DEF PublishToAll, Missing
    <2>2. ASSUME NEW q \in Publications, q # p
          PROVE  handlers'[q] = handlers[q] /\ phase'[q] = phase[q] /\ \A s \in Subscribers : task'[q][s] = task[q][s]
      BY <1>0, <1>1, <2>2 DEF PublishInv, Types
    <2>3. handlers'[p] = registered /\ phase'[p] = "gathering"
          /\ \A s \in Subscribers : task'[p][s] = IF s \in Range(registered) THEN "ready" ELSE "none"
      BY <1>0, <1>1, <1>2 DEF PublishInv, Types
    <2> QED BY <1>0, <2>1, <2>2, <2>3 DEF PublishInv, Addressed
  <1>5. Types /\ Queued /\ Joins(p, registered)
    BY DEF Joins, PublishInv, Queue, PublishToAll, CreateTasks, CreationOrder
  <1>10. /\ Len(ready) \in Nat /\ Len(registered) \in Nat /\ ready' \in Seq(Publications \X Subscribers)
         /\ Len(ready') = Len(ready) + Len(registered)
         /\ \A i \in 1 .. Len(ready) : ready'[i] = ready[i]
         /\ \A k \in 1 .. Len(registered) : ready'[Len(ready) + k] = <<p, registered[k]>>
    BY <1>0, <1>5, QueueGrows
  <1>6. /\ Queued'
        /\ \A i \in 1 .. Len(ready') :
             \/ i \in 1 .. Len(ready) /\ ready'[i] = ready[i] /\ ready[i][1] # p
             \/ /\ ready'[i][1] = p
                /\ \E k \in 1 .. Len(registered) : i = Len(ready) + k /\ ready'[i] = <<p, registered[k]>>
    <2>1. IsInjective(registered) /\ Range(registered) \subseteq Subscribers
      BY <1>0 DEF PublishInv, Addressed, Range
    <2>2. /\ \A q \in Publications, s \in Subscribers : q # p => task'[q][s] = task[q][s]
          /\ \A s \in Range(registered) : task'[p][s] = "ready"
      BY <1>1, <2>1
    <2> QED BY <1>0, <1>2, <1>5, <2>1, <2>2, QueueOpens
  <1>7. Queue'
    <2>3. ASSUME NEW q \in Publications, NEW s \in Subscribers, task'[q][s] = "ready"
          PROVE  \E i \in 1 .. Len(ready') : ready'[i] = <<q, s>>
      <3>1. CASE q = p
        <4>1. PICK k \in 1 .. Len(registered) : registered[k] = s
          BY <1>0, <1>1, <1>2, <2>3, <3>1 DEF Range
        <4>2. Len(ready) + k \in 1 .. Len(ready') /\ ready'[Len(ready) + k] = <<p, s>>
          BY <4>1, <1>10
        <4> QED BY <3>1, <4>2
      <3>2. CASE q # p
        <4>1. PICK i \in 1 .. Len(ready) : ready[i] = <<q, s>>
          BY <1>1, <2>3, <3>2 DEF PublishInv, Queue, Queued
        <4>2. i \in 1 .. Len(ready') /\ ready'[i] = <<q, s>>
          BY <4>1, <1>10
        <4> QED BY <4>2
      <3> QED BY <3>1, <3>2
    <2> QED BY <1>6, <2>3 DEF Queue
  <1>8. Ordered'
    <2> SUFFICES ASSUME NEW q \in Publications,
                        NEW i \in 1 .. Len(handlers'[q]), NEW j \in 1 .. Len(handlers'[q]), i < j
                 PROVE  /\ task'[q][handlers'[q][j]] \notin {"ready", "unborn"} => task'[q][handlers'[q][i]] # "ready"
                        /\ \A a, b \in 1 .. Len(ready') :
                             ready'[a] = <<q, handlers'[q][i]>> /\ ready'[b] = <<q, handlers'[q][j]>> => a < b
      BY DEF Ordered
    <2>1. CASE q = p
      <3>1. handlers'[q] = registered /\ i \in 1 .. Len(registered) /\ j \in 1 .. Len(registered)
        BY <1>0, <2>1 DEF PublishInv, Types
      <3>2. task'[q][registered[j]] = "ready"
        BY <1>0, <1>1, <2>1, <3>1 DEF Range
      <3>3. ASSUME NEW a \in 1 .. Len(ready'), NEW b \in 1 .. Len(ready'),
                   ready'[a] = <<q, registered[i]>>, ready'[b] = <<q, registered[j]>>
            PROVE  a < b
        <4>0. ready'[a][1] = p /\ ready'[b][1] = p
          BY <2>1, <3>3
        <4>1. PICK k \in 1 .. Len(registered) : a = Len(ready) + k /\ ready'[a] = <<p, registered[k]>>
          BY <1>6, <4>0
        <4>2. PICK n \in 1 .. Len(registered) : b = Len(ready) + n /\ ready'[b] = <<p, registered[n]>>
          BY <1>6, <4>0
        <4>3. registered[k] = registered[i] /\ registered[n] = registered[j]
          BY <3>3, <4>1, <4>2
        <4>4. \A x, y \in 1 .. Len(registered) : registered[x] = registered[y] => x = y
          BY <1>0 DEF PublishInv, Addressed, IsInjective
        <4>5. k = i /\ n = j
          BY <3>1, <4>3, <4>4
        <4> QED BY <4>1, <4>2, <4>5, <1>10
      <3> QED BY <3>1, <3>2, <3>3
    <2>2. CASE q # p
      <3>1. handlers'[q] = handlers[q] /\ handlers[q][i] \in Subscribers /\ handlers[q][j] \in Subscribers
        BY <1>0, <2>2 DEF PublishInv, Types
      <3>2. task'[q][handlers[q][i]] = task[q][handlers[q][i]] /\ task'[q][handlers[q][j]] = task[q][handlers[q][j]]
        BY <1>1, <2>2, <3>1
      <3>3. ASSUME NEW a \in 1 .. Len(ready'), NEW b \in 1 .. Len(ready'),
                   ready'[a] = <<q, handlers[q][i]>>, ready'[b] = <<q, handlers[q][j]>>
            PROVE  a < b
        <4>0. ready'[a][1] # p /\ ready'[b][1] # p
          BY <2>2, <3>3
        <4>1. a \in 1 .. Len(ready) /\ ready'[a] = ready[a] /\ b \in 1 .. Len(ready) /\ ready'[b] = ready[b]
          BY <1>6, <4>0
        <4> QED BY <3>1, <3>3, <4>1 DEF PublishInv, Ordered
      <3> QED BY <3>1, <3>2, <3>3 DEF PublishInv, Ordered
    <2> QED BY <2>1, <2>2
  <1>9. Cancellations'
    BY <1>0, <1>1 DEF PublishInv, Cancellations
  <1> QED BY <1>3, <1>4, <1>7, <1>8, <1>9 DEF PublishInv

(* The end of a publication that had to wait: its tasks are all done.      *)
LEMMA ResumeStep ==
  ASSUME PublishInv, NEW p \in Publications, Resume(p)
  PROVE  PublishInv'
  <1>1. /\ phase' = [phase EXCEPT ![p] = Outcome(p)]
        /\ UNCHANGED <<registered, wired, handlers, task, ready, cancelled, cancelling>>
    BY DEF Resume, EndPublish
  <1>2. Outcome(p) \in {"cancelled", "returned", "group", "basegroup"}
    BY DEF Outcome
  <1>3. Types'
    BY <1>1, <1>2 DEF PublishInv, Types, Phases
  <1>4. \A s \in Subscribers : task[p][s] \notin Unfinished
    BY DEF Resume, PublishInv, Addressed, Finished, Unfinished
  <1>5. Addressed'
    <2>1. \A q \in Publications : /\ q # p => phase'[q] = phase[q]
                                  /\ q = p => phase'[q] # "idle"
      BY <1>1, <1>2 DEF PublishInv, Types
    <2> QED BY <1>1, <1>4, <2>1 DEF PublishInv, Addressed
  <1>6. Queue' /\ Cancellations'
    BY <1>1 DEF PublishInv, Queue, Queued, Cancellations
  <1> QED BY <1>1, <1>3, <1>5, <1>6, StaysOrdered DEF PublishInv

(* A subscriber is registered once.                                        *)
LEMMA SubscribeKeeps ==
  ASSUME Types, IsInjective(registered), NEW s \in Subscribers, Subscribe(s)
  PROVE  registered' \in Seq(Subscribers) /\ IsInjective(registered')
  <1>1. /\ DOMAIN registered = 1 .. Len(registered) /\ registered' = Append(registered, s)
        /\ Len(registered) \in Nat /\ \A i \in 1 .. Len(registered) : registered[i] # s
    BY DEF Subscribe, Range, Types
  <1>2. /\ registered' \in Seq(Subscribers) /\ DOMAIN registered' = 1 .. Len(registered) + 1
        /\ registered'[Len(registered) + 1] = s
        /\ \A i \in 1 .. Len(registered) : registered'[i] = registered[i]
    BY <1>1 DEF Types
  <1> QED BY <1>1, <1>2 DEF IsInjective

LEMMA NextInv == SyncForm = {} /\ PublishInv /\ [Next]_vars => PublishInv'
  <1> SUFFICES ASSUME SyncForm = {}, PublishInv, [Next]_vars PROVE PublishInv'
    OBVIOUS
  <1>1. ASSUME NEW s \in Subscribers, Subscribe(s) PROVE PublishInv'
    <2>1. registered' \in Seq(Subscribers) /\ IsInjective(registered')
      BY <1>1, SubscribeKeeps DEF PublishInv, Addressed
    <2>2. UNCHANGED <<wired, handlers, phase, task, ready, cancelled, cancelling>>
      BY <1>1 DEF Subscribe
    <2>3. Types' /\ Addressed'
      BY <2>1, <2>2 DEF PublishInv, Types, Addressed
    <2>4. Queue' /\ Cancellations'
      BY <2>2 DEF PublishInv, Queue, Queued, Cancellations
    <2> QED BY <2>2, <2>3, <2>4, StaysOrdered DEF PublishInv
  <1>2. ASSUME NEW p \in Publications, PublishCall(p) PROVE PublishInv'
    BY <1>2, CallCases, EndsUnstarted, OpenStep
  <1>3. ASSUME NEW p \in Publications, Cancel(p) PROVE PublishInv'
    <2>1. Types' /\ Addressed'
      BY <1>3 DEF Cancel, PublishInv, Types, Addressed
    <2>2. Queue'
      BY <1>3 DEF Cancel, PublishInv, Queue, Queued
    <2>3. \A u \in Undone : u = <<u[1], u[2]>> /\ u[2] \in Subscribers
      BY DEF Undone
    <2>4. Cancellations'
      BY <1>3, <2>3 DEF Cancel, PublishInv, Cancellations
    <2> QED BY <1>3, <2>1, <2>2, <2>4, StaysOrdered DEF Cancel, PublishInv
  <1>4. ASSUME NEW p \in Publications, Resume(p) PROVE PublishInv'
    BY <1>4, ResumeStep
  <1>5. CASE Start
    <2>1. ready # <<>> /\ ready' = Tail(ready)
      BY <1>5 DEF Start
    <2>2. PICK p \in Publications, s \in Subscribers : Head(ready) = <<p, s>> /\ task[p][s] = "ready"
      BY <2>1, QueueHead DEF PublishInv, Queue
    <2>3. Run(p, s) \/ (<<p, s>> \in cancelling /\ Reach(p, s, "unborn"))
      BY <1>5, <2>2 DEF Start
    <2> QED BY <2>1, <2>2, <2>3, RunMoves, MoveStep DEF Unfinished
  <1>6. ASSUME NEW p \in Publications, NEW s \in Subscribers, Wake(p, s) PROVE PublishInv'
    BY <1>6, RunMoves, MoveStep DEF Wake, Unfinished
  <1>7. CASE UNCHANGED vars
    <2>1. Types' /\ Addressed'
      BY <1>7 DEF vars, PublishInv, Types, Addressed
    <2>2. Queue' /\ Cancellations'
      BY <1>7 DEF vars, PublishInv, Queue, Queued, Cancellations
    <2> QED BY <1>7, <2>1, <2>2, StaysOrdered DEF vars, PublishInv
  <1> QED BY <1>1, <1>2, <1>3, <1>4, <1>5, <1>6, <1>7 DEF Next

(* Nobody runs unless every subscriber of the publication was resolved,    *)
(* and they start as they were registered, whatever else the loop does and *)
(* whoever is cancelled.                                                   *)
THEOREM Whole ==
  ASSUME SyncForm = {}
  PROVE  Spec => []DeliveryIsWhole
  <1>1. PublishInv => DeliveryIsWhole
    <2> SUFFICES ASSUME PublishInv, NEW p \in Publications
                 PROVE  /\ (\E s \in Subscribers : task[p][s] \notin {"none", "ready"}) => Range(handlers[p]) \subseteq wired
                        /\ \A i, j \in DOMAIN handlers[p] :
                             i < j /\ task[p][handlers[p][j]] \notin {"ready", "unborn"} =>
                               task[p][handlers[p][i]] # "ready"
      BY DEF DeliveryIsWhole
    <2>1. DOMAIN handlers[p] = 1 .. Len(handlers[p])
      BY DEF PublishInv, Types
    <2> QED BY <2>1 DEF PublishInv, Addressed, Ordered
  <1> QED BY <1>1, InitInv, NextInv, PTL DEF Spec

-----------------------------------------------------------------------------
(* The state of Delivery that a state of Publish stands for.               *)
Statuses == [p \in Publications |-> PromiseStatus(p)]
Progresses == [p \in Publications |-> [s \in Subscribers |-> PromiseProgress(p, s)]]
Stands(state) ==
  IF state \in {"ready", "unborn"} THEN "due"
  ELSE IF state = "suspended" THEN "running"
  ELSE IF state = "returned" THEN "returned" ELSE "raised"

LEMMA MovePromised ==
  ASSUME PublishInv, NEW p \in Publications, NEW s \in Subscribers, NEW state \in Finished \cup {"suspended"},
         Moves(p, s, state)
  PROVE  [Promise!Next]_(Promise!vars)
  <1>1. \A q \in Publications, r \in Subscribers :
          task'[q][r] = IF q = p /\ r = s THEN state ELSE task[q][r]
    BY DEF Moves, PublishInv, Types
  <1>2. s \in Range(handlers[p]) /\ phase[p] = "gathering"
    BY DEF Moves, PublishInv, Addressed, Unfinished
  <1>3. Statuses' = Statuses /\ Statuses[p] = "open"
    BY <1>2 DEF Statuses, PromiseStatus, Moves
  <1>4. /\ \A q \in Publications, r \in Subscribers :
             PromiseProgress(q, r)' = IF q = p /\ r = s THEN Stands(state) ELSE PromiseProgress(q, r)
        /\ PromiseProgress(p, s) = Stands(task[p][s])
    BY <1>1, <1>2 DEF PromiseProgress, Stands, Moves
  <1>5. /\ Progresses' = [Progresses EXCEPT ![p][s] = Stands(state)]
        /\ Progresses[p][s] = Stands(task[p][s])
    <2>1. Progresses' = [q \in Publications |-> [r \in Subscribers |->
                           IF q = p /\ r = s THEN Stands(state) ELSE PromiseProgress(q, r)]]
      BY <1>4 DEF Progresses
    <2>2. Progresses = [q \in Publications |-> [r \in Subscribers |-> PromiseProgress(q, r)]]
      BY DEF Progresses
    <2> QED BY <1>4, <2>1, <2>2
  <1>6. Range(registered)' = Range(registered)
    BY DEF Moves
  <1>7. CASE state = "suspended" /\ task[p][s] = "ready"
    <2>1. Promise!Start(p, s)
      BY <1>3, <1>5, <1>6, <1>7 DEF Promise!Start, Promise!Advance, Stands, Statuses, Progresses
    <2> QED BY <2>1 DEF Promise!Next
  <1>8. CASE state \in {"returned", "raised", "cancelled", "exited"}
    <2>1. Promise!End(p, s)
      BY <1>3, <1>5, <1>6, <1>8 DEF Promise!End, Promise!Advance, Stands, Statuses, Progresses, Moves, Unfinished
    <2> QED BY <2>1 DEF Promise!Next
  <1>9. CASE Stands(state) = Stands(task[p][s])
    <2>1. Progresses' = Progresses
      BY <1>4, <1>9 DEF Progresses
    <2> QED BY <1>3, <1>6, <2>1 DEF Promise!vars, Statuses, Progresses
  <1> QED BY <1>7, <1>8, <1>9 DEF Moves, Unfinished, Finished, Stands

(* A publication that begins, or is over with its first step.              *)
LEMMA BeginPromised ==
  ASSUME PublishInv, NEW p \in Publications, phase[p] = "idle",
         PublishUnresolved(p) \/ PublishToNobody(p) \/ PublishToAll(p)
  PROVE  Promise!Next
  <1>1. /\ registered' = registered /\ Statuses[p] = "unpublished"
        /\ \A s \in Subscribers : s \notin Range(handlers[p])
    BY DEF PublishUnresolved, PublishToNobody, PublishToAll, EndPublish, Statuses, PromiseStatus, PublishInv,
           Addressed, Range
  <1>2. ASSUME NEW outcome, phase' = [phase EXCEPT ![p] = outcome]
        PROVE  Statuses' = [Statuses EXCEPT ![p] =
                 IF outcome = "missing" THEN "refused"
                 ELSE IF outcome = "gathering" THEN "open"
                 ELSE IF outcome = "returned" THEN "delivered" ELSE Statuses'[p]]
    BY <1>2 DEF Statuses, PromiseStatus, PublishInv, Types
  <1>3. CASE PublishUnresolved(p)
    <2>1. Statuses' = [Statuses EXCEPT ![p] = "refused"] /\ Progresses' = Progresses
      BY <1>2, <1>3 DEF PublishUnresolved, EndPublish, Progresses, PromiseProgress
    <2>2. Promise!Refuse(p)
      BY <1>1, <2>1 DEF Promise!Refuse, Statuses, Progresses
    <2> QED BY <2>2 DEF Promise!Next
  <1>4. CASE PublishToNobody(p)
    <2>1. Statuses' = [Statuses EXCEPT ![p] = "delivered"] /\ Progresses' = Progresses
      BY <1>2, <1>4 DEF PublishToNobody, EndPublish, Progresses, PromiseProgress
    <2>2. Range(registered) = {}
      BY <1>4 DEF PublishToNobody, Range
    <2>3. Promise!Skip(p)
      BY <1>1, <2>1, <2>2 DEF Promise!Skip, Statuses, Progresses
    <2> QED BY <2>3 DEF Promise!Next
  <1>5. CASE PublishToAll(p)
    <2>1. Statuses' = [Statuses EXCEPT ![p] = "open"]
      BY <1>2, <1>5 DEF PublishToAll, EndPublish
    <2>2. \A q \in Publications, s \in Subscribers :
            PromiseProgress(q, s)' = IF q # p THEN PromiseProgress(q, s)
                                     ELSE IF s \in Range(registered) THEN "due" ELSE "unaddressed"
      <3>1. \A q \in Publications : handlers'[q] = IF q = p THEN registered ELSE handlers[q]
        BY <1>5 DEF PublishToAll, PublishInv, Types
      <3>2. \A q \in Publications, s \in Subscribers :
              task'[q][s] = IF q = p /\ s \in Range(registered) THEN "ready" ELSE task[q][s]
        BY <1>5 DEF PublishToAll, CreateTasks, CreationOrder, PublishInv, Types
      <3> QED BY <3>1, <3>2 DEF PromiseProgress
    <2>3. Progresses' = [Progresses EXCEPT ![p] =
                          [s \in Subscribers |-> IF s \in Range(registered) THEN "due" ELSE "unaddressed"]]
      BY <2>2 DEF Progresses
    <2>4. Promise!Open(p)
      BY <1>1, <2>1, <2>3 DEF Promise!Open, Statuses, Progresses
    <2> QED BY <2>4 DEF Promise!Next
  <1> QED BY <1>3, <1>4, <1>5

(* The verdict is the one Delivery prescribes for what the tasks did.      *)
LEMMA ResumePromised ==
  ASSUME PublishInv, NEW p \in Publications, Resume(p)
  PROVE  Promise!Next
  <1>1. /\ registered' = registered /\ Statuses[p] = "open"
        /\ Progresses' = Progresses /\ phase' = [phase EXCEPT ![p] = Outcome(p)]
    BY DEF Resume, EndPublish, Statuses, PromiseStatus, Progresses, PromiseProgress
  <1>2. \A s \in Subscribers : Progresses[p][s] =
          IF s \in Range(handlers[p]) THEN Stands(task[p][s]) ELSE "unaddressed"
    BY DEF Progresses, PromiseProgress, Stands
  <1>3. \A s \in Subscribers : /\ Progresses[p][s] # "running"
                               /\ Progresses[p][s] = "due" => p \in cancelled
    BY <1>2 DEF Resume, Finished, Stands, PublishInv, Cancellations
  <1>4. /\ Outcome(p) = "returned" => \A s \in Subscribers : Progresses[p][s] # "raised"
        /\ Outcome(p) \in {"group", "basegroup"} => \E s \in Subscribers : Progresses[p][s] = "raised"
    <2>1. Range(handlers[p]) \subseteq Subscribers
      BY DEF PublishInv, Types, Range
    <2>2. ASSUME Outcome(p) = "returned", NEW s \in Subscribers PROVE Progresses[p][s] # "raised"
      BY <1>2, <2>2 DEF Outcome, Failures, Stands
    <2>3. ASSUME Outcome(p) \in {"group", "basegroup"} PROVE \E s \in Subscribers : Progresses[p][s] = "raised"
      <3>1. p \notin cancelled /\ Failures(p) # {}
        BY <2>3 DEF Outcome
      <3>2. PICK s \in Range(handlers[p]) : task[p][s] # "returned"
        BY <3>1 DEF Failures
      <3>3. s \in Subscribers /\ task[p][s] \in Finished /\ task[p][s] # "unborn"
        BY <2>1, <3>1, <3>2 DEF Resume, PublishInv, Cancellations
      <3>4. Progresses[p][s] = "raised"
        BY <1>2, <3>2, <3>3 DEF Stands, Finished
      <3> QED BY <3>3, <3>4
    <2> QED BY <2>2, <2>3
  <1>5. PICK verdict \in {"delivered", "failed", "stopped"} :
          /\ Statuses' = [Statuses EXCEPT ![p] = verdict]
          /\ verdict = "delivered" => Outcome(p) = "returned"
          /\ verdict = "failed" => Outcome(p) \in {"group", "basegroup"}
    <2>1. Outcome(p) \in {"cancelled", "returned", "group", "basegroup"}
      BY DEF Outcome
    <2>2. \A q \in Publications : PromiseStatus(q)' =
            IF q # p THEN PromiseStatus(q)
            ELSE IF Outcome(p) = "returned" THEN "delivered"
            ELSE IF Outcome(p) \in {"group", "basegroup"} THEN "failed" ELSE "stopped"
      BY <1>1, <2>1 DEF PromiseStatus, PublishInv, Types
    <2> QED BY <2>2 DEF Statuses
  <1>6. Outcome(p) \in {"returned", "group", "basegroup"} => p \notin cancelled
    BY DEF Outcome
  <1>7. Promise!CloseAs(p, verdict, Progresses[p])
    BY <1>1, <1>3, <1>4, <1>5, <1>6 DEF Promise!CloseAs, Statuses
  <1>8. Promise!Close(p)
    BY <1>1, <1>7 DEF Promise!Close, Progresses
  <1> QED BY <1>8 DEF Promise!Next

LEMMA StepPromised == SyncForm = {} /\ PublishInv /\ [Next]_vars => [Promise!Next]_(Promise!vars)
  <1> SUFFICES ASSUME SyncForm = {}, PublishInv, [Next]_vars PROVE [Promise!Next]_(Promise!vars)
    OBVIOUS
  <1>1. ASSUME NEW s \in Subscribers, Subscribe(s) PROVE Promise!Next
    <2>1. Statuses' = Statuses /\ Progresses' = Progresses
      BY <1>1 DEF Subscribe, Statuses, PromiseStatus, Progresses, PromiseProgress
    <2>2. Range(registered') = Range(registered) \cup {s}
      <3>1. /\ DOMAIN registered = 1 .. Len(registered) /\ Len(registered) \in Nat
            /\ registered' = Append(registered, s) /\ registered \in Seq(Subscribers)
        BY <1>1 DEF Subscribe, PublishInv, Types
      <3>2. /\ DOMAIN registered' = 1 .. Len(registered) + 1 /\ registered'[Len(registered) + 1] = s
            /\ \A i \in 1 .. Len(registered) : registered'[i] = registered[i]
        BY <3>1
      <3>3. 1 .. Len(registered) + 1 = 1 .. Len(registered) \cup {Len(registered) + 1}
        BY <3>1
      <3> QED BY <3>1, <3>2, <3>3 DEF Range
    <2>3. Promise!Register(s)
      BY <1>1, <2>1, <2>2 DEF Subscribe, Promise!Register, Statuses, Progresses
    <2> QED BY <2>3 DEF Promise!Next
  <1>2. ASSUME NEW p \in Publications, PublishCall(p) PROVE Promise!Next
    BY <1>2, CallCases, BeginPromised
  <1>3. ASSUME UNCHANGED <<registered, handlers, phase, task>> PROVE UNCHANGED Promise!vars
    BY <1>3 DEF Promise!vars, PromiseStatus, PromiseProgress
  <1>4. ASSUME NEW p \in Publications, Resume(p) PROVE Promise!Next
    BY <1>4, ResumePromised
  <1>5. CASE Start
    <2>1. ready # <<>> /\ ready' = Tail(ready)
      BY <1>5 DEF Start
    <2>2. PICK p \in Publications, s \in Subscribers : Head(ready) = <<p, s>> /\ task[p][s] = "ready"
      BY <2>1, QueueHead DEF PublishInv, Queue
    <2>3. Run(p, s) \/ (<<p, s>> \in cancelling /\ task[p][s] = "ready" /\ Reach(p, s, "unborn"))
      BY <1>5, <2>2 DEF Start
    <2> QED BY <2>1, <2>2, <2>3, RunMoves, MovePromised DEF Unfinished
  <1>6. ASSUME NEW p \in Publications, NEW s \in Subscribers, Wake(p, s) PROVE [Promise!Next]_(Promise!vars)
    BY <1>6, RunMoves, MovePromised DEF Wake, Unfinished
  <1> QED BY <1>1, <1>2, <1>3, <1>4, <1>5, <1>6 DEF Next, Cancel, vars

(* The asynchronous publish delivers as the documentation's "Delivery and  *)
(* failures" says, for any number of publications and subscribers.         *)
THEOREM Implements ==
  ASSUME SyncForm = {}
  PROVE  Spec => ImplementsDelivery
  <1>1. Init => Promise!Init
    BY DEF Init, Promise!Init, PromiseStatus, PromiseProgress, Range
  <1> QED BY <1>1, StepPromised, InitInv, NextInv, PTL DEF Spec, ImplementsDelivery, Promise!Spec

-----------------------------------------------------------------------------
(* With subscribers of both forms publish may end while its tasks run on,  *)
(* so PublishInv no longer holds.  What is left of it: the queue is one of *)
(* unstarted tasks, and a call that has not been made has none.            *)
Fresh ==
  \A p \in Publications : phase[p] = "idle" =>
    handlers[p] = <<>> /\ \A s \in Subscribers : task[p][s] = "none"

MixedInv == Types /\ IsInjective(registered) /\ Queued /\ Fresh /\ ReturnMeansDelivered

LEMMA InitMixed == Init => MixedInv
  <1> SUFFICES ASSUME Init PROVE MixedInv
    OBVIOUS
  <1>1. Types
    BY DEF Init, Types, Phases, TaskStates
  <1> QED BY <1>1 DEF Init, MixedInv, Queued, Fresh, ReturnMeansDelivered, IsInjective

LEMMA RunIsMove ==
  ASSUME NEW p \in Publications, NEW s \in Subscribers, task[p][s] \in Unfinished,
         \/ task[p][s] = "suspended" /\ UNCHANGED ready
         \/ ready # <<>> /\ Head(ready) = <<p, s>> /\ ready' = Tail(ready),
         \/ Run(p, s)
         \/ task[p][s] = "ready" /\ Reach(p, s, "unborn")
  PROVE  \E state \in Finished \cup {"suspended"} : Moves(p, s, state)
  <1>1. ASSUME NEW state \in Finished \cup {"suspended"}, Reach(p, s, state),
               state = "unborn" => task[p][s] = "ready"
        PROVE  Moves(p, s, state)
    BY <1>1 DEF Reach, Moves
  <1>2. ASSUME Exit(p, s) PROVE Moves(p, s, "exited")
    BY <1>2 DEF Exit, Moves, Finished
  <1>3. {"suspended", "returned", "raised", "cancelled", "unborn", "exited"} \subseteq Finished \cup {"suspended"}
    BY DEF Finished
  <1> QED BY <1>1, <1>2, <1>3 DEF Run

LEMMA MoveMixed ==
  ASSUME MixedInv, NEW p \in Publications, NEW s \in Subscribers, NEW state, Moves(p, s, state)
  PROVE  MixedInv'
  <1>1. \A q \in Publications, r \in Subscribers :
          task'[q][r] = IF q = p /\ r = s THEN state ELSE task[q][r]
    BY DEF Moves, MixedInv, Types
  <1>2. Queued'
    BY QueueMoves DEF MixedInv
  <1>3. Types'
    <2>1. task' \in [Publications -> [Subscribers -> TaskStates]]
      BY DEF Moves, MixedInv, Types, TaskStates, Finished, Unfinished
    <2> QED BY <2>1, QueueTail DEF Moves, MixedInv, Types
  <1>4. task[p][s] # "none" /\ task[p][s] # "returned"
    BY DEF Moves, Unfinished
  <1>5. Fresh'
    BY <1>1, <1>4 DEF Moves, MixedInv, Fresh
  <1>6. ReturnMeansDelivered'
    <2> SUFFICES ASSUME NEW q \in Publications, phase[q] = "returned", NEW r \in Range(handlers[q])
                 PROVE  task'[q][r] = "returned"
      BY DEF ReturnMeansDelivered, Moves
    <2>1. task[q][r] = "returned"
      BY DEF MixedInv, ReturnMeansDelivered
    <2>2. r \in Subscribers
      BY DEF MixedInv, Types, Range
    <2> QED BY <1>1, <1>4, <2>1, <2>2
  <1> QED BY <1>2, <1>3, <1>5, <1>6 DEF MixedInv, Moves

(* p comes to a verdict or opens, and nothing happens to the others.       *)
Concerns(p, outcome) ==
  /\ phase' = [phase EXCEPT ![p] = outcome] /\ outcome \in Phases \ {"idle"}
  /\ handlers' \in [Publications -> Seq(Subscribers)]
  /\ \A q \in Publications : q # p => handlers'[q] = handlers[q]
  /\ task' \in [Publications -> [Subscribers -> TaskStates]]
  /\ \A q \in Publications, s \in Subscribers : q # p => task'[q][s] = task[q][s]
  /\ ready' \in Seq(Publications \X Subscribers)
  /\ UNCHANGED registered

LEMMA ConcernMixed ==
  ASSUME MixedInv, NEW p \in Publications, NEW outcome, Concerns(p, outcome), Queued',
         outcome = "returned" => \A s \in Range(handlers'[p]) : task'[p][s] = "returned"
  PROVE  MixedInv'
  <1>1. /\ phase' \in [Publications -> Phases]
        /\ \A q \in Publications : phase'[q] = IF q = p THEN outcome ELSE phase[q]
    BY DEF Concerns, MixedInv, Types
  <1>2. Types'
    BY <1>1 DEF Concerns, MixedInv, Types
  <1>3. Fresh'
    <2> SUFFICES ASSUME NEW q \in Publications, phase'[q] = "idle"
                 PROVE  handlers'[q] = <<>> /\ \A s \in Subscribers : task'[q][s] = "none"
      BY DEF Fresh
    <2>1. q # p /\ phase[q] = "idle"
      BY <1>1 DEF Concerns
    <2>2. handlers[q] = <<>> /\ \A s \in Subscribers : task[q][s] = "none"
      BY <2>1 DEF MixedInv, Fresh
    <2>3. handlers'[q] = handlers[q] /\ \A s \in Subscribers : task'[q][s] = task[q][s]
      BY <2>1 DEF Concerns
    <2> QED BY <2>2, <2>3
  <1>4. ReturnMeansDelivered'
    <2> SUFFICES ASSUME NEW q \in Publications, phase'[q] = "returned", NEW s \in Range(handlers'[q])
                 PROVE  task'[q][s] = "returned"
      BY DEF ReturnMeansDelivered
    <2>1. CASE q = p
      BY <1>1, <2>1
    <2>2. CASE q # p
      <3>1. s \in Subscribers
        BY DEF Concerns, Range
      <3>2. s \in Range(handlers[q]) /\ phase[q] = "returned"
        BY <1>1, <2>2 DEF Concerns
      <3> QED BY <2>2, <3>1, <3>2 DEF Concerns, MixedInv, ReturnMeansDelivered
    <2> QED BY <2>1, <2>2
  <1> QED BY <1>2, <1>3, <1>4 DEF Concerns, MixedInv

(* The part of the snapshot before the first plain def subscriber.         *)
LEMMA BeforeProperties ==
  ASSUME NEW hs \in Seq(Subscribers), IsInjective(hs), NEW first \in DOMAIN hs
  PROVE  SubSeq(hs, 1, first - 1) \in Seq(Subscribers) /\ IsInjective(SubSeq(hs, 1, first - 1))
  <1>1. first \in 1 .. Len(hs) /\ Len(hs) \in Nat /\ DOMAIN hs = 1 .. Len(hs)
    OBVIOUS
  <1>2. \A i \in 1 .. first - 1 : i \in 1 .. Len(hs) /\ hs[i] \in Subscribers
    BY <1>1
  <1>3. /\ SubSeq(hs, 1, first - 1) \in Seq(Subscribers) /\ Len(SubSeq(hs, 1, first - 1)) = first - 1
        /\ \A i \in 1 .. first - 1 : SubSeq(hs, 1, first - 1)[i] = hs[i]
    BY <1>1, <1>2, SubSeqProperties
  <1>4. DOMAIN SubSeq(hs, 1, first - 1) = 1 .. first - 1
    BY <1>3
  <1> QED BY <1>1, <1>2, <1>3, <1>4 DEF IsInjective

LEMMA CallMixed ==
  ASSUME MixedInv, NEW p \in Publications, PublishCall(p)
  PROVE  MixedInv'
  <1>0. /\ phase[p] = "idle" /\ handlers[p] = <<>> /\ \A s \in Subscribers : task[p][s] = "none"
        /\ registered \in Seq(Subscribers) /\ IsInjective(registered)
        /\ DOMAIN registered = 1 .. Len(registered) /\ Types /\ Queued
    BY DEF PublishCall, MixedInv, Fresh, Types
  <1>1. CASE PublishUnresolved(p) \/ PublishToNobody(p)
    <2>1. PICK outcome \in {"missing", "returned"} :
            /\ phase' = [phase EXCEPT ![p] = outcome]
            /\ UNCHANGED <<registered, handlers, task, ready>>
      BY <1>1 DEF PublishUnresolved, PublishToNobody, EndPublish
    <2>2. Concerns(p, outcome)
      BY <2>1, <1>0 DEF Concerns, Types, Phases
    <2>3. Queued'
      BY <2>1, <1>0 DEF Queued
    <2>4. Range(handlers'[p]) = {}
      BY <2>1, <1>0 DEF Range
    <2> QED BY <2>2, <2>3, <2>4, ConcernMixed
  <1>2. CASE PublishToAll(p)
    <2>1. /\ handlers' = [handlers EXCEPT ![p] = registered] /\ UNCHANGED registered
          /\ phase' = [phase EXCEPT ![p] = "gathering"] /\ Joins(p, registered)
          /\ task' = [task EXCEPT ![p] = [s \in Subscribers |-> IF s \in Range(registered) THEN "ready" ELSE @[s]]]
      BY <1>2 DEF PublishToAll, EndPublish, CreateTasks, CreationOrder, Joins
    <2>2. /\ task' \in [Publications -> [Subscribers -> TaskStates]]
          /\ \A q \in Publications, s \in Subscribers : q # p => task'[q][s] = task[q][s]
          /\ \A s \in Range(registered) : task'[p][s] = "ready"
      BY <2>1, <1>0 DEF Types, TaskStates, Unfinished, Range
    <2>3. ready' \in Seq(Publications \X Subscribers)
      BY <2>1, <1>0, QueueGrows
    <2>4. Concerns(p, "gathering")
      BY <2>1, <2>2, <2>3, <1>0 DEF Concerns, Types, Phases
    <2>5. Queued'
      BY <2>1, <2>2, <1>0, QueueOpens
    <2> QED BY <2>4, <2>5, ConcernMixed
  <1>3. ASSUME PublishToMixed(p) PROVE MixedInv'
    <2> DEFINE plain == {i \in DOMAIN registered : registered[i] \in SyncForm}
               ran(last) == {registered[i] : i \in {j \in plain : j <= last}}
    <2>1. handlers' = [handlers EXCEPT ![p] = registered]
      BY <1>3 DEF PublishToMixed
    <2>2. ASSUME NEW first \in plain, EndPublish(p, "typeerror"),
                 task' = [task EXCEPT ![p] = [s \in Subscribers |->
                   IF s \in Range(SubSeq(registered, 1, first - 1)) THEN "ready"
                   ELSE IF s \in ran(Len(registered)) THEN "returned" ELSE @[s]]],
                 Joins(p, SubSeq(registered, 1, first - 1))
          PROVE  MixedInv'
      <3> DEFINE before == SubSeq(registered, 1, first - 1)
      <3>1. before \in Seq(Subscribers) /\ IsInjective(before)
        BY <1>0, BeforeProperties
      <3>2. /\ task' \in [Publications -> [Subscribers -> TaskStates]]
            /\ \A q \in Publications, s \in Subscribers : q # p => task'[q][s] = task[q][s]
            /\ \A s \in Range(before) : s \in Subscribers => task'[p][s] = "ready"
        <4> HIDE DEF before, ran
        <4> QED BY <2>2, <1>0 DEF Types, TaskStates, Unfinished, Finished, before
      <3>3. Range(before) \subseteq Subscribers
        BY <3>1 DEF Range
      <3> HIDE DEF before, ran, plain
      <3>4. ready' \in Seq(Publications \X Subscribers)
        BY <2>2, <1>0, <3>1, QueueGrows DEF before
      <3>5. Concerns(p, "typeerror")
        BY <2>1, <2>2, <3>2, <3>4, <1>0 DEF Concerns, EndPublish, Types, Phases
      <3>6. Queued'
        BY <2>2, <3>1, <3>2, <3>3, <1>0, QueueOpens DEF before
      <3> QED BY <3>5, <3>6, ConcernMixed
    <2>3. ASSUME NEW i \in plain, EndPublish(p, "raised"), UNCHANGED ready,
                 task' = [task EXCEPT ![p] = [s \in Subscribers |->
                   IF s = registered[i] THEN "raised"
                   ELSE IF s \in ran(i - 1) THEN "returned" ELSE @[s]]]
          PROVE  MixedInv'
      <3> HIDE DEF plain, ran
      <3>1. /\ task' \in [Publications -> [Subscribers -> TaskStates]]
            /\ \A q \in Publications, s \in Subscribers : q # p => task'[q][s] = task[q][s]
        BY <2>3, <1>0 DEF Types, TaskStates, Finished
      <3>2. Concerns(p, "raised")
        BY <2>1, <2>3, <3>1, <1>0 DEF Concerns, EndPublish, Types, Phases
      <3>3. ASSUME NEW k \in 1 .. Len(ready) PROVE task'[ready[k][1]][ready[k][2]] = "ready"
        <4>1. ready[k] \in Publications \X Subscribers /\ task[ready[k][1]][ready[k][2]] = "ready"
          BY <1>0 DEF Types, Queued
        <4>2. ready[k][1] # p
          BY <1>0, <4>1
        <4> QED BY <3>1, <4>1, <4>2
      <3>4. Queued'
        BY <2>3, <3>3, <1>0 DEF Queued
      <3> QED BY <3>2, <3>4, ConcernMixed
    <2> QED BY <1>3, <2>2, <2>3 DEF PublishToMixed, Joins
  <1> QED BY <1>1, <1>2, <1>3 DEF PublishCall

LEMMA NextMixed == MixedInv /\ [Next]_vars => MixedInv'
  <1> SUFFICES ASSUME MixedInv, [Next]_vars PROVE MixedInv'
    OBVIOUS
  <1>0. Types /\ Queued /\ IsInjective(registered)
    BY DEF MixedInv
  <1>1. ASSUME NEW s \in Subscribers, Subscribe(s) PROVE MixedInv'
    <2>1. registered' \in Seq(Subscribers) /\ IsInjective(registered')
      BY <1>0, <1>1, SubscribeKeeps
    <2> QED BY <1>1, <2>1 DEF Subscribe, MixedInv, Types, Queued, Fresh, ReturnMeansDelivered
  <1>2. ASSUME NEW p \in Publications, PublishCall(p) PROVE MixedInv'
    BY <1>2, CallMixed
  <1>3. ASSUME UNCHANGED <<registered, handlers, phase, task, ready>> PROVE MixedInv'
    BY <1>3 DEF MixedInv, Types, Queued, Fresh, ReturnMeansDelivered
  <1>4. ASSUME NEW p \in Publications, Resume(p) PROVE MixedInv'
    <2>1. phase' = [phase EXCEPT ![p] = Outcome(p)] /\ UNCHANGED <<registered, handlers, task, ready>>
      BY <1>4 DEF Resume, EndPublish
    <2>2. Concerns(p, Outcome(p))
      BY <1>0, <2>1 DEF Concerns, Types, Outcome, Phases
    <2>3. Queued'
      BY <1>0, <2>1 DEF Queued
    <2>4. Outcome(p) = "returned" => \A s \in Range(handlers'[p]) : task'[p][s] = "returned"
      BY <2>1 DEF Outcome, Failures
    <2> QED BY <2>2, <2>3, <2>4, ConcernMixed
  <1>5. CASE Start
    <2>1. ready # <<>> /\ ready' = Tail(ready)
      BY <1>5 DEF Start
    <2>2. PICK p \in Publications, s \in Subscribers : Head(ready) = <<p, s>> /\ task[p][s] = "ready"
      BY <1>0, <2>1, QueueHead
    <2>3. Run(p, s) \/ Reach(p, s, "unborn")
      BY <1>5, <2>2 DEF Start
    <2> QED BY <2>1, <2>2, <2>3, RunIsMove, MoveMixed DEF Unfinished
  <1>6. ASSUME NEW p \in Publications, NEW s \in Subscribers, Wake(p, s) PROVE MixedInv'
    BY <1>6, RunIsMove, MoveMixed DEF Wake, Unfinished
  <1> QED BY <1>1, <1>2, <1>3, <1>4, <1>5, <1>6 DEF Next, Cancel, vars

(* With subscribers of either form, publish returns normally only when     *)
(* every subscriber ran and returned: the type error and the exception of  *)
(* a plain def subscriber leave tasks behind, but never a normal return.   *)
THEOREM ReturnsDeliver == Spec => []ReturnMeansDelivered
  <1>1. MixedInv => ReturnMeansDelivered
    BY DEF MixedInv
  <1> QED BY <1>1, InitMixed, NextMixed, PTL DEF Spec

-----------------------------------------------------------------------------
(* The types, whatever the form of the subscribers.  No unstarted task is  *)
(* missing from the queue, and a CancelledError is on its way only to      *)
(* tasks that are not done.                                                *)
Unstarted ==
  \A p \in Publications, s \in Subscribers :
    task[p][s] = "ready" => \E i \in 1 .. Len(ready) : ready[i] = <<p, s>>
LoopTypes ==
  /\ wired \subseteq Subscribers /\ cancelled \subseteq Publications
  /\ cancelling \subseteq Undone
  /\ loop \in {"running", "stopping", "closed"}

LEMMA MoveUnstarted ==
  ASSUME MixedInv, Unstarted, NEW p \in Publications, NEW s \in Subscribers, NEW state, Moves(p, s, state)
  PROVE  Unstarted'
<1>0. Types /\ Queued
  BY DEF MixedInv
<1>1. /\ \A q \in Publications, r \in Subscribers :
           task'[q][r] = IF q = p /\ r = s THEN state ELSE task[q][r]
      /\ state # "ready"
  BY <1>0 DEF Moves, Types, Finished
<1>2. ASSUME NEW q \in Publications, NEW r \in Subscribers, task'[q][r] = "ready"
      PROVE  \E i \in 1 .. Len(ready') : ready'[i] = <<q, r>>
  <2>1. <<q, r>> # <<p, s>> /\ task[q][r] = "ready"
    BY <1>1, <1>2
  <2>2. PICK i \in 1 .. Len(ready) : ready[i] = <<q, r>>
    BY <2>1 DEF Unstarted
  <2>3. CASE ready' = ready
    BY <2>2, <2>3
  <2>4. CASE ready # <<>> /\ Head(ready) = <<p, s>> /\ ready' = Tail(ready)
    <3>1. i # 1
      BY <1>0, <2>1, <2>2, <2>4, QueueHead
    <3>2. Len(ready') = Len(ready) - 1 /\ Len(ready) \in Nat
      BY <1>0, <2>4, QueueTail
    <3>3. i - 1 \in 1 .. Len(ready') /\ (i - 1) + 1 = i
      BY <3>1, <3>2
    <3>4. ready'[i - 1] = ready[(i - 1) + 1]
      BY <1>0, <2>4, <3>3, QueueTail
    <3>. QED  BY <2>2, <3>3, <3>4
  <2>. QED  BY <2>3, <2>4 DEF Moves
<1>. QED  BY <1>2 DEF Unstarted

(* What a run of a task leaves of the loop's own variables.                *)
LEMMA RunTypes ==
  ASSUME MixedInv, LoopTypes, NEW p \in Publications, NEW s \in Subscribers, task[p][s] \in Unfinished,
         Run(p, s) \/ Reach(p, s, "unborn")
  PROVE  LoopTypes'
<1>1. PICK state : task' = [task EXCEPT ![p][s] = state]
  BY DEF Run, Reach, Exit
<1>2. \A q \in Publications, r \in Subscribers :
        task'[q][r] = IF q = p /\ r = s THEN state ELSE task[q][r]
  BY <1>1 DEF MixedInv, Types
<1>3. Undone \ {<<p, s>>} \subseteq Undone'
  <2>. SUFFICES ASSUME NEW q \in Publications, NEW r \in Subscribers, task[q][r] \in Unfinished,
                       <<q, r>> # <<p, s>>
                PROVE  task'[q][r] \in Unfinished
    BY DEF Undone
  <2>. QED  BY <1>2
<1>4. CASE \E to : Reach(p, s, to)
  BY <1>3, <1>4 DEF Reach, LoopTypes
<1>5. CASE Exit(p, s)
  <2>1. wired' = wired /\ cancelled' \subseteq Publications /\ loop' \in {"running", "stopping", "closed"}
    BY <1>5 DEF Exit, LoopTypes
  <2>2. cancelling' = Undone \ {<<p, s>>} \/ cancelling' = cancelling \ {<<p, s>>}
    BY <1>5 DEF Exit
  <2>. QED  BY <1>3, <2>1, <2>2 DEF LoopTypes
<1>. QED  BY <1>4, <1>5 DEF Run

LEMMA CallTypes ==
  ASSUME MixedInv, Unstarted, LoopTypes, NEW p \in Publications, PublishCall(p)
  PROVE  Unstarted' /\ LoopTypes'
<1>0. /\ phase[p] = "idle" /\ \A s \in Subscribers : task[p][s] = "none"
      /\ registered \in Seq(Subscribers) /\ IsInjective(registered)
      /\ DOMAIN registered = 1 .. Len(registered) /\ Types
      /\ ready \in Seq(Publications \X Subscribers) /\ Len(ready) \in Nat
  BY DEF PublishCall, MixedInv, Fresh, Types
<1>1. UNCHANGED <<wired, cancelled, cancelling, loop>>
  BY DEF PublishCall, PublishUnresolved, PublishToNobody, PublishToAll, PublishToMixed, EndPublish
(* The tasks of p are new, and those of the others as they were.           *)
<1>2. ASSUME \A q \in Publications, s \in Subscribers : q # p => task'[q][s] = task[q][s]
      PROVE  LoopTypes'
  <2>1. Undone \subseteq Undone'
    <3>. SUFFICES ASSUME NEW q \in Publications, NEW r \in Subscribers, task[q][r] \in Unfinished
                  PROVE  task'[q][r] \in Unfinished
      BY DEF Undone
    <3>. QED  BY <1>0, <1>2 DEF Unfinished
  <2>. QED  BY <1>1, <2>1 DEF LoopTypes
<1>3. ASSUME NEW hs \in Seq(Subscribers), Joins(p, hs),
             \A q \in Publications, s \in Subscribers : q # p => task'[q][s] = task[q][s],
             \A s \in Subscribers : task'[p][s] = "ready" => s \in Range(hs)
      PROVE  Unstarted'
  <2>1. /\ Len(ready') = Len(ready) + Len(hs) /\ Len(hs) \in Nat
        /\ \A i \in 1 .. Len(ready) : ready'[i] = ready[i]
        /\ \A k \in 1 .. Len(hs) : ready'[Len(ready) + k] = <<p, hs[k]>>
    BY <1>0, <1>3, QueueGrows
  <2>2. ASSUME NEW q \in Publications, NEW s \in Subscribers, task'[q][s] = "ready", q # p
        PROVE  \E i \in 1 .. Len(ready') : ready'[i] = <<q, s>>
    <3>1. PICK i \in 1 .. Len(ready) : ready[i] = <<q, s>>
      BY <1>3, <2>2 DEF Unstarted
    <3>2. i \in 1 .. Len(ready') /\ ready'[i] = <<q, s>>
      BY <1>0, <2>1, <3>1
    <3>. QED  BY <3>2
  <2>3. ASSUME NEW s \in Subscribers, task'[p][s] = "ready"
        PROVE  \E i \in 1 .. Len(ready') : ready'[i] = <<p, s>>
    <3>1. PICK k \in 1 .. Len(hs) : hs[k] = s
      BY <1>3, <2>3 DEF Range
    <3>2. Len(ready) + k \in 1 .. Len(ready') /\ ready'[Len(ready) + k] = <<p, s>>
      BY <1>0, <2>1, <3>1
    <3>. QED  BY <3>2
  <2>. QED  BY <2>2, <2>3 DEF Unstarted
<1>4. ASSUME UNCHANGED ready,
             \A q \in Publications, s \in Subscribers : q # p => task'[q][s] = task[q][s],
             \A s \in Subscribers : task'[p][s] # "ready"
      PROVE  Unstarted'
  BY <1>4 DEF Unstarted
<1>5. CASE PublishUnresolved(p) \/ PublishToNobody(p)
  <2>1. UNCHANGED <<task, ready>>
    BY <1>5 DEF PublishUnresolved, PublishToNobody
  <2>. QED  BY <1>0, <1>2, <1>4, <2>1
<1>6. CASE PublishToAll(p)
  <2>1. /\ Joins(p, registered)
        /\ task' = [task EXCEPT ![p] = [s \in Subscribers |-> IF s \in Range(registered) THEN "ready" ELSE @[s]]]
    BY <1>6 DEF PublishToAll, CreateTasks, CreationOrder, Joins
  <2>2. /\ \A q \in Publications, s \in Subscribers : q # p => task'[q][s] = task[q][s]
        /\ \A s \in Subscribers : task'[p][s] = IF s \in Range(registered) THEN "ready" ELSE task[p][s]
    BY <1>0, <2>1 DEF Types
  <2>3. \A s \in Subscribers : task'[p][s] = "ready" => s \in Range(registered)
    BY <1>0, <2>2
  <2>. QED  BY <1>0, <1>2, <1>3, <2>1, <2>2, <2>3
<1>7. ASSUME PublishToMixed(p) PROVE Unstarted' /\ LoopTypes'
  <2> DEFINE plain == {i \in DOMAIN registered : registered[i] \in SyncForm}
             ran(last) == {registered[i] : i \in {j \in plain : j <= last}}
  <2>1. ASSUME NEW first \in plain,
               task' = [task EXCEPT ![p] = [s \in Subscribers |->
                 IF s \in Range(SubSeq(registered, 1, first - 1)) THEN "ready"
                 ELSE IF s \in ran(Len(registered)) THEN "returned" ELSE @[s]]],
               Joins(p, SubSeq(registered, 1, first - 1))
        PROVE  Unstarted' /\ LoopTypes'
    <3> DEFINE before == SubSeq(registered, 1, first - 1)
    <3>1. before \in Seq(Subscribers)
      BY <1>0, BeforeProperties
    <3>. HIDE DEF before, ran, plain
    <3>2. /\ \A q \in Publications, s \in Subscribers : q # p => task'[q][s] = task[q][s]
          /\ \A s \in Subscribers :
               task'[p][s] = IF s \in Range(before) THEN "ready"
                             ELSE IF s \in ran(Len(registered)) THEN "returned" ELSE task[p][s]
      BY <1>0, <2>1 DEF Types, before
    <3>3. \A s \in Subscribers : task'[p][s] = "ready" => s \in Range(before)
      BY <1>0, <3>2
    <3>4. Joins(p, before)
      BY <2>1 DEF before
    <3>. QED  BY <1>2, <1>3, <3>1, <3>2, <3>3, <3>4
  <2>2. ASSUME NEW i \in plain, UNCHANGED ready,
               task' = [task EXCEPT ![p] = [s \in Subscribers |->
                 IF s = registered[i] THEN "raised"
                 ELSE IF s \in ran(i - 1) THEN "returned" ELSE @[s]]]
        PROVE  Unstarted' /\ LoopTypes'
    <3>. HIDE DEF ran, plain
    <3>1. /\ \A q \in Publications, s \in Subscribers : q # p => task'[q][s] = task[q][s]
          /\ \A s \in Subscribers :
               task'[p][s] = IF s = registered[i] THEN "raised"
                             ELSE IF s \in ran(i - 1) THEN "returned" ELSE task[p][s]
      BY <1>0, <2>2 DEF Types
    <3>2. \A s \in Subscribers : task'[p][s] # "ready"
      BY <1>0, <3>1
    <3>. QED  BY <1>2, <1>4, <2>2, <3>1, <3>2
  <2>. QED  BY <1>7, <2>1, <2>2 DEF PublishToMixed, Joins
<1>. QED  BY <1>5, <1>6, <1>7 DEF PublishCall

LEMMA TypesStep ==
  MixedInv /\ Unstarted /\ LoopTypes /\ [Next]_vars => Unstarted' /\ LoopTypes'
<1> SUFFICES ASSUME MixedInv, Unstarted, LoopTypes, [Next]_vars PROVE Unstarted' /\ LoopTypes'
  OBVIOUS
<1>1. CASE UNCHANGED vars
  BY <1>1 DEF vars, Unstarted, LoopTypes, Undone
<1>2. ASSUME NEW s \in Subscribers, Subscribe(s) PROVE Unstarted' /\ LoopTypes'
  BY <1>2 DEF Subscribe, Unstarted, LoopTypes, Undone
<1>3. ASSUME NEW p \in Publications, PublishCall(p) PROVE Unstarted' /\ LoopTypes'
  BY <1>3, CallTypes
<1>4. ASSUME NEW p \in Publications, Resume(p) PROVE Unstarted' /\ LoopTypes'
  BY <1>4 DEF Resume, EndPublish, Unstarted, LoopTypes, Undone
<1>5. ASSUME NEW p \in Publications, Cancel(p) PROVE Unstarted' /\ LoopTypes'
  <2>1. Unstarted' /\ Undone' = Undone
    BY <1>5 DEF Cancel, Unstarted, Undone
  <2>. QED  BY <1>5, <2>1 DEF Cancel, LoopTypes
<1>6. CASE Start
  <2>1. ready # <<>> /\ ready' = Tail(ready)
    BY <1>6 DEF Start
  <2>2. PICK p \in Publications, s \in Subscribers : Head(ready) = <<p, s>> /\ task[p][s] = "ready"
    BY <2>1, QueueHead DEF MixedInv
  <2>3. Run(p, s) \/ Reach(p, s, "unborn")
    BY <1>6, <2>2 DEF Start
  <2>4. \E state \in Finished \cup {"suspended"} : Moves(p, s, state)
    BY <2>1, <2>2, <2>3, RunIsMove DEF Unfinished
  <2>. QED  BY <2>2, <2>3, <2>4, MoveUnstarted, RunTypes DEF Unfinished
<1>7. ASSUME NEW p \in Publications, NEW s \in Subscribers, Wake(p, s) PROVE Unstarted' /\ LoopTypes'
  <2>1. task[p][s] \in Unfinished /\ task[p][s] = "suspended" /\ Run(p, s) /\ UNCHANGED ready
    BY <1>7 DEF Wake, Unfinished
  <2>2. \E state \in Finished \cup {"suspended"} : Moves(p, s, state)
    BY <2>1, RunIsMove
  <2>. QED  BY <2>1, <2>2, MoveUnstarted, RunTypes
<1>. QED  BY <1>1, <1>2, <1>3, <1>4, <1>5, <1>6, <1>7 DEF Next

(* Every variable keeps its type with subscribers of either form: the      *)
(* event loop's queue holds each task that has not started exactly once,   *)
(* and only a task that is not done awaits a CancelledError.               *)
THEOREM Typed == Spec => []TypeOK
<1>1. Init => Unstarted /\ LoopTypes
  BY DEF Init, Unstarted, LoopTypes
<1>2. MixedInv /\ Unstarted /\ LoopTypes => TypeOK
  <2> SUFFICES ASSUME MixedInv, Unstarted, LoopTypes PROVE TypeOK
    OBVIOUS
  <2>1. Range(ready) = {u \in Publications \X Subscribers : task[u[1]][u[2]] = "ready"}
    <3>1. DOMAIN ready = 1 .. Len(ready) /\ \A i \in 1 .. Len(ready) : ready[i] \in Publications \X Subscribers
      BY DEF MixedInv, Types
    <3>2. ASSUME NEW u \in Range(ready) PROVE u \in Publications \X Subscribers /\ task[u[1]][u[2]] = "ready"
      BY <3>1 DEF Range, MixedInv, Queued
    <3>3. ASSUME NEW u \in Publications \X Subscribers, task[u[1]][u[2]] = "ready" PROVE u \in Range(ready)
      <4>1. u = <<u[1], u[2]>> /\ u[1] \in Publications /\ u[2] \in Subscribers
        OBVIOUS
      <4>2. PICK i \in 1 .. Len(ready) : ready[i] = <<u[1], u[2]>>
        BY <3>3, <4>1 DEF Unstarted
      <4>. QED  BY <3>1, <4>1, <4>2 DEF Range
    <3>. QED  BY <3>2, <3>3
  <2>. QED  BY <2>1 DEF TypeOK, MixedInv, Types, Queued, LoopTypes
<1>. QED  BY <1>1, <1>2, InitMixed, NextMixed, TypesStep, PTL DEF Spec
===============================================================================
