--------------------------- MODULE PublishSyncProofs ---------------------------
(***************************************************************************)
(* PublishSync implements Delivery, and its groups lack no failure: any    *)
(* number of publishing threads and subscribers, of either form.           *)
(***************************************************************************)
EXTENDS PublishSync, DataLemmas

Types ==
  /\ registered \in Seq(Subscribers)
  /\ snapshot \in [Publications -> Seq(Subscribers)]
  /\ next \in [Publications -> Nat]
  /\ phase \in [Publications -> Phases]
  /\ body \in [Publications -> [Subscribers -> Bodies]]
  /\ exceptions \in [Publications -> Seq(Subscribers)]

(* Where a publication is in its loop tells what has become of everybody   *)
(* it is to call; before the loop, nothing has.                            *)
Settled == {"returned", "raised", "discarded"}

Loop(p) ==
  /\ IsInjective(snapshot[p])
  /\ next[p] \in 1 .. Len(snapshot[p]) + 1
  /\ phase[p] = "idle" => snapshot[p] = <<>>
  /\ phase[p] \in {"idle", "resolving", "missing"} => \A s \in Subscribers : body[p][s] = "none"
  /\ phase[p] \in {"idle", "resolving"} => next[p] = 1
  /\ phase[p] = "calling" => \A i \in 1 .. Len(snapshot[p]) :
       /\ i < next[p] => body[p][snapshot[p][i]] \in Settled
       /\ i = next[p] => body[p][snapshot[p][i]] \in {"none", "running"}
       /\ i > next[p] => body[p][snapshot[p][i]] = "none"
  /\ \A s \in Subscribers : body[p][s] # "none" => /\ s \in Range(snapshot[p])
                                                   /\ s \in AsyncForm <=> body[p][s] = "discarded"
  /\ exceptions[p] # <<>> <=> \E s \in Subscribers : body[p][s] = "raised"

SyncInv == Types /\ IsInjective(registered) /\ \A p \in Publications : Loop(p)

-----------------------------------------------------------------------------
LEMMA InitInv == Init => SyncInv
  <1> SUFFICES ASSUME Init PROVE SyncInv
    OBVIOUS
  <1>1. Types /\ IsInjective(registered)
    BY DEF Init, Types, Phases, Bodies, IsInjective
  <1>2. ASSUME NEW p \in Publications PROVE Loop(p)
    BY DEF Init, Loop, IsInjective, Range
  <1> QED BY <1>1, <1>2 DEF SyncInv

(* A publication's own step leaves the others where they are.              *)
LEMMA OthersStay ==
  ASSUME NEW p \in Publications, NEW q \in Publications, q # p, SyncInv, Work(p)
  PROVE  Loop(q)'
  <1>1. /\ snapshot'[q] = snapshot[q] /\ next'[q] = next[q] /\ phase'[q] = phase[q]
        /\ body'[q] = body[q] /\ exceptions'[q] = exceptions[q]
    BY DEF Work, Snapshot, Resolve, Call, CallEnds, Return, SyncInv, Types
  <1> QED BY <1>1 DEF SyncInv, Loop

(* The handler the loop is at, and those it is not.                        *)
LEMMA AtCurrent ==
  ASSUME SyncInv, NEW p \in Publications, InLoop(p)
  PROVE  /\ Current(p) \in Subscribers /\ Current(p) \in Range(snapshot[p])
         /\ next[p] \in 1 .. Len(snapshot[p]) /\ next[p] \in Nat /\ Len(snapshot[p]) \in Nat
         /\ \A i \in 1 .. Len(snapshot[p]) : /\ snapshot[p][i] \in Subscribers
                                             /\ snapshot[p][i] = Current(p) <=> i = next[p]
  <1>1. /\ DOMAIN snapshot[p] = 1 .. Len(snapshot[p]) /\ Len(snapshot[p]) \in Nat
        /\ \A i \in 1 .. Len(snapshot[p]) : snapshot[p][i] \in Subscribers
    BY DEF SyncInv, Types
  <1>2. next[p] \in 1 .. Len(snapshot[p]) /\ IsInjective(snapshot[p])
    BY <1>1 DEF InLoop, SyncInv, Loop
  <1> QED BY <1>1, <1>2 DEF Current, IsInjective, Range

(* One handler is called, or one call ends, and perhaps the loop with it.  *)
LEMMA LoopStep ==
  ASSUME SyncInv, NEW p \in Publications, InLoop(p), body[p][Current(p)] \in {"none", "running"},
         NEW how \in Bodies, body' = [body EXCEPT ![p][Current(p)] = how],
         how = "discarded" <=> Current(p) \in AsyncForm,
         UNCHANGED <<registered, wired, snapshot>>,
         \/ /\ how = "running" /\ UNCHANGED <<next, phase, exceptions>>
         \/ /\ how = "escaped" /\ phase' = [phase EXCEPT ![p] = "escaped"] /\ UNCHANGED <<next, exceptions>>
         \/ /\ how \in Settled /\ next' = [next EXCEPT ![p] = @ + 1] /\ UNCHANGED phase
            /\ exceptions' = IF how # "raised" THEN exceptions
                             ELSE [exceptions EXCEPT ![p] = Append(exceptions[p], Current(p))]
  PROVE  Types' /\ Loop(p)'
  <1>1. \A s \in Subscribers : body'[p][s] = IF s = Current(p) THEN how ELSE body[p][s]
    BY AtCurrent DEF SyncInv, Types
  <1>2. Types'
    <2>1. body' \in [Publications -> [Subscribers -> Bodies]]
      BY AtCurrent DEF SyncInv, Types
    <2>2. next' \in [Publications -> Nat]
      <3>1. next' = next \/ next' = [next EXCEPT ![p] = next[p] + 1]
        OBVIOUS
      <3>2. next \in [Publications -> Nat] /\ next[p] + 1 \in Nat
        BY DEF SyncInv, Types
      <3> QED BY <3>1, <3>2
    <2>3. phase' \in [Publications -> Phases]
      <3>1. phase' = phase \/ phase' = [phase EXCEPT ![p] = "escaped"]
        OBVIOUS
      <3> QED BY <3>1 DEF SyncInv, Types, Phases
    <2>4. exceptions' \in [Publications -> Seq(Subscribers)]
      <3>1. exceptions' = exceptions \/ exceptions' = [exceptions EXCEPT ![p] = Append(exceptions[p], Current(p))]
        OBVIOUS
      <3>2. Append(exceptions[p], Current(p)) \in Seq(Subscribers)
        BY AtCurrent DEF SyncInv, Types
      <3> QED BY <3>1, <3>2 DEF SyncInv, Types
    <2> QED BY <2>1, <2>2, <2>3, <2>4 DEF SyncInv, Types
  <1>3. /\ next'[p] = IF how \in Settled THEN next[p] + 1 ELSE next[p]
        /\ phase'[p] = IF how = "escaped" THEN "escaped" ELSE "calling"
        /\ snapshot' = snapshot
    BY DEF SyncInv, Types, Settled, InLoop
  <1>4. phase'[p] = "calling" => \A i \in 1 .. Len(snapshot[p]) :
          /\ i < next'[p] => body'[p][snapshot[p][i]] \in Settled
          /\ i = next'[p] => body'[p][snapshot[p][i]] \in {"none", "running"}
          /\ i > next'[p] => body'[p][snapshot[p][i]] = "none"
    <2> SUFFICES ASSUME phase'[p] = "calling", NEW i \in 1 .. Len(snapshot[p])
                 PROVE  /\ i < next'[p] => body'[p][snapshot[p][i]] \in Settled
                        /\ i = next'[p] => body'[p][snapshot[p][i]] \in {"none", "running"}
                        /\ i > next'[p] => body'[p][snapshot[p][i]] = "none"
      OBVIOUS
    <2>1. /\ i < next[p] => body[p][snapshot[p][i]] \in Settled
          /\ i > next[p] => body[p][snapshot[p][i]] = "none"
      BY DEF InLoop, SyncInv, Loop
    <2>2. /\ body'[p][snapshot[p][i]] = IF i = next[p] THEN how ELSE body[p][snapshot[p][i]]
          /\ next[p] \in Nat /\ i \in Nat
      BY <1>1, AtCurrent
    <2>3. how \in Settled \cup {"running"}
      BY <1>3
    <2> QED BY <1>3, <2>1, <2>2, <2>3 DEF Settled
  <1>5. exceptions'[p] # <<>> <=> \E s \in Subscribers : body'[p][s] = "raised"
    <2>1. CASE how = "raised"
      <3>1. exceptions'[p] = Append(exceptions[p], Current(p)) /\ exceptions[p] \in Seq(Subscribers)
        BY <2>1 DEF SyncInv, Types, Settled
      <3>2. exceptions'[p] # <<>>
        BY <3>1, AtCurrent
      <3> QED BY <1>1, <2>1, <3>2, AtCurrent
    <2>2. CASE how # "raised"
      <3>1. exceptions'[p] = exceptions[p]
        BY <2>2
      <3> QED BY <1>1, <2>2, <3>1, AtCurrent DEF SyncInv, Loop
    <2> QED BY <2>1, <2>2
  <1>6. next'[p] \in 1 .. Len(snapshot[p]) + 1
    BY <1>3, AtCurrent
  <1>7. \A s \in Subscribers : body'[p][s] # "none" => /\ s \in Range(snapshot[p])
                                                       /\ s \in AsyncForm <=> body'[p][s] = "discarded"
    BY <1>1, AtCurrent DEF SyncInv, Loop
  <1>8. IsInjective(snapshot[p])
    BY DEF SyncInv, Loop
  <1> QED BY <1>2, <1>3, <1>4, <1>5, <1>6, <1>7, <1>8 DEF Loop

LEMMA NextInv == SyncInv /\ [Next]_vars => SyncInv'
  <1> SUFFICES ASSUME SyncInv, [Next]_vars PROVE SyncInv'
    OBVIOUS
  <1>1. ASSUME NEW s \in Subscribers, Subscribe(s) PROVE SyncInv'
    <2>1. /\ DOMAIN registered = 1 .. Len(registered) /\ Len(registered) \in Nat
          /\ registered' = Append(registered, s) /\ registered' \in Seq(Subscribers)
      BY <1>1 DEF Subscribe, SyncInv, Types
    <2>2. /\ DOMAIN registered' = 1 .. Len(registered) + 1 /\ registered'[Len(registered) + 1] = s
          /\ \A i \in 1 .. Len(registered) : registered'[i] = registered[i]
      BY <2>1 DEF SyncInv, Types
    <2>4. \A i \in 1 .. Len(registered) : registered[i] # s
      BY <1>1, <2>1 DEF Subscribe, Range
    <2>3. IsInjective(registered')
      BY <2>1, <2>2, <2>4 DEF SyncInv, IsInjective
    <2> QED BY <1>1, <2>1, <2>3 DEF Subscribe, SyncInv, Types, Loop
  <1>2. ASSUME NEW p \in Publications, Snapshot(p) PROVE Types' /\ Loop(p)'
    <2>1. /\ snapshot' = [snapshot EXCEPT ![p] = registered]
          /\ phase' = [phase EXCEPT ![p] = "resolving"] /\ phase[p] = "idle"
          /\ UNCHANGED <<registered, next, body, exceptions>>
      BY <1>2 DEF Snapshot
    <2>2. Types'
      BY <2>1 DEF SyncInv, Types, Phases
    <2>3. snapshot'[p] = registered /\ phase'[p] = "resolving"
      BY <2>1 DEF SyncInv, Types
    <2>4. Len(registered) \in Nat
      BY DEF SyncInv, Types
    <2> QED BY <2>1, <2>2, <2>3, <2>4 DEF SyncInv, Loop
  <1>3. ASSUME NEW p \in Publications, Resolve(p) PROVE Types' /\ Loop(p)'
    <2>1. PICK reached \in {"missing", "returned", "calling"} :
            /\ phase' = [phase EXCEPT ![p] = reached] /\ phase[p] = "resolving"
            /\ UNCHANGED <<registered, snapshot, next, body, exceptions>>
      BY <1>3 DEF Resolve
    <2>2. Types' /\ phase'[p] = reached
      BY <2>1 DEF SyncInv, Types, Phases
    <2>3. next[p] = 1 /\ \A s \in Subscribers : body[p][s] = "none"
      BY <2>1 DEF SyncInv, Loop
    <2>4. \A i \in 1 .. Len(snapshot[p]) : snapshot[p][i] \in Subscribers /\ ~(i < 1)
      BY DEF SyncInv, Types
    <2> QED BY <2>1, <2>2, <2>3, <2>4 DEF SyncInv, Loop
  <1>4. ASSUME NEW p \in Publications, Call(p) PROVE Types' /\ Loop(p)'
    <2>1. InLoop(p) /\ body[p][Current(p)] = "none" /\ UNCHANGED <<registered, wired, snapshot, phase, exceptions>>
      BY <1>4 DEF Call
    <2>2. CASE Current(p) \in AsyncForm
      <3>1. body' = [body EXCEPT ![p][Current(p)] = "discarded"] /\ next' = [next EXCEPT ![p] = @ + 1]
        BY <1>4, <2>2 DEF Call
      <3> QED BY <2>1, <2>2, <3>1, LoopStep DEF Bodies, Settled
    <2>3. CASE Current(p) \notin AsyncForm
      <3>1. body' = [body EXCEPT ![p][Current(p)] = "running"] /\ UNCHANGED next
        BY <1>4, <2>3 DEF Call
      <3> QED BY <2>1, <2>3, <3>1, LoopStep DEF Bodies
    <2> QED BY <2>2, <2>3
  <1>5. ASSUME NEW p \in Publications, NEW how \in {"returned", "raised", "escaped"}, CallEnds(p, how)
        PROVE  Types' /\ Loop(p)'
    <2>1. /\ InLoop(p) /\ body[p][Current(p)] = "running" /\ UNCHANGED <<registered, wired, snapshot>>
          /\ body' = [body EXCEPT ![p][Current(p)] = how]
      BY <1>5 DEF CallEnds
    <2>4. Current(p) \notin AsyncForm
      BY <2>1, AtCurrent DEF SyncInv, Loop
    <2>2. CASE how = "escaped"
      <3>1. phase' = [phase EXCEPT ![p] = "escaped"] /\ UNCHANGED <<next, exceptions>>
        BY <1>5, <2>2 DEF CallEnds, Contained
      <3> QED BY <2>1, <2>2, <2>4, <3>1, LoopStep DEF Bodies
    <2>3. CASE how # "escaped"
      <3>1. /\ next' = [next EXCEPT ![p] = @ + 1] /\ UNCHANGED phase
            /\ exceptions' = IF how # "raised" THEN exceptions
                             ELSE [exceptions EXCEPT ![p] = Append(exceptions[p], Current(p))]
        BY <1>5, <2>3 DEF CallEnds, Contained, Collect
      <3> QED BY <2>1, <2>3, <2>4, <3>1, LoopStep DEF Bodies, Settled
    <2> QED BY <2>2, <2>3
  <1>6. ASSUME NEW p \in Publications, Return(p) PROVE Types' /\ Loop(p)'
    <2>1. PICK reached \in {"group", "returned"} :
            /\ phase' = [phase EXCEPT ![p] = reached]
            /\ UNCHANGED <<registered, snapshot, next, body, exceptions>>
      BY <1>6 DEF Return, Verdict
    <2>2. Types' /\ phase'[p] = reached
      BY <2>1 DEF SyncInv, Types, Phases
    <2> QED BY <2>1, <2>2 DEF SyncInv, Loop
  <1>7. ASSUME NEW p \in Publications, Work(p) PROVE SyncInv'
    <2>1. Types' /\ Loop(p)'
      BY <1>2, <1>3, <1>4, <1>5, <1>6, <1>7 DEF Work
    <2>2. registered' = registered
      BY <1>7 DEF Work, Snapshot, Resolve, Call, CallEnds, Return
    <2> QED BY <1>7, <2>1, <2>2, OthersStay DEF SyncInv
  <1>8. ASSUME UNCHANGED vars PROVE SyncInv'
    BY <1>8 DEF vars, SyncInv, Types, Loop
  <1> QED BY <1>1, <1>7, <1>8 DEF Next

-----------------------------------------------------------------------------
(* The state of Delivery that a state of PublishSync stands for.           *)
Promised == Subscribers \ AsyncForm
Statuses == [p \in Publications |-> PromiseStatus(p)]
Progresses == [p \in Publications |-> [s \in Promised |-> PromiseProgress(p, s)]]
Stands(state) == IF state = "none" THEN "due" ELSE IF state = "escaped" THEN "raised" ELSE state

LEMMA SnapshotPromised ==
  ASSUME SyncInv, NEW p \in Publications, Snapshot(p)
  PROVE  Promise!Next
  <1>1. /\ registered' = registered /\ wired' = wired /\ body' = body /\ phase[p] = "idle"
        /\ phase' = [phase EXCEPT ![p] = "resolving"] /\ snapshot' = [snapshot EXCEPT ![p] = registered]
    BY DEF Snapshot
  <1>2. /\ \A q \in Publications : q # p => phase'[q] = phase[q] /\ snapshot'[q] = snapshot[q]
        /\ phase'[p] = "resolving" /\ snapshot'[p] = registered
    BY <1>1 DEF SyncInv, Types
  <1>3. \A s \in Subscribers : body[p][s] = "none"
    BY <1>1 DEF SyncInv, Loop
  <1> DEFINE verdict == IF Missing(registered) # {} THEN "refused"
                        ELSE IF registered = <<>> THEN "delivered" ELSE "open"
  <1>4. Statuses' = [Statuses EXCEPT ![p] = verdict] /\ Statuses[p] = "unpublished"
    <2>1. \A q \in Publications : PromiseStatus(q)' = IF q = p THEN verdict ELSE PromiseStatus(q)
      BY <1>1, <1>2 DEF PromiseStatus, Missing
    <2>2. PromiseStatus(p) = "unpublished"
      BY <1>1 DEF PromiseStatus
    <2> QED BY <2>1, <2>2 DEF Statuses
  <1>5. \A q \in Publications, s \in Promised : PromiseProgress(q, s)' =
          IF q # p THEN PromiseProgress(q, s)
          ELSE IF verdict # "refused" /\ s \in Range(registered) THEN "due" ELSE "unaddressed"
    <2> SUFFICES ASSUME NEW q \in Publications, NEW s \in Promised
                 PROVE  PromiseProgress(q, s)' =
                          IF q # p THEN PromiseProgress(q, s)
                          ELSE IF verdict # "refused" /\ s \in Range(registered) THEN "due" ELSE "unaddressed"
      OBVIOUS
    <2>1. PromiseStatus(q)' = IF q = p THEN verdict ELSE PromiseStatus(q)
      BY <1>1, <1>2 DEF PromiseStatus, Missing
    <2> QED BY <1>1, <1>2, <1>3, <2>1 DEF PromiseProgress, Promised
  <1>6. \A s \in Promised : PromiseProgress(p, s) = "unaddressed"
    BY <1>1 DEF PromiseProgress, PromiseStatus
  <1>7. CASE Missing(registered) # {}
    <2>1. Progresses' = Progresses
      BY <1>5, <1>6, <1>7 DEF Progresses
    <2>2. Promise!Refuse(p)
      BY <1>1, <1>4, <1>7, <2>1 DEF Promise!Refuse, Statuses, Progresses, Promised
    <2> QED BY <2>2 DEF Promise!Next
  <1>8. CASE Missing(registered) = {} /\ registered = <<>>
    <2>1. Range(registered) = {}
      BY <1>8 DEF Range
    <2>2. Progresses' = Progresses
      BY <1>5, <1>6, <2>1 DEF Progresses
    <2>3. Promise!Skip(p)
      BY <1>1, <1>4, <1>8, <2>1, <2>2 DEF Promise!Skip, Statuses, Progresses, Promised
    <2> QED BY <2>3 DEF Promise!Next
  <1>9. CASE Missing(registered) = {} /\ registered # <<>>
    <2>1. Progresses' = [Progresses EXCEPT ![p] = [s \in Promised |->
                          IF s \in Range(registered) \ AsyncForm THEN "due" ELSE "unaddressed"]]
      BY <1>5, <1>9 DEF Progresses, Promised
    <2>2. Promise!Open(p)
      BY <1>1, <1>4, <1>9, <2>1 DEF Promise!Open, Statuses, Progresses, Promised
    <2> QED BY <2>2 DEF Promise!Next
  <1> QED BY <1>7, <1>8, <1>9

LEMMA ResolvePromised ==
  ASSUME SyncInv, NEW p \in Publications, Resolve(p)
  PROVE  UNCHANGED Promise!vars
  <1>1. /\ phase[p] = "resolving" /\ UNCHANGED <<registered, wired, snapshot, body>>
        /\ phase' = [phase EXCEPT ![p] = IF Missing(snapshot[p]) # {} THEN "missing"
                                         ELSE IF snapshot[p] = <<>> THEN "returned" ELSE "calling"]
    BY DEF Resolve
  <1>2. \A q \in Publications : PromiseStatus(q)' = PromiseStatus(q)
    BY <1>1 DEF PromiseStatus, Missing, SyncInv, Types
  <1>3. \A q \in Publications, s \in Promised : PromiseProgress(q, s)' = PromiseProgress(q, s)
    BY <1>1, <1>2 DEF PromiseProgress
  <1>4. Statuses' = Statuses /\ Progresses' = Progresses
    BY <1>2, <1>3 DEF Statuses, Progresses
  <1> QED BY <1>1, <1>4 DEF Promise!vars, Statuses, Progresses, Promised

(* One call begins, or ends, and whatever else happens in p, what is       *)
(* promised changes only for that subscriber.                              *)
LEMMA CurrentPromised ==
  ASSUME SyncInv, NEW p \in Publications, InLoop(p), NEW how \in Bodies \ {"none"},
         body' = [body EXCEPT ![p][Current(p)] = how],
         \/ phase' = phase
         \/ phase' = [phase EXCEPT ![p] = "escaped"],
         UNCHANGED <<registered, wired, snapshot>>
  PROVE  /\ Statuses[p] = "open"
         /\ phase' = phase => Statuses' = Statuses
         /\ phase' # phase => Statuses' = [Statuses EXCEPT ![p] = "stopped"]
         /\ Current(p) \in AsyncForm => Progresses' = Progresses
         /\ Current(p) \notin AsyncForm =>
              /\ Progresses' = [Progresses EXCEPT ![p][Current(p)] = Stands(how)]
              /\ Progresses[p][Current(p)] = Stands(body[p][Current(p)])
  <1>1. \A q \in Publications, s \in Subscribers :
          body'[q][s] = IF q = p /\ s = Current(p) THEN how ELSE body[q][s]
    BY AtCurrent DEF SyncInv, Types
  <1>2. \A q \in Publications : PromiseStatus(q)' =
          IF q = p /\ phase' # phase THEN "stopped" ELSE PromiseStatus(q)
    BY DEF PromiseStatus, Missing, InLoop, SyncInv, Types
  <1>3. PromiseStatus(p) = "open"
    BY DEF PromiseStatus, InLoop
  <1>4. \A q \in Publications, s \in Promised :
          PromiseProgress(q, s)' = IF q = p /\ s = Current(p) THEN Stands(how) ELSE PromiseProgress(q, s)
    <2> SUFFICES ASSUME NEW q \in Publications, NEW s \in Promised
                 PROVE  PromiseProgress(q, s)' =
                          IF q = p /\ s = Current(p) THEN Stands(how) ELSE PromiseProgress(q, s)
      OBVIOUS
    <2>1. PromiseStatus(q)' \in {"unpublished", "refused"} <=> PromiseStatus(q) \in {"unpublished", "refused"}
      BY <1>2, <1>3
    <2> QED BY <1>1, <1>3, <2>1, AtCurrent DEF PromiseProgress, Promised, Stands
  <1>5. PromiseProgress(p, Current(p)) = Stands(body[p][Current(p)])
    BY <1>3, AtCurrent DEF PromiseProgress, Stands
  <1>6. /\ Statuses[p] = "open"
        /\ phase' = phase => Statuses' = Statuses
        /\ phase' # phase => Statuses' = [Statuses EXCEPT ![p] = "stopped"]
    BY <1>2, <1>3 DEF Statuses
  <1>7. ASSUME Current(p) \in AsyncForm PROVE Progresses' = Progresses
    BY <1>4, <1>7 DEF Progresses, Promised
  <1>8. ASSUME Current(p) \notin AsyncForm
        PROVE  /\ Progresses' = [Progresses EXCEPT ![p][Current(p)] = Stands(how)]
               /\ Progresses[p][Current(p)] = Stands(body[p][Current(p)])
    <2>1. Current(p) \in Promised
      BY <1>8, AtCurrent DEF Promised
    <2>2. Progresses' = [q \in Publications |-> [s \in Promised |->
                           IF q = p /\ s = Current(p) THEN Stands(how) ELSE PromiseProgress(q, s)]]
      BY <1>4 DEF Progresses
    <2> QED BY <1>5, <2>1, <2>2 DEF Progresses
  <1> QED BY <1>6, <1>7, <1>8

LEMMA CallPromised ==
  ASSUME SyncInv, NEW p \in Publications, Call(p)
  PROVE  [Promise!Next]_(Promise!vars)
  <1>1. InLoop(p) /\ body[p][Current(p)] = "none" /\ UNCHANGED <<registered, wired, snapshot, phase>>
    BY DEF Call
  <1>2. CASE Current(p) \in AsyncForm
    <2>1. body' = [body EXCEPT ![p][Current(p)] = "discarded"]
      BY <1>2 DEF Call
    <2>2. Statuses' = Statuses /\ Progresses' = Progresses
      BY <1>1, <1>2, <2>1, CurrentPromised DEF Bodies
    <2> QED BY <1>1, <2>2 DEF Promise!vars, Statuses, Progresses, Promised
  <1>3. CASE Current(p) \notin AsyncForm
    <2>1. body' = [body EXCEPT ![p][Current(p)] = "running"]
      BY <1>3 DEF Call
    <2>2. /\ Statuses' = Statuses /\ Statuses[p] = "open"
          /\ Progresses' = [Progresses EXCEPT ![p][Current(p)] = "running"] /\ Progresses[p][Current(p)] = "due"
      BY <1>1, <1>3, <2>1, CurrentPromised DEF Bodies, Stands
    <2>3. Promise!Start(p, Current(p)) /\ Current(p) \in Subscribers \ AsyncForm
      BY <1>1, <1>3, <2>2, AtCurrent DEF Promise!Start, Promise!Advance, Statuses, Progresses, Promised
    <2> QED BY <2>3 DEF Promise!Next
  <1> QED BY <1>2, <1>3

(* Whoever a publication has called is one of its snapshot.                *)
LEMMA CalledInSnapshot ==
  ASSUME SyncInv, NEW p \in Publications, NEW s \in Subscribers, body[p][s] # "none"
  PROVE  /\ s \in AsyncForm <=> body[p][s] = "discarded"
         /\ \E i \in 1 .. Len(snapshot[p]) : snapshot[p][i] = s
  <1>1. Loop(p)
    BY DEF SyncInv
  <1>2. s \in Range(snapshot[p]) /\ (s \in AsyncForm <=> body[p][s] = "discarded")
    BY <1>1 DEF Loop
  <1>3. DOMAIN snapshot[p] = 1 .. Len(snapshot[p])
    BY DEF SyncInv, Types
  <1> QED BY <1>2, <1>3 DEF Range

LEMMA EndPromised ==
  ASSUME SyncInv, NEW p \in Publications, NEW how \in {"returned", "raised", "escaped"}, CallEnds(p, how)
  PROVE  Promise!Next
  <1>1. /\ InLoop(p) /\ body[p][Current(p)] = "running" /\ UNCHANGED <<registered, wired, snapshot>>
        /\ body' = [body EXCEPT ![p][Current(p)] = how]
    BY DEF CallEnds
  <1>2. Current(p) \in Promised
    BY <1>1, AtCurrent DEF SyncInv, Loop, Promised
  <1>3. /\ how = "escaped" => phase' = [phase EXCEPT ![p] = "escaped"]
        /\ how # "escaped" => phase' = phase
    BY DEF CallEnds, Contained
  <1>4. /\ Statuses[p] = "open"
        /\ Progresses' = [Progresses EXCEPT ![p][Current(p)] = Stands(how)]
        /\ Progresses[p][Current(p)] = "running"
    BY <1>1, <1>2, <1>3, CurrentPromised DEF Bodies, Stands, Promised
  <1>5. CASE how # "escaped"
    <2>1. Statuses' = Statuses
      BY <1>1, <1>3, <1>5, CurrentPromised DEF Bodies
    <2>2. Promise!End(p, Current(p))
      BY <1>1, <1>4, <1>5, <2>1 DEF Promise!End, Promise!Advance, Statuses, Progresses, Promised, Stands
    <2> QED BY <1>2, <2>2 DEF Promise!Next, Promised
  <1>6. CASE how = "escaped"
    <2>1. phase' # phase
      BY <1>1, <1>3, <1>6 DEF InLoop, SyncInv, Types
    <2>2. Statuses' = [Statuses EXCEPT ![p] = "stopped"]
      BY <1>1, <1>3, <1>6, <2>1, CurrentPromised DEF Bodies
    <2>3. \A s \in Promised : s # Current(p) => Progresses[p][s] # "running"
      <3> SUFFICES ASSUME NEW s \in Promised, s # Current(p), body[p][s] = "running" PROVE FALSE
        BY DEF Progresses, PromiseProgress
      <3>2. PICK i \in 1 .. Len(snapshot[p]) : snapshot[p][i] = s
        BY CalledInSnapshot DEF Promised
      <3>3. i # next[p] /\ next[p] \in Nat
        BY <1>1, <3>2, AtCurrent
      <3> QED BY <1>1, <3>2, <3>3 DEF SyncInv, Loop, InLoop, Settled
    <2>4. Promise!CloseAs(p, "stopped", [Progresses[p] EXCEPT ![Current(p)] = "raised"])
      BY <1>1, <1>4, <2>2, <2>3 DEF Promise!CloseAs, Statuses, Progresses, Promised
    <2>5. Promise!Advance(p, Current(p), "running", "raised")
      BY <1>4, <1>6 DEF Promise!Advance, Progresses, Promised, Stands
    <2>6. Promise!Abort(p, Current(p))
      BY <2>4, <2>5 DEF Promise!Abort, Progresses, Promised
    <2> QED BY <1>2, <2>6 DEF Promise!Next, Promised
  <1> QED BY <1>5, <1>6

LEMMA ReturnPromised ==
  ASSUME SyncInv, NEW p \in Publications, Return(p)
  PROVE  Promise!Next
  <1>1. /\ phase[p] = "calling" /\ next[p] > Len(snapshot[p]) /\ phase' = [phase EXCEPT ![p] = Verdict(p)]
        /\ UNCHANGED <<registered, wired, snapshot, body>>
    BY DEF Return
  <1> DEFINE verdict == IF exceptions[p] # <<>> THEN "failed" ELSE "delivered"
  <1>2. \A q \in Publications : PromiseStatus(q)' = IF q = p THEN verdict ELSE PromiseStatus(q)
    BY <1>1 DEF PromiseStatus, Missing, Verdict, SyncInv, Types
  <1>3. PromiseStatus(p) = "open"
    BY <1>1 DEF PromiseStatus
  <1>4. \A q \in Publications, s \in Promised : PromiseProgress(q, s)' = PromiseProgress(q, s)
    BY <1>1, <1>2, <1>3 DEF PromiseProgress
  <1>5. Statuses' = [Statuses EXCEPT ![p] = verdict] /\ Statuses[p] = "open" /\ Progresses' = Progresses
    BY <1>2, <1>3, <1>4 DEF Statuses, Progresses
  <1>6. \A s \in Promised : Progresses[p][s] \notin {"running", "due"}
    <2> SUFFICES ASSUME NEW s \in Promised, s \in Range(snapshot[p]) PROVE body[p][s] \notin {"running", "none"}
      <3>1. \A r \in Promised :
              /\ r \notin Range(snapshot[p]) => Progresses[p][r] = "unaddressed"
              /\ Progresses[p][r] = "running" => body[p][r] = "running"
              /\ Progresses[p][r] = "due" /\ r \in Range(snapshot[p]) => body[p][r] \in {"none", "due"}
        BY <1>3 DEF Progresses, PromiseProgress
      <3>2. \A s \in Subscribers : body[p][s] # "due"
        BY DEF SyncInv, Types, Bodies
      <3> QED BY <3>1, <3>2 DEF Promised
    <2>1. DOMAIN snapshot[p] = 1 .. Len(snapshot[p]) /\ Len(snapshot[p]) \in Nat /\ next[p] \in Nat
      BY DEF SyncInv, Types
    <2>2. PICK i \in 1 .. Len(snapshot[p]) : snapshot[p][i] = s
      BY <2>1 DEF Range
    <2>3. i < next[p]
      BY <1>1, <2>1
    <2> QED BY <1>1, <2>2, <2>3 DEF SyncInv, Loop, Settled
  <1>7. exceptions[p] # <<>> <=> \E s \in Promised : Progresses[p][s] = "raised"
    <2>1. \A s \in Subscribers : /\ body[p][s] # "escaped"
                                 /\ body[p][s] = "raised" => s \in Promised /\ s \in Range(snapshot[p])
      <3> SUFFICES ASSUME NEW s \in Subscribers, body[p][s] # "none"
                   PROVE  /\ body[p][s] # "escaped"
                          /\ body[p][s] = "raised" => s \in Promised /\ s \in Range(snapshot[p])
        OBVIOUS
      <3>1. Len(snapshot[p]) \in Nat /\ next[p] \in Nat
        BY DEF SyncInv, Types
      <3>2. PICK i \in 1 .. Len(snapshot[p]) : snapshot[p][i] = s
        BY CalledInSnapshot
      <3>3. body[p][s] \in Settled
        BY <1>1, <3>1, <3>2 DEF SyncInv, Loop
      <3>4. s \in Range(snapshot[p])
        BY DEF SyncInv, Loop
      <3> QED BY <3>3, <3>4, CalledInSnapshot DEF Settled, Promised
    <2>2. \A s \in Promised : Progresses[p][s] = "raised" <=> body[p][s] = "raised"
      BY <1>3, <2>1 DEF Progresses, PromiseProgress, Promised
    <2>3. exceptions[p] # <<>> <=> \E s \in Subscribers : body[p][s] = "raised"
      BY DEF SyncInv, Loop
    <2> QED BY <2>1, <2>2, <2>3 DEF Promised
  <1>8. Promise!CloseAs(p, verdict, Progresses[p])
    BY <1>1, <1>5, <1>6, <1>7 DEF Promise!CloseAs, Statuses, Promised
  <1>9. Promise!Close(p)
    BY <1>5, <1>8 DEF Promise!Close, Progresses, Promised
  <1> QED BY <1>9 DEF Promise!Next

LEMMA StepPromised == SyncInv /\ [Next]_vars => [Promise!Next]_(Promise!vars)
  <1> SUFFICES ASSUME SyncInv, [Next]_vars PROVE [Promise!Next]_(Promise!vars)
    OBVIOUS
  <1>1. ASSUME NEW s \in Subscribers, Subscribe(s) PROVE [Promise!Next]_(Promise!vars)
    <2>1. \A q \in Publications : PromiseStatus(q)' = PromiseStatus(q)
      BY <1>1 DEF Subscribe, PromiseStatus, Missing
    <2>2. \A q \in Publications, r \in Promised : PromiseProgress(q, r)' = PromiseProgress(q, r)
      BY <1>1, <2>1 DEF Subscribe, PromiseProgress
    <2>3. Statuses' = Statuses /\ Progresses' = Progresses
      BY <2>1, <2>2 DEF Statuses, Progresses
    <2>4. Range(registered') = Range(registered) \cup {s}
      <3>1. /\ DOMAIN registered = 1 .. Len(registered) /\ Len(registered) \in Nat
            /\ registered' = Append(registered, s) /\ registered \in Seq(Subscribers)
        BY <1>1 DEF Subscribe, SyncInv, Types
      <3>2. /\ DOMAIN registered' = 1 .. Len(registered) + 1 /\ registered'[Len(registered) + 1] = s
            /\ \A i \in 1 .. Len(registered) : registered'[i] = registered[i]
        BY <3>1
      <3>3. 1 .. Len(registered) + 1 = 1 .. Len(registered) \cup {Len(registered) + 1}
        BY <3>1
      <3> QED BY <3>1, <3>2, <3>3 DEF Range
    <2>5. CASE s \in AsyncForm
      <3>1. Range(registered') \ AsyncForm = Range(registered) \ AsyncForm
        BY <2>4, <2>5
      <3> QED BY <2>3, <3>1 DEF Promise!vars, Statuses, Progresses, Promised
    <2>6. CASE s \notin AsyncForm
      <3>1. Range(registered') \ AsyncForm = (Range(registered) \ AsyncForm) \cup {s}
        BY <2>4, <2>6
      <3>2. Promise!Register(s) /\ s \in Subscribers \ AsyncForm
        BY <1>1, <2>3, <2>6, <3>1 DEF Subscribe, Promise!Register, Statuses, Progresses, Promised
      <3> QED BY <3>2 DEF Promise!Next
    <2> QED BY <2>5, <2>6
  <1>2. ASSUME NEW p \in Publications, Work(p) PROVE [Promise!Next]_(Promise!vars)
    BY <1>2, SnapshotPromised, ResolvePromised, CallPromised, EndPromised, ReturnPromised DEF Work
  <1>3. ASSUME UNCHANGED vars PROVE UNCHANGED Promise!vars
    BY <1>3 DEF vars, Promise!vars, PromiseStatus, PromiseProgress, Missing
  <1> QED BY <1>1, <1>2, <1>3 DEF Next

(* The synchronous publish delivers as the documentation's "Delivery and   *)
(* failures" says, for any number of publishing threads and of subscribers *)
(* of either form.                                                         *)
THEOREM Implements == Spec => ImplementsDelivery
  <1>1. Init => Promise!Init
    BY DEF Init, Promise!Init, PromiseStatus, PromiseProgress, Range
  <1> QED BY <1>1, StepPromised, InitInv, NextInv, PTL DEF Spec, ImplementsDelivery, Promise!Spec

-----------------------------------------------------------------------------
(* What has been called, wherever the publication has got to: the handlers *)
(* before its place are settled, those after it untouched, and what it     *)
(* collected is, in order, which of the handlers before its place raised.  *)
Failed(p) == {s \in Subscribers : body[p][s] = "raised"}
Before(p) == SubSeq(snapshot[p], 1, next[p] - 1)

Collected(p) ==
  /\ IsPrefix(snapshot[p], registered)
  /\ \A i \in 1 .. Len(snapshot[p]) :
       /\ i < next[p] => body[p][snapshot[p][i]] \in Settled
       /\ i > next[p] => body[p][snapshot[p][i]] = "none"
  /\ exceptions[p] = Selected(Before(p), Failed(p))
  /\ phase[p] \in {"idle", "resolving", "missing"} => next[p] = 1
  /\ phase[p] \in {"returned", "group"} => next[p] = Len(snapshot[p]) + 1

GroupInv == SyncInv /\ wired \subseteq Subscribers /\ \A p \in Publications : Collected(p)

LEMMA NothingBefore ==
  ASSUME NEW s \in Seq(Subscribers)
  PROVE  SubSeq(s, 1, 0) = <<>> /\ IsPrefix(s, s)
<1>1. IsPrefix(s, s)
  BY PrefixOf
<1>2. SubSeq(s, 1, 0) = <<>>
  <2>1. /\ SubSeq(s, 1, 0) \in Seq(Subscribers)
        /\ Len(SubSeq(s, 1, 0)) = 0
    OBVIOUS
  <2>. QED  BY <2>1, EmptySeq
<1>. QED  BY <1>1, <1>2

LEMMA GroupInit == Init => GroupInv
<1>. SUFFICES ASSUME Init PROVE GroupInv
  OBVIOUS
<1>1. ASSUME NEW p \in Publications PROVE Collected(p)
  <2>1. /\ snapshot[p] = <<>> /\ registered = <<>> /\ next[p] = 1 /\ exceptions[p] = <<>>
        /\ phase[p] = "idle"
    BY DEF Init
  <2>2. <<>> \in Seq(Subscribers) /\ Len(<<>>) = 0
    OBVIOUS
  <2>3. IsPrefix(<<>>, <<>>) /\ Before(p) = <<>>
    <3>1. IsPrefix(<<>>, <<>>) /\ SubSeq(<<>>, 1, 0) = <<>>
      BY <2>2, NothingBefore
    <3>2. next[p] - 1 = 0
      BY <2>1
    <3>. QED  BY <2>1, <3>1, <3>2 DEF Before
  <2>4. Selected(Before(p), Failed(p)) = <<>>
    BY <2>3, SelectedEmpty
  <2>. QED  BY <2>1, <2>2, <2>3, <2>4 DEF Collected
<1>. QED  BY <1>1, InitInv DEF Init, GroupInv

LEMMA OthersCollected ==
  ASSUME GroupInv, NEW p \in Publications, NEW q \in Publications, q # p, Work(p)
  PROVE  Collected(q)'
<1>1. /\ snapshot'[q] = snapshot[q] /\ next'[q] = next[q] /\ phase'[q] = phase[q]
      /\ body'[q] = body[q] /\ exceptions'[q] = exceptions[q] /\ registered' = registered
  BY DEF Work, Snapshot, Resolve, Call, CallEnds, Return, GroupInv, SyncInv, Types
<1>. QED  BY <1>1 DEF GroupInv, Collected, Before, Failed

(* The place moves on past a handler that has just been settled.           *)
LEMMA CollectedOn ==
  ASSUME GroupInv, NEW p \in Publications, InLoop(p), body[p][Current(p)] \in {"none", "running"},
         NEW how \in Settled, body' = [body EXCEPT ![p][Current(p)] = how],
         next' = [next EXCEPT ![p] = @ + 1], UNCHANGED <<registered, snapshot, phase>>,
         exceptions'[p] = IF how = "raised" THEN Append(exceptions[p], Current(p)) ELSE exceptions[p]
  PROVE  Collected(p)'
<1>1. /\ \A s \in Subscribers : body'[p][s] = IF s = Current(p) THEN how ELSE body[p][s]
      /\ next'[p] = next[p] + 1 /\ phase'[p] = "calling"
  BY AtCurrent DEF GroupInv, SyncInv, Types, InLoop
<1>2. /\ Current(p) \in Subscribers /\ snapshot[p] \in Seq(Subscribers)
      /\ next[p] \in 1 .. Len(snapshot[p]) /\ Len(snapshot[p]) \in Nat
      /\ \A i \in 1 .. Len(snapshot[p]) : snapshot[p][i] \in Subscribers /\ (snapshot[p][i] = Current(p) <=> i = next[p])
  BY AtCurrent DEF GroupInv, SyncInv, Types
<1>3. /\ Before(p) \in Seq(Subscribers) /\ Len(Before(p)) = next[p] - 1
      /\ \A i \in 1 .. Len(Before(p)) : Before(p)[i] = snapshot[p][i]
  BY <1>2, SubSeqProperties DEF Before
<1>4. Before(p)' = Append(Before(p), Current(p))
  <2> DEFINE longer == SubSeq(snapshot[p], 1, next[p])
             appended == Append(Before(p), Current(p))
  <2>1. Before(p)' = longer
    BY <1>1, <1>2 DEF Before
  <2>2. /\ longer \in Seq(Subscribers) /\ Len(longer) = next[p]
        /\ \A i \in 1 .. next[p] : longer[i] = snapshot[p][i]
    BY <1>2, SubSeqProperties
  <2>3. /\ appended \in Seq(Subscribers) /\ Len(appended) = next[p]
        /\ \A i \in 1 .. next[p] - 1 : appended[i] = snapshot[p][i]
        /\ appended[next[p]] = Current(p)
    BY <1>2, <1>3, AppendProperties
  <2>4. Current(p) = snapshot[p][next[p]]
    BY DEF Current
  <2>. HIDE DEF longer, appended
  <2>5. \A i \in 1 .. next[p] : longer[i] = appended[i]
    BY <1>2, <2>2, <2>3, <2>4
  <2>6. longer = appended
    BY <2>2, <2>3, <2>5, SeqEqual
  <2>. QED  BY <2>1, <2>6 DEF appended
<1>5. Selected(Before(p), Failed(p)') = Selected(Before(p), Failed(p))
  <2>1. \A i \in 1 .. Len(Before(p)) : Before(p)[i] \in Failed(p) <=> Before(p)[i] \in Failed(p)'
    BY <1>1, <1>2, <1>3 DEF Failed
  <2>. QED  BY <1>3, <2>1, SelectedSame
<1>6. Current(p) \in Failed(p)' <=> how = "raised"
  BY <1>1, <1>2 DEF Failed
<1>7. exceptions'[p] = Selected(Before(p)', Failed(p)')
  <2>1. exceptions[p] = Selected(Before(p), Failed(p)')
    BY <1>5 DEF GroupInv, Collected
  <2>2. Selected(Append(Before(p), Current(p)), Failed(p)') =
          IF Current(p) \in Failed(p)' THEN Append(Selected(Before(p), Failed(p)'), Current(p))
          ELSE Selected(Before(p), Failed(p)')
    BY <1>2, <1>3, SelectedAppend
  <2>. QED  BY <1>4, <1>6, <2>1, <2>2
<1>8. \A i \in 1 .. Len(snapshot[p]) :
        /\ i < next[p] + 1 => body'[p][snapshot[p][i]] \in Settled
        /\ i > next[p] + 1 => body'[p][snapshot[p][i]] = "none"
  <2> SUFFICES ASSUME NEW i \in 1 .. Len(snapshot[p])
               PROVE  /\ i < next[p] + 1 => body'[p][snapshot[p][i]] \in Settled
                      /\ i > next[p] + 1 => body'[p][snapshot[p][i]] = "none"
    OBVIOUS
  <2>1. /\ i < next[p] => body[p][snapshot[p][i]] \in Settled
        /\ i > next[p] => body[p][snapshot[p][i]] = "none"
    BY DEF GroupInv, Collected
  <2>2. body'[p][snapshot[p][i]] = IF i = next[p] THEN how ELSE body[p][snapshot[p][i]]
    BY <1>1, <1>2
  <2>. QED  BY <1>2, <2>1, <2>2
<1>9. IsPrefix(snapshot[p], registered)
  BY DEF GroupInv, Collected
<1>. QED  BY <1>1, <1>7, <1>8, <1>9 DEF Collected

(* A handler is entered, or raises what the loop lets through.             *)
LEMMA CollectedStays ==
  ASSUME GroupInv, NEW p \in Publications, InLoop(p), body[p][Current(p)] \in {"none", "running"},
         NEW how \in {"running", "escaped"}, body' = [body EXCEPT ![p][Current(p)] = how],
         phase'[p] \in {"calling", "escaped"}, UNCHANGED <<registered, snapshot, next, exceptions>>
  PROVE  Collected(p)'
<1>1. /\ \A s \in Subscribers : body'[p][s] = IF s = Current(p) THEN how ELSE body[p][s]
      /\ body[p][Current(p)] # "raised"
  BY AtCurrent DEF GroupInv, SyncInv, Types, InLoop
<1>2. /\ next[p] \in 1 .. Len(snapshot[p]) /\ Len(snapshot[p]) \in Nat
      /\ \A i \in 1 .. Len(snapshot[p]) : snapshot[p][i] \in Subscribers /\ (snapshot[p][i] = Current(p) <=> i = next[p])
  BY AtCurrent DEF GroupInv
<1>3. Failed(p)' = Failed(p) /\ Before(p)' = Before(p)
  BY <1>1 DEF Failed, Before
<1>4. \A i \in 1 .. Len(snapshot[p]) :
        i # next[p] => body'[p][snapshot[p][i]] = body[p][snapshot[p][i]]
  BY <1>1, <1>2
<1>. QED  BY <1>2, <1>3, <1>4 DEF GroupInv, Collected

LEMMA GroupNext == GroupInv /\ [Next]_vars => GroupInv'
<1>. SUFFICES ASSUME GroupInv, [Next]_vars PROVE GroupInv'
  OBVIOUS
<1>0. SyncInv' /\ wired' \subseteq Subscribers
  BY NextInv DEF GroupInv, Next, Work, Subscribe, Snapshot, Resolve, Call, CallEnds, Return, vars
<1>1. ASSUME UNCHANGED vars, NEW p \in Publications PROVE Collected(p)'
  BY <1>1 DEF vars, GroupInv, Collected, Before, Failed
<1>2. ASSUME NEW s \in Subscribers, Subscribe(s), NEW p \in Publications PROVE Collected(p)'
  <2>1. IsPrefix(snapshot[p], registered')
    BY <1>2, PrefixOfAppend DEF Subscribe, GroupInv, Collected, SyncInv, Types
  <2>. QED  BY <1>2, <2>1 DEF Subscribe, GroupInv, Collected, Before, Failed
<1>3. ASSUME NEW p \in Publications, Snapshot(p) PROVE Collected(p)'
  <2>1. /\ snapshot'[p] = registered /\ registered' = registered /\ phase'[p] = "resolving"
        /\ next'[p] = 1 /\ exceptions'[p] = exceptions[p] /\ body' = body /\ registered \in Seq(Subscribers)
    BY <1>3 DEF Snapshot, GroupInv, Collected, SyncInv, Types
  <2>2. exceptions[p] = <<>> /\ \A s \in Subscribers : body[p][s] = "none"
    BY <1>3 DEF Snapshot, GroupInv, SyncInv, Loop
  <2>3. Before(p)' = <<>> /\ IsPrefix(registered, registered)
    BY <2>1, NothingBefore DEF Before
  <2>4. Selected(Before(p)', Failed(p)') = <<>>
    BY <2>3, SelectedEmpty
  <2>5. \A i \in 1 .. Len(registered) : ~(i < 1) /\ body[p][registered[i]] = "none"
    BY <2>1, <2>2
  <2>. QED  BY <2>1, <2>2, <2>3, <2>4, <2>5 DEF Collected
<1>4. ASSUME NEW p \in Publications, Resolve(p) PROVE Collected(p)'
  <2>1. /\ UNCHANGED <<snapshot, registered, next, exceptions, body>> /\ next[p] = 1
        /\ phase[p] = "resolving"
        /\ phase'[p] = "returned" => Len(snapshot[p]) = 0
        /\ phase'[p] # "group"
    <3>1. /\ phase[p] = "resolving" /\ UNCHANGED <<snapshot, registered, next, exceptions, body>>
          /\ phase'[p] = IF Missing(snapshot[p]) # {} THEN "missing"
                         ELSE IF snapshot[p] = <<>> THEN "returned" ELSE "calling"
      BY <1>4 DEF Resolve, GroupInv, SyncInv, Types
    <3>. QED  BY <3>1 DEF GroupInv, Collected
  <2>2. Collected(p) /\ Before(p)' = Before(p) /\ Failed(p)' = Failed(p)
    BY <2>1 DEF GroupInv, Before, Failed
  <2>. QED  BY <2>1, <2>2 DEF Collected
<1>5. ASSUME NEW p \in Publications, Call(p) PROVE Collected(p)'
  <2>1. CASE Current(p) \in AsyncForm
    <3>1. /\ body' = [body EXCEPT ![p][Current(p)] = "discarded"] /\ next' = [next EXCEPT ![p] = @ + 1]
          /\ "discarded" \in Settled
      BY <1>5, <2>1 DEF Call, Settled
    <3>. QED  BY <1>5, <3>1, CollectedOn DEF Call
  <2>2. CASE Current(p) \notin AsyncForm
    <3>1. body' = [body EXCEPT ![p][Current(p)] = "running"] /\ next' = next /\ phase'[p] = "calling"
      BY <1>5, <2>2 DEF Call, InLoop
    <3>. QED  BY <1>5, <3>1, CollectedStays DEF Call
  <2>. QED  BY <2>1, <2>2
<1>6. ASSUME NEW p \in Publications, NEW how \in {"returned", "raised", "escaped"}, CallEnds(p, how)
      PROVE  Collected(p)'
  <2>1. CASE how = "escaped"
    <3>1. phase'[p] = "escaped" /\ UNCHANGED <<next, exceptions>>
      BY <1>6, <2>1 DEF CallEnds, Contained, GroupInv, SyncInv, Types
    <3>. QED  BY <1>6, <2>1, <3>1, CollectedStays DEF CallEnds
  <2>2. CASE how # "escaped"
    <3>1. /\ next' = [next EXCEPT ![p] = @ + 1] /\ phase' = phase /\ how \in Settled
          /\ exceptions' = IF how = "returned" THEN exceptions
                           ELSE [exceptions EXCEPT ![p] = Append(exceptions[p], Current(p))]
      BY <1>6, <2>2 DEF CallEnds, Contained, Collect, Settled
    <3>2. exceptions'[p] = IF how = "raised" THEN Append(exceptions[p], Current(p)) ELSE exceptions[p]
      BY <2>2, <3>1 DEF GroupInv, SyncInv, Types
    <3>. QED  BY <1>6, <3>1, <3>2, CollectedOn DEF CallEnds
  <2>. QED  BY <2>1, <2>2
<1>7. ASSUME NEW p \in Publications, Return(p) PROVE Collected(p)'
  <2>1. next[p] \in 1 .. Len(snapshot[p]) + 1 /\ Len(snapshot[p]) \in Nat
    BY DEF GroupInv, SyncInv, Loop, Types
  <2>2. /\ next[p] = Len(snapshot[p]) + 1 /\ UNCHANGED <<snapshot, registered, next, exceptions, body>>
        /\ phase'[p] \in {"group", "returned"}
    BY <1>7, <2>1 DEF Return, Verdict, GroupInv, SyncInv, Types
  <2>. QED  BY <2>2 DEF GroupInv, Collected, Before, Failed
<1>8. \A p \in Publications : Collected(p)'
  <2> SUFFICES ASSUME NEW q \in Publications PROVE Collected(q)'
    OBVIOUS
  <2>1. ASSUME NEW p \in Publications, Work(p) PROVE Collected(q)'
    <3>1. CASE q = p
      BY <2>1, <3>1, <1>3, <1>4, <1>5, <1>6, <1>7 DEF Work
    <3>2. CASE q # p
      BY <2>1, <3>2, OthersCollected
    <3>. QED  BY <3>1, <3>2
  <2>. QED  BY <1>1, <1>2, <2>1 DEF Next
<1>. QED  BY <1>0, <1>8 DEF GroupInv

LEMMA AlwaysGroupInv == Spec => []GroupInv
  BY GroupInit, GroupNext, PTL DEF Spec

(* Every failure of a synchronous publish is in the group it raises, once  *)
(* and in the order of registration, and a normal return had none, for any *)
(* number of threads and subscribers: the except clause of sync publish.   *)
THEOREM GroupIsComplete == Spec => []GroupCarriesEveryFailure
<1>1. GroupInv => GroupCarriesEveryFailure
  <2> SUFFICES ASSUME GroupInv, NEW p \in Publications, phase[p] \in {"returned", "group"}
               PROVE  exceptions[p] = Selected(snapshot[p], Failed(p))
    BY DEF GroupCarriesEveryFailure, Failed
  <2>1. next[p] - 1 = Len(snapshot[p]) /\ snapshot[p] \in Seq(Subscribers)
    BY DEF GroupInv, Collected, SyncInv, Types
  <2>2. Before(p) = snapshot[p]
    BY <2>1 DEF Before
  <2>. QED  BY <2>2 DEF GroupInv, Collected
<1>. QED  BY <1>1, AlwaysGroupInv, PTL

(* Every variable keeps its type, and a publication settles the handlers   *)
(* of its snapshot one after the other, in the order of registration.      *)
THEOREM Typed == Spec => []TypeOK
<1>1. GroupInv => TypeOK
  <2> SUFFICES ASSUME GroupInv PROVE TypeOK
    OBVIOUS
  <2>1. ASSUME NEW p \in Publications
        PROVE  /\ IsPrefix(snapshot[p], registered)
               /\ next[p] \in 1 .. Len(snapshot[p]) + 1
               /\ exceptions[p] \in Seq(Subscribers)
               /\ \A i \in DOMAIN snapshot[p] :
                    /\ i < next[p] => body[p][snapshot[p][i]] \in {"returned", "raised", "discarded"}
                    /\ i > next[p] => body[p][snapshot[p][i]] = "none"
    <3>1. DOMAIN snapshot[p] = 1 .. Len(snapshot[p])
      BY DEF GroupInv, SyncInv, Types
    <3>. QED  BY <3>1 DEF GroupInv, Collected, SyncInv, Types, Loop, Settled
  <2>. QED  BY <2>1 DEF TypeOK, GroupInv, SyncInv, Types
<1>. QED  BY <1>1, AlwaysGroupInv, PTL
===============================================================================
