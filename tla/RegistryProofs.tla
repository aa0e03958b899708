---------------------------- MODULE RegistryProofs ----------------------------
(***************************************************************************)
(* Proofs about Registry for any number of threads, classes and calls.     *)
(***************************************************************************)
EXTENDS Registry, FiniteSetTheorems, TLAPS

(* What the call in progress is about, by the point the thread has reached. *)
ArgInv ==
  \A t \in Threads :
    /\ pc[t] \in {"req_lock", "req_store"} => arg[t] \in RequestTypes /\ Declared[arg[t]] # None
    /\ pc[t] \in {"hd_get", "hd_lock", "hd_store"} => arg[t] \in HandlerClasses
    /\ pc[t] \in {"sub_lock", "sub_read", "sub_store"} => arg[t] \in SubscriberClasses
    /\ pc[t] \in {"lk_get", "lk_lock", "lk_keys"} => arg[t] \in RequestTypes

TypeArgInv == TypeOK /\ ArgInv

(* Every program counter the actions mention is a label.                    *)
LEMMA LabelSet ==
  /\ {"idle", "req_lock", "req_store", "hd_get", "hd_lock", "hd_store", "sub_lock", "sub_read",
      "sub_store", "lk_get", "lk_lock", "lk_keys"} \subseteq Labels
  /\ {"clr_h_lock", "clr_h_clear", "clr_n_lock", "clr_n_clear", "all_r_lock", "all_h_lock",
      "all_n_lock", "all_r_clear", "all_h_clear", "all_n_clear"} \subseteq Labels
  /\ {"st_r_lock", "st_h_lock", "st_n_lock", "st_r", "st_h", "st_n"} \subseteq Labels
  BY DEF Labels, WaitsFor, Holds

(* Likewise for the classes and for what can become of a definition.        *)
LEMMA ClassSets ==
  /\ RequestTypes \subseteq Classes
  /\ HandlerClasses \subseteq Classes
  /\ SubscriberClasses \subseteq Classes
  BY DEF Classes

LEMMA OutcomeSet ==
  /\ {"undefined", "defining", "defined", "registered", "rejected"} \subseteq Outcomes
  /\ {"duplicate", "asserted", "cleared"} \subseteq Outcomes
  BY DEF Outcomes

LEMMA InitTypes == Init => TypeArgInv
  <1> SUFFICES ASSUME Init PROVE TypeArgInv
    OBVIOUS
  <1>1. TypeOK
    BY LabelSet, OutcomeSet, SentinelAssumption DEF Init, TypeOK, Zeroes
  <1>2. ArgInv
    BY DEF Init, ArgInv
  <1> QED BY <1>1, <1>2 DEF TypeArgInv

(* The pieces actions are made of keep the variables they assign well typed. *)
LEMMA GotoTypes ==
  ASSUME TypeOK, NEW t \in Threads, NEW label \in Labels, Goto(t, label)
  PROVE  pc' \in [Threads -> Labels]
  BY DEF TypeOK, Goto

LEMMA BecameTypes ==
  ASSUME TypeOK, NEW c \in Classes, NEW result \in Outcomes, Became(c, result)
  PROVE  outcome' \in [Classes -> Outcomes]
  BY DEF TypeOK, Became

LEMMA ReleaseTypes ==
  ASSUME TypeOK, NEW held, Release(held)
  PROVE  lock' \in [Locks -> Threads \cup {None}]
  BY DEF TypeOK, Release

LEMMA ReturnTypes ==
  ASSUME TypeOK, NEW t \in Threads, Return(t)
  PROVE  /\ pc' \in [Threads -> Labels]
         /\ arg' \in [Threads -> Classes \cup {None}]
         /\ existing' \in [Threads -> Seq(SubscriberClasses)]
         /\ counts' \in [Threads -> [Locks -> Nat]]
  <1>1. Goto(t, "idle") /\ "idle" \in Labels
    BY LabelSet DEF Return
  <1> QED BY <1>1, GotoTypes DEF TypeOK, Return, Zeroes

LEMMA AcquireTypes ==
  ASSUME TypeOK, NEW t \in Threads, NEW from, NEW to \in Labels, Acquire(t, from, to)
  PROVE  TypeOK'
  BY GotoTypes DEF TypeOK, Acquire, registries, locals, history

LEMMA ForgetTypes ==
  ASSUME TypeOK, NEW classes, Forget(classes)
  PROVE  outcome' \in [Classes -> Outcomes]
  BY OutcomeSet DEF TypeOK, Forget

LEMMA ClearTypes ==
  ASSUME TypeOK, NEW t \in Threads, NEW from, NEW to \in Labels, NEW released,
         \/ ClearRequests(t, from, to)
         \/ ClearHandlers(t, from, released, to)
         \/ ClearNotifications(t, from, released)
  PROVE  TypeOK'
  <1>1. CASE ClearRequests(t, from, to)
    BY <1>1, GotoTypes DEF ClearRequests, TypeOK, locals, history
  <1>2. CASE ClearHandlers(t, from, released, to)
    BY <1>2, GotoTypes, ForgetTypes, ReleaseTypes DEF ClearHandlers, TypeOK, locals
  <1>3. CASE ClearNotifications(t, from, released)
    BY <1>3, ReturnTypes, ForgetTypes, ReleaseTypes DEF ClearNotifications, TypeOK
  <1> QED BY <1>1, <1>2, <1>3

LEMMA CountTypes == RequestCount \in Nat /\ HandlerCount \in Nat
  <1>1. /\ IsFiniteSet({q \in RequestTypes : responseOf[q] # None})
        /\ IsFiniteSet({q \in RequestTypes : handlerOf[q] # None})
    BY ClassAssumption, FS_Subset
  <1> QED BY <1>1, FS_CardinalityType DEF RequestCount, HandlerCount

LEMMA StepTypeOK == TypeArgInv /\ [Next]_vars => TypeOK'
  <1> SUFFICES ASSUME TypeArgInv, [Next]_vars PROVE TypeOK'
    OBVIOUS
  <1> USE LabelSet, ClassSets DEF TypeArgInv
  <1>1. ASSUME NEW t \in Threads, Begin(t) PROVE TypeOK'
    <2>1. ASSUME NEW q \in RequestTypes, DefineRequest(t, q) PROVE TypeOK'
      <3>1. outcome' \in [Classes -> Outcomes]
        BY <2>1, OutcomeSet DEF DefineRequest, Became, TypeOK
      <3>2. pc' \in [Threads -> Labels] /\ arg' \in [Threads -> Classes \cup {None}]
        BY <2>1 DEF DefineRequest, Goto, TypeOK
      <3> QED BY <2>1, <3>1, <3>2 DEF DefineRequest, TypeOK, registries
    <2>2. ASSUME NEW q \in RequestTypes, LookupHas(t, q) PROVE TypeOK'
      <3>1. calls' \in 0 .. MaxCalls
        BY <2>2, SentinelAssumption DEF LookupHas, CountCall, TypeOK
      <3>2. pc' \in [Threads -> Labels]
        BY <2>2 DEF LookupHas, Goto, TypeOK
      <3> QED BY <2>2, <3>1, <3>2 DEF LookupHas, TypeOK, registries
    <2>3. ASSUME NEW h \in HandlerClasses, DefineHandler(t, h) PROVE TypeOK'
      <3>1. outcome' \in [Classes -> Outcomes]
        BY <2>3, OutcomeSet DEF DefineHandler, Became, TypeOK
      <3>2. pc' \in [Threads -> Labels]
        BY <2>3 DEF DefineHandler, Goto, TypeOK
      <3> QED BY <2>3, <3>1, <3>2 DEF DefineHandler, TypeOK, registries
    <2>4. ASSUME NEW s \in SubscriberClasses, DefineSubscriber(t, s) PROVE TypeOK'
      <3>1. outcome' \in [Classes -> Outcomes]
        BY <2>4, OutcomeSet DEF DefineSubscriber, Became, TypeOK
      <3>2. pc' \in [Threads -> Labels]
        BY <2>4 DEF DefineSubscriber, Goto, TypeOK
      <3> QED BY <2>4, <3>1, <3>2 DEF DefineSubscriber, TypeOK, registries
    <2>5. ASSUME NEW u \in Utilities, BeginUtility(t, u) PROVE TypeOK'
      <3>1. calls' \in 0 .. MaxCalls
        BY <2>5, SentinelAssumption DEF BeginUtility, CountCall, TypeOK
      <3>2. pc' \in [Threads -> Labels]
        BY <2>5, GotoTypes, UtilityAssumption DEF BeginUtility
      <3> QED BY <2>5, <3>1, <3>2 DEF BeginUtility, TypeOK, registries, locals
    <2> QED BY <1>1, <2>1, <2>2, <2>3, <2>4, <2>5 DEF Begin
  <1>2. ASSUME NEW t \in Threads, Continue(t) PROVE TypeOK'
    <2>1. CASE \/ Acquire(t, "req_lock", "req_store")
               \/ Acquire(t, "hd_lock", "hd_store")
               \/ Acquire(t, "sub_lock", "sub_read")
               \/ Acquire(t, "lk_lock", "lk_keys")
      BY <2>1, AcquireTypes
    <2>2. CASE StoreResponse(t)
      <3>1. responseOf' \in [RequestTypes -> ResponseTypes \cup {None}]
        BY <2>2, DeclarationAssumption DEF StoreResponse, ArgInv, TypeOK
      <3>2. outcome' \in [Classes -> Outcomes]
        BY <2>2, OutcomeSet DEF StoreResponse, ArgInv, TypeOK, Became
      <3> QED BY <2>2, <3>1, <3>2, ReturnTypes, ReleaseTypes DEF StoreResponse, TypeOK
    <2>3. CASE CheckSignature(t)
      <3>1. outcome' \in [Classes -> Outcomes]
        BY <2>3, OutcomeSet DEF CheckSignature, ArgInv, TypeOK, Became
      <3>2. \/ Goto(t, "hd_lock") /\ UNCHANGED locals
            \/ Return(t)
        BY <2>3 DEF CheckSignature
      <3> QED BY <2>3, <3>1, <3>2, ReturnTypes, GotoTypes
              DEF CheckSignature, TypeOK, registries, locals
    <2>4. CASE RegisterHandler(t)
      <3>1. handlerOf' \in [RequestTypes -> HandlerClasses \cup {None}]
        BY <2>4 DEF RegisterHandler, ArgInv, TypeOK
      <3>2. outcome' \in [Classes -> Outcomes]
        BY <2>4, OutcomeSet DEF RegisterHandler, ArgInv, TypeOK, Became
      <3> QED BY <2>4, <3>1, <3>2, ReturnTypes, ReleaseTypes DEF RegisterHandler, TypeOK
    <2>5. CASE ReadSubscribers(t)
      <3>1. existing' \in [Threads -> Seq(SubscriberClasses)]
        BY <2>5, DeclarationAssumption DEF ReadSubscribers, ArgInv, TypeOK
      <3> QED BY <2>5, <3>1, GotoTypes DEF ReadSubscribers, TypeOK, registries, history
    <2>6. CASE StoreSubscribers(t)
      <3>1. subscribers' \in [NotificationTypes -> Seq(SubscriberClasses)]
        BY <2>6, DeclarationAssumption DEF StoreSubscribers, ArgInv, TypeOK
      <3>2. outcome' \in [Classes -> Outcomes]
        BY <2>6, OutcomeSet DEF StoreSubscribers, ArgInv, TypeOK, Became
      <3> QED BY <2>6, <3>1, <3>2, ReturnTypes, ReleaseTypes DEF StoreSubscribers, TypeOK
    <2>7. CASE LookupGet(t)
      <3>1. answer' \in [Threads -> HandlerClasses \cup {None, NotFound}]
        BY <2>7 DEF LookupGet, GetHandlerClass, ArgInv, TypeOK
      <3> QED BY <2>7, <3>1, ReturnTypes DEF LookupGet, TypeOK, registries, history
    <2>8. CASE LookupMiss(t)
      BY <2>8, ReturnTypes, ReleaseTypes DEF LookupMiss, TypeOK, registries, history
    <2>9. CASE ClearHandlerRegistry(t)
      BY <2>9, AcquireTypes, ClearTypes DEF ClearHandlerRegistry
    <2>10. CASE ClearAllRegistries(t)
      BY <2>10, AcquireTypes, ClearTypes DEF ClearAllRegistries
    <2>11. CASE GetRegistryStats(t)
      <3>1. ASSUME NEW from, NEW l \in Locks, NEW n \in Nat, NEW to \in Labels,
                   Count(t, from, l, n, to)
            PROVE  TypeOK'
        BY <3>1, GotoTypes DEF Count, TypeOK, registries, history
      <3>2. CASE CountLast(t)
        BY <3>2, ReturnTypes, ReleaseTypes DEF CountLast, TypeOK, registries, history
      <3> QED BY <2>11, <3>1, <3>2, AcquireTypes, CountTypes DEF GetRegistryStats, Locks
    <2> QED BY <1>2, <2>1, <2>2, <2>3, <2>4, <2>5, <2>6, <2>7, <2>8, <2>9, <2>10, <2>11
            DEF Continue
  <1>3. CASE UNCHANGED vars
    BY <1>3 DEF vars, TypeOK, registries, locals, history
  <1> QED BY <1>1, <1>2, <1>3 DEF Next

LEMMA StepArgInv == TypeArgInv /\ [Next]_vars => ArgInv'
  <1> SUFFICES ASSUME TypeArgInv, [Next]_vars PROVE ArgInv'
    OBVIOUS
  <1> USE DEF TypeArgInv, TypeOK, ArgInv, Goto, registries, locals, history
  <1>1. ASSUME NEW t \in Threads, Begin(t) PROVE ArgInv'
    <2>1. ASSUME NEW q \in RequestTypes, DefineRequest(t, q) PROVE ArgInv'
      BY <2>1 DEF DefineRequest
    <2>2. ASSUME NEW q \in RequestTypes, LookupHas(t, q) PROVE ArgInv'
      BY <2>2 DEF LookupHas, CountCall
    <2>3. ASSUME NEW h \in HandlerClasses, DefineHandler(t, h) PROVE ArgInv'
      BY <2>3 DEF DefineHandler
    <2>4. ASSUME NEW s \in SubscriberClasses, DefineSubscriber(t, s) PROVE ArgInv'
      BY <2>4 DEF DefineSubscriber
    <2>5. ASSUME NEW u \in Utilities, BeginUtility(t, u) PROVE ArgInv'
      BY <2>5, UtilityAssumption DEF BeginUtility, CountCall
    <2> QED BY <1>1, <2>1, <2>2, <2>3, <2>4, <2>5 DEF Begin
  <1>2. ASSUME NEW t \in Threads, Continue(t) PROVE ArgInv'
    <2>1. CASE Acquire(t, "req_lock", "req_store") \/ Acquire(t, "hd_lock", "hd_store")
      BY <2>1 DEF Acquire
    <2>2. CASE Acquire(t, "sub_lock", "sub_read") \/ Acquire(t, "lk_lock", "lk_keys")
      BY <2>2 DEF Acquire
    <2>3. CASE StoreResponse(t)
      BY <2>3 DEF StoreResponse, Release, Return
    <2>4. CASE CheckSignature(t)
      BY <2>4 DEF CheckSignature, Return
    <2>5. CASE RegisterHandler(t)
      BY <2>5 DEF RegisterHandler, Release, Return
    <2>6. CASE ReadSubscribers(t)
      BY <2>6 DEF ReadSubscribers
    <2>7. CASE StoreSubscribers(t)
      BY <2>7 DEF StoreSubscribers, Release, Return
    <2>8. CASE LookupGet(t) \/ LookupMiss(t)
      <3>1. CASE LookupGet(t)
        BY <3>1 DEF LookupGet, Return
      <3>2. CASE LookupMiss(t)
        BY <3>2 DEF LookupMiss, Return
      <3> QED BY <2>8, <3>1, <3>2
    <2>9. CASE ClearHandlerRegistry(t)
      BY <2>9 DEF ClearHandlerRegistry, Acquire, ClearHandlers, ClearNotifications,
              Forget, Release, Return
    <2>10. CASE ClearAllRegistries(t)
      BY <2>10 DEF ClearAllRegistries, Acquire, ClearRequests, ClearHandlers,
              ClearNotifications, Forget, Release, Return
    <2>11. CASE GetRegistryStats(t)
      BY <2>11 DEF GetRegistryStats, Acquire, Count, CountLast, RequestCount, HandlerCount, Release, Return
    <2> QED BY <1>2, <2>1, <2>2, <2>3, <2>4, <2>5, <2>6, <2>7, <2>8, <2>9, <2>10, <2>11 DEF Continue
  <1>3. CASE UNCHANGED vars
    BY <1>3 DEF vars, locals
  <1> QED BY <1>1, <1>2, <1>3 DEF Next

(* Type correctness: every registry, lock, local and result stays of its    *)
(* kind, for any number of threads and classes.                            *)
THEOREM TypeCorrect == Spec => [](TypeOK /\ ArgInv)
  BY InitTypes, StepTypeOK, StepArgInv, PTL DEF Spec, TypeArgInv

-----------------------------------------------------------------------------
(* A thread owns a lock exactly while it is inside one of its `with` blocks. *)
LockInv == \A t \in Threads, l \in Locks : pc[t] \in Holds(l) <=> lock[l] = t

(* Moving between two points that hold the same locks, entering a block and  *)
(* leaving some keep that correspondence.                                   *)
LEMMA StaySteps ==
  ASSUME TypeOK, LockInv, NEW t \in Threads, NEW to, Goto(t, to), UNCHANGED lock,
         \A l \in Locks : pc[t] \in Holds(l) <=> to \in Holds(l)
  PROVE  LockInv'
  BY DEF TypeOK, LockInv, Goto

LEMMA AcquireSteps ==
  ASSUME TypeOK, LockInv, NEW t \in Threads, NEW from, NEW to, Acquire(t, from, to),
         \A l \in Locks : to \in Holds(l) <=> (from \in Holds(l) \/ from \in WaitsFor(l)),
         \A k, l \in Locks : from \in WaitsFor(k) /\ from \in WaitsFor(l) => k = l
  PROVE  LockInv'
  BY SentinelAssumption DEF TypeOK, LockInv, Acquire, Goto

LEMMA ReleaseSteps ==
  ASSUME TypeOK, LockInv, NEW t \in Threads, NEW to, NEW held, Goto(t, to), Release(held),
         \A l \in Locks \cap held : pc[t] \in Holds(l),
         \A l \in Locks : to \in Holds(l) <=> (pc[t] \in Holds(l) /\ l \notin held)
  PROVE  LockInv'
  BY SentinelAssumption DEF TypeOK, LockInv, Release, Goto

(* The two tables, lock by lock.                                            *)
LEMMA HoldsTable ==
  /\ Holds("request") = {"req_store", "all_h_lock", "all_n_lock",
                         "all_r_clear", "all_h_clear", "all_n_clear",
                         "st_h_lock", "st_n_lock", "st_r", "st_h", "st_n"}
  /\ Holds("handler") = {"hd_store", "lk_keys", "clr_h_clear", "all_n_lock",
                         "all_r_clear", "all_h_clear", "all_n_clear",
                         "st_n_lock", "st_r", "st_h", "st_n"}
  /\ Holds("notification") = {"sub_read", "sub_store", "clr_n_clear",
                              "all_r_clear", "all_h_clear", "all_n_clear",
                              "st_r", "st_h", "st_n"}
  BY DEF Holds

LEMMA WaitsTable ==
  /\ WaitsFor("request") = {"req_lock", "all_r_lock", "st_r_lock"}
  /\ WaitsFor("handler") = {"hd_lock", "lk_lock", "clr_h_lock", "all_h_lock", "st_h_lock"}
  /\ WaitsFor("notification") = {"sub_lock", "clr_n_lock", "all_n_lock", "st_n_lock"}
  BY DEF WaitsFor

LEMMA StepLockInv == TypeOK /\ LockInv /\ [Next]_vars => LockInv'
  <1> SUFFICES ASSUME TypeOK, LockInv, [Next]_vars PROVE LockInv'
    OBVIOUS
  <1> USE HoldsTable DEF Locks
  <1>1. ASSUME NEW t \in Threads, Begin(t) PROVE LockInv'
    <2>1. ASSUME NEW q \in RequestTypes, DefineRequest(t, q) PROVE LockInv'
      BY <2>1, StaySteps DEF DefineRequest, LockInv
    <2>2. ASSUME NEW q \in RequestTypes, LookupHas(t, q) PROVE LockInv'
      BY <2>2, StaySteps DEF LookupHas
    <2>3. ASSUME NEW h \in HandlerClasses, DefineHandler(t, h) PROVE LockInv'
      BY <2>3, StaySteps DEF DefineHandler, LockInv
    <2>4. ASSUME NEW s \in SubscriberClasses, DefineSubscriber(t, s) PROVE LockInv'
      BY <2>4, StaySteps DEF DefineSubscriber, LockInv
    <2>5. ASSUME NEW u \in Utilities, BeginUtility(t, u) PROVE LockInv'
      BY <2>5, StaySteps, UtilityAssumption DEF BeginUtility
    <2> QED BY <1>1, <2>1, <2>2, <2>3, <2>4, <2>5 DEF Begin
  <1>2. ASSUME NEW t \in Threads, Continue(t) PROVE LockInv'
    <2>1. CASE \/ Acquire(t, "req_lock", "req_store")
               \/ Acquire(t, "hd_lock", "hd_store")
               \/ Acquire(t, "sub_lock", "sub_read")
               \/ Acquire(t, "lk_lock", "lk_keys")
      BY <2>1, AcquireSteps, WaitsTable
    <2>2. CASE StoreResponse(t)
      BY <2>2, ReleaseSteps DEF StoreResponse, Return
    <2>3. CASE CheckSignature(t)
      BY <2>3, StaySteps DEF CheckSignature, Return
    <2>4. CASE RegisterHandler(t)
      BY <2>4, ReleaseSteps DEF RegisterHandler, Return
    <2>5. CASE ReadSubscribers(t)
      BY <2>5, StaySteps DEF ReadSubscribers
    <2>6. CASE StoreSubscribers(t)
      BY <2>6, ReleaseSteps DEF StoreSubscribers, Return
    <2>7. CASE LookupGet(t)
      BY <2>7, StaySteps DEF LookupGet, Return
    <2>8. CASE LookupMiss(t)
      BY <2>8, ReleaseSteps DEF LookupMiss, Return
    <2>9. CASE ClearHandlerRegistry(t)
      <3>1. CASE \/ Acquire(t, "clr_h_lock", "clr_h_clear")
                 \/ Acquire(t, "clr_n_lock", "clr_n_clear")
        BY <3>1, AcquireSteps, WaitsTable
      <3>2. CASE ClearHandlers(t, "clr_h_clear", {"handler"}, "clr_n_lock")
        BY <3>2, ReleaseSteps DEF ClearHandlers
      <3>3. CASE ClearNotifications(t, "clr_n_clear", {"notification"})
        BY <3>3, ReleaseSteps DEF ClearNotifications, Return
      <3> QED BY <2>9, <3>1, <3>2, <3>3 DEF ClearHandlerRegistry
    <2>10. CASE ClearAllRegistries(t)
      <3>1. CASE \/ Acquire(t, "all_r_lock", "all_h_lock")
                 \/ Acquire(t, "all_h_lock", "all_n_lock")
                 \/ Acquire(t, "all_n_lock", "all_r_clear")
        BY <3>1, AcquireSteps, WaitsTable
      <3>2. CASE ClearRequests(t, "all_r_clear", "all_h_clear")
        BY <3>2, StaySteps DEF ClearRequests
      <3>3. CASE ClearHandlers(t, "all_h_clear", {}, "all_n_clear")
        BY <3>3, ReleaseSteps DEF ClearHandlers
      <3>4. CASE ClearNotifications(t, "all_n_clear", Locks)
        BY <3>4, ReleaseSteps DEF ClearNotifications, Return
      <3> QED BY <2>10, <3>1, <3>2, <3>3, <3>4 DEF ClearAllRegistries
    <2>11. CASE GetRegistryStats(t)
      <3>1. CASE \/ Acquire(t, "st_r_lock", "st_h_lock")
                 \/ Acquire(t, "st_h_lock", "st_n_lock")
                 \/ Acquire(t, "st_n_lock", "st_r")
        BY <3>1, AcquireSteps, WaitsTable
      <3>2. CASE \/ Count(t, "st_r", "request", RequestCount, "st_h")
                 \/ Count(t, "st_h", "handler", HandlerCount, "st_n")
        BY <3>2, StaySteps DEF Count
      <3>3. CASE CountLast(t)
        BY <3>3, ReleaseSteps DEF CountLast, Return
      <3> QED BY <2>11, <3>1, <3>2, <3>3 DEF GetRegistryStats
    <2> QED BY <1>2, <2>1, <2>2, <2>3, <2>4, <2>5, <2>6, <2>7, <2>8, <2>9, <2>10, <2>11
            DEF Continue
  <1>3. CASE UNCHANGED vars
    BY <1>3 DEF vars, LockInv
  <1> QED BY <1>1, <1>2, <1>3 DEF Next

(* A thread owns each registry lock exactly inside its `with` blocks; in     *)
(* particular no two threads are in blocks of the same lock.                *)
THEOREM LocksCorrect == Spec => []LockInv
  <1>1. Init => LockInv
    BY HoldsTable, SentinelAssumption DEF Init, LockInv, Locks
  <1> QED BY <1>1, StepLockInv, TypeCorrect, PTL DEF Spec

(* The lock order request, handler, notification: whoever owns the last of   *)
(* the locks in use waits for nothing.                                      *)
THEOREM DeadlockFree == Spec => []NoDeadlock
  <1>1. TypeOK /\ LockInv => NoDeadlock
    <2> SUFFICES ASSUME TypeOK, LockInv PROVE NoDeadlock
      OBVIOUS
    <2>1. ASSUME NEW l \in Locks, lock[l] # None
          PROVE  lock[l] \in Threads /\ pc[lock[l]] \in Holds(l)
      BY <2>1 DEF TypeOK, LockInv
    <2>2. CASE lock["notification"] # None
      <3>1. ~Blocked(lock["notification"])
        BY <2>1, <2>2, HoldsTable, WaitsTable DEF Blocked, Locks
      <3> QED BY <2>1, <2>2, <3>1 DEF NoDeadlock, Locks
    <2>3. CASE lock["notification"] = None /\ lock["handler"] # None
      <3>1. ~Blocked(lock["handler"])
        BY <2>1, <2>3, HoldsTable, WaitsTable DEF Blocked, Locks
      <3> QED BY <2>1, <2>3, <3>1 DEF NoDeadlock, Locks
    <2>4. CASE lock["notification"] = None /\ lock["handler"] = None /\ lock["request"] # None
      <3>1. ~Blocked(lock["request"])
        BY <2>1, <2>4, HoldsTable, WaitsTable DEF Blocked, Locks
      <3> QED BY <2>1, <2>4, <3>1 DEF NoDeadlock, Locks
    <2>5. CASE \A l \in Locks : lock[l] = None
      BY <2>5, ThreadAssumption DEF NoDeadlock, Blocked
    <2> QED BY <2>2, <2>3, <2>4, <2>5 DEF Locks
  <1> QED BY <1>1, LocksCorrect, TypeCorrect, PTL

-----------------------------------------------------------------------------
(* What a thread has read under a lock is what is stored for as long as it  *)
(* holds that lock: the tuple of subscribers it is about to extend, and the *)
(* counts it is about to report.                                           *)
FreshInv ==
  \A t \in Threads :
    /\ pc[t] = "sub_store" => existing[t] = subscribers[Subscribes[arg[t]]]
    /\ pc[t] \in {"st_h", "st_n"} => counts[t]["request"] = RequestCount
    /\ pc[t] = "st_n" => counts[t]["handler"] = HandlerCount

(* A registry changes only under its lock, so never under a reader.         *)
LEMMA OtherSteps ==
  ASSUME TypeOK, LockInv, FreshInv, NEW t \in Threads, NEW to, Goto(t, to),
         to \notin {"sub_store", "st_h", "st_n"},
         \A u \in Threads \ {t} :
           arg'[u] = arg[u] /\ existing'[u] = existing[u] /\ counts'[u] = counts[u],
         responseOf' = responseOf \/ pc[t] \in Holds("request"),
         handlerOf' = handlerOf \/ pc[t] \in Holds("handler"),
         subscribers' = subscribers \/ pc[t] \in Holds("notification")
  PROVE  FreshInv'
  <1>1. ASSUME NEW l \in Locks, NEW u \in Threads \ {t}, pc[t] \in Holds(l), pc[u] \in Holds(l)
        PROVE  FALSE
    BY <1>1 DEF LockInv
  <1>2. ASSUME NEW u \in Threads \ {t} PROVE pc'[u] = pc[u]
    BY DEF Goto, TypeOK
  <1>3. pc'[t] = to
    BY DEF Goto, TypeOK
  <1>4. ASSUME NEW u \in Threads \ {t}, pc[u] = "sub_store" PROVE subscribers' = subscribers
    BY <1>1, <1>4, HoldsTable DEF Locks
  <1>5. ASSUME NEW u \in Threads \ {t}, pc[u] \in {"st_h", "st_n"} PROVE RequestCount' = RequestCount
    BY <1>1, <1>5, HoldsTable DEF Locks, RequestCount
  <1>6. ASSUME NEW u \in Threads \ {t}, pc[u] = "st_n" PROVE HandlerCount' = HandlerCount
    BY <1>1, <1>6, HoldsTable DEF Locks, HandlerCount
  <1> QED BY <1>2, <1>3, <1>4, <1>5, <1>6 DEF FreshInv

LEMMA StepFreshInv == TypeOK /\ LockInv /\ FreshInv /\ [Next]_vars => FreshInv'
  <1> SUFFICES ASSUME TypeOK, LockInv, FreshInv, [Next]_vars PROVE FreshInv'
    OBVIOUS
  <1> USE HoldsTable DEF registries, locals
  <1>1. ASSUME NEW t \in Threads, Begin(t) PROVE FreshInv'
    <2>1. ASSUME NEW q \in RequestTypes, DefineRequest(t, q) PROVE FreshInv'
      <3>1. CASE UNCHANGED <<pc, arg>>
        BY <2>1, <3>1 DEF DefineRequest, FreshInv, RequestCount, HandlerCount
      <3>2. CASE Goto(t, "req_lock") /\ arg' = [arg EXCEPT ![t] = q]
        BY <2>1, <3>2, OtherSteps DEF DefineRequest, TypeOK
      <3> QED BY <2>1, <3>1, <3>2 DEF DefineRequest
    <2>2. ASSUME NEW q \in RequestTypes, LookupHas(t, q) PROVE FreshInv'
      BY <2>2, OtherSteps DEF LookupHas, TypeOK
    <2>3. ASSUME NEW h \in HandlerClasses, DefineHandler(t, h) PROVE FreshInv'
      <3>1. CASE UNCHANGED <<pc, arg>>
        BY <2>3, <3>1 DEF DefineHandler, FreshInv, RequestCount, HandlerCount
      <3>2. CASE Goto(t, "hd_get") /\ arg' = [arg EXCEPT ![t] = h]
        BY <2>3, <3>2, OtherSteps DEF DefineHandler, TypeOK
      <3> QED BY <2>3, <3>1, <3>2 DEF DefineHandler
    <2>4. ASSUME NEW s \in SubscriberClasses, DefineSubscriber(t, s) PROVE FreshInv'
      <3>1. CASE UNCHANGED <<pc, arg>>
        BY <2>4, <3>1 DEF DefineSubscriber, FreshInv, RequestCount, HandlerCount
      <3>2. CASE Goto(t, "sub_lock") /\ arg' = [arg EXCEPT ![t] = s]
        BY <2>4, <3>2, OtherSteps DEF DefineSubscriber, TypeOK
      <3> QED BY <2>4, <3>1, <3>2 DEF DefineSubscriber
    <2>5. ASSUME NEW u \in Utilities, BeginUtility(t, u) PROVE FreshInv'
      BY <2>5, OtherSteps, UtilityAssumption DEF BeginUtility
    <2> QED BY <1>1, <2>1, <2>2, <2>3, <2>4, <2>5 DEF Begin
  <1>2. ASSUME NEW t \in Threads, Continue(t) PROVE FreshInv'
    <2>1. ASSUME NEW from, NEW to, Acquire(t, from, to), to \notin {"sub_store", "st_h", "st_n"}
          PROVE  FreshInv'
      BY <2>1, OtherSteps DEF Acquire
    <2>2. CASE StoreResponse(t)
      BY <2>2, OtherSteps DEF StoreResponse, Return, TypeOK
    <2>3. CASE CheckSignature(t)
      BY <2>3, OtherSteps DEF CheckSignature, Return, TypeOK
    <2>4. CASE RegisterHandler(t)
      BY <2>4, OtherSteps DEF RegisterHandler, Return, TypeOK
    <2>5. CASE ReadSubscribers(t)
      BY <2>5 DEF ReadSubscribers, Goto, TypeOK, FreshInv, RequestCount, HandlerCount
    <2>6. CASE StoreSubscribers(t)
      BY <2>6, OtherSteps DEF StoreSubscribers, Return, TypeOK
    <2>7. CASE LookupGet(t)
      BY <2>7, OtherSteps DEF LookupGet, Return, TypeOK
    <2>8. CASE LookupMiss(t)
      BY <2>8, OtherSteps DEF LookupMiss, Return, TypeOK
    <2>9. ASSUME NEW from \in {"clr_h_clear", "all_h_clear"}, NEW held,
                 NEW to \in {"clr_n_lock", "all_n_clear"}, ClearHandlers(t, from, held, to)
          PROVE  FreshInv'
      BY <2>9, OtherSteps DEF ClearHandlers
    <2>10. ASSUME NEW from \in {"clr_n_clear", "all_n_clear"}, NEW held,
                  ClearNotifications(t, from, held)
           PROVE  FreshInv'
      BY <2>10, OtherSteps DEF ClearNotifications, Return, TypeOK
    <2>11. CASE ClearRequests(t, "all_r_clear", "all_h_clear")
      BY <2>11, OtherSteps DEF ClearRequests
    <2>12. CASE Count(t, "st_r", "request", RequestCount, "st_h")
      <3>1. pc'[t] = "st_h" /\ counts'[t]["request"] = RequestCount
        BY <2>12 DEF Count, Goto, TypeOK, Locks
      <3>2. ASSUME NEW u \in Threads \ {t} PROVE pc'[u] = pc[u] /\ counts'[u] = counts[u]
        BY <2>12 DEF Count, Goto, TypeOK
      <3>3. RequestCount' = RequestCount /\ HandlerCount' = HandlerCount
        BY <2>12 DEF Count, RequestCount, HandlerCount
      <3> QED BY <2>12, <3>1, <3>2, <3>3 DEF Count, FreshInv
    <2>13. CASE Count(t, "st_h", "handler", HandlerCount, "st_n")
      <3>1. /\ pc'[t] = "st_n"
            /\ counts'[t]["handler"] = HandlerCount
            /\ counts'[t]["request"] = counts[t]["request"]
        BY <2>13 DEF Count, Goto, TypeOK, Locks
      <3>2. ASSUME NEW u \in Threads \ {t} PROVE pc'[u] = pc[u] /\ counts'[u] = counts[u]
        BY <2>13 DEF Count, Goto, TypeOK
      <3>3. RequestCount' = RequestCount /\ HandlerCount' = HandlerCount
        BY <2>13 DEF Count, RequestCount, HandlerCount
      <3>4. counts[t]["request"] = RequestCount
        BY <2>13 DEF Count, FreshInv
      <3> QED BY <2>13, <3>1, <3>2, <3>3, <3>4 DEF Count, FreshInv
    <2>14. CASE CountLast(t)
      BY <2>14, OtherSteps DEF CountLast, Return, TypeOK
    <2>15. CASE ClearHandlerRegistry(t) \/ ClearAllRegistries(t)
      BY <2>15, <2>1, <2>9, <2>10, <2>11 DEF ClearHandlerRegistry, ClearAllRegistries
    <2>16. CASE GetRegistryStats(t)
      BY <2>16, <2>1, <2>12, <2>13, <2>14 DEF GetRegistryStats
    <2> QED BY <1>2, <2>1, <2>2, <2>3, <2>4, <2>5, <2>6, <2>7, <2>8, <2>15, <2>16 DEF Continue
  <1>3. CASE UNCHANGED vars
    BY <1>3 DEF vars, FreshInv, RequestCount, HandlerCount
  <1> QED BY <1>1, <1>2, <1>3 DEF Next

(* What a thread has read inside a `with` block still holds until it leaves *)
(* the block: only the owner of a registry's lock changes the registry.     *)
THEOREM ReadsStayFresh == Spec => []FreshInv
  <1>1. Init => FreshInv
    BY DEF Init, FreshInv
  <1> QED BY <1>1, StepFreshInv, TypeCorrect, LocksCorrect, PTL DEF Spec

(* get_registry_stats reports counts that all hold when it reads the last.  *)
THEOREM StatsCorrect == Spec => []StatsConsistent
  <1>1. FreshInv => StatsConsistent
    BY DEF FreshInv, StatsConsistent
  <1> QED BY <1>1, ReadsStayFresh, PTL

(* The steps that touch subscribers and handlerOf, the others left aside.   *)
LEMMA WhoSubscribes ==
  ASSUME [Next]_vars, subscribers' # subscribers
  PROVE  \E t \in Threads :
           StoreSubscribers(t) \/ subscribers' = [n \in NotificationTypes |-> << >>]
  <1> USE DEF registries
  <1>1. PICK t \in Threads : Begin(t) \/ Continue(t)
    BY DEF Next, vars
  <1>2. Continue(t)
    BY <1>1 DEF Begin, DefineRequest, LookupHas, DefineHandler, DefineSubscriber, BeginUtility
  <1>3. \/ StoreSubscribers(t)
        \/ ClearHandlerRegistry(t) \/ ClearAllRegistries(t)
    BY <1>2 DEF Continue, Acquire, StoreResponse, CheckSignature, RegisterHandler,
                ReadSubscribers, LookupGet, LookupMiss, GetRegistryStats, Count, CountLast
  <1> QED BY <1>3 DEF ClearHandlerRegistry, ClearAllRegistries, Acquire, ClearHandlers,
                      ClearRequests, ClearNotifications

LEMMA WhoHandles ==
  ASSUME [Next]_vars, handlerOf' # handlerOf
  PROVE  \E t \in Threads :
           RegisterHandler(t) \/ handlerOf' = [q \in RequestTypes |-> None]
  <1> USE DEF registries
  <1>1. PICK t \in Threads : Begin(t) \/ Continue(t)
    BY DEF Next, vars
  <1>2. Continue(t)
    BY <1>1 DEF Begin, DefineRequest, LookupHas, DefineHandler, DefineSubscriber, BeginUtility
  <1>3. \/ RegisterHandler(t)
        \/ ClearHandlerRegistry(t) \/ ClearAllRegistries(t)
    BY <1>2 DEF Continue, Acquire, StoreResponse, CheckSignature, StoreSubscribers,
                ReadSubscribers, LookupGet, LookupMiss, GetRegistryStats, Count, CountLast
  <1> QED BY <1>3 DEF ClearHandlerRegistry, ClearAllRegistries, Acquire, ClearHandlers,
                      ClearRequests, ClearNotifications

(* No registration of a subscriber is lost, and no cleared one comes back.  *)
THEOREM NoLostSubscription == Spec => SubscriptionsAppendOnly
  <1> DEFINE Grows(n) ==
        \/ subscribers'[n] \in {subscribers[n], << >>}
        \/ \E s \in SubscriberClasses : subscribers'[n] = Append(subscribers[n], s)
  <1>1. TypeArgInv /\ FreshInv /\ [Next]_vars => [\A n \in NotificationTypes : Grows(n)]_subscribers
    <2> SUFFICES ASSUME TypeArgInv, FreshInv, [Next]_vars, subscribers' # subscribers
                 PROVE  \A n \in NotificationTypes : Grows(n)
      OBVIOUS
    <2>1. PICK t \in Threads :
            StoreSubscribers(t) \/ subscribers' = [n \in NotificationTypes |-> << >>]
      BY WhoSubscribes
    <2>2. CASE StoreSubscribers(t)
      <3>1. arg[t] \in SubscriberClasses /\ existing[t] = subscribers[Subscribes[arg[t]]]
        BY <2>2 DEF TypeArgInv, ArgInv, FreshInv, StoreSubscribers
      <3>2. subscribers' = [subscribers EXCEPT
              ![Subscribes[arg[t]]] = Append(subscribers[Subscribes[arg[t]]], arg[t])]
        BY <2>2, <3>1 DEF StoreSubscribers
      <3> QED BY <3>1, <3>2 DEF TypeArgInv, TypeOK
    <2> QED BY <2>1, <2>2
  <1> QED BY <1>1, TypeCorrect, ReadsStayFresh, PTL DEF Spec, TypeArgInv, SubscriptionsAppendOnly

(* Once a request type has a handler, only a clear takes it away.           *)
THEOREM OneHandler == Spec => HandlerNeverReplaced
  <1>1. TypeArgInv /\ [Next]_vars =>
          [\A q \in RequestTypes :
             handlerOf[q] # None => handlerOf'[q] \in {handlerOf[q], None}]_handlerOf
    <2> SUFFICES ASSUME TypeArgInv, [Next]_vars, handlerOf' # handlerOf, NEW q \in RequestTypes,
                        handlerOf[q] # None
                 PROVE  handlerOf'[q] \in {handlerOf[q], None}
      OBVIOUS
    <2>1. PICK t \in Threads : RegisterHandler(t) \/ handlerOf' = [r \in RequestTypes |-> None]
      BY WhoHandles
    <2> QED BY <2>1 DEF RegisterHandler, AlreadyRegistered, TypeArgInv, TypeOK
  <1> QED BY <1>1, TypeCorrect, PTL DEF Spec, TypeArgInv, HandlerNeverReplaced

-----------------------------------------------------------------------------
(* A stored response type is the declared one, and a handler class that has *)
(* passed the checks of its hook fits its request type, whatever has been   *)
(* cleared since.                                                          *)
Fits(h) ==
  /\ h \notin IllFormed
  /\ Returns[h] = Declared[Handles[h]]
  /\ h \in StreamHandlerClasses => Handles[h] \in StreamTypes

FitInv ==
  /\ \A q \in RequestTypes : responseOf[q] \in {Declared[q], None}
  /\ \A q \in RequestTypes : handlerOf[q] # None => Handles[handlerOf[q]] = q /\ Fits(handlerOf[q])
  /\ \A t \in Threads :
       /\ pc[t] \in {"hd_get", "hd_lock", "hd_store"} /\ arg[t] \in StreamHandlerClasses
            => Handles[arg[t]] \in StreamTypes
       /\ pc[t] \in {"hd_lock", "hd_store"} => Fits(arg[t])

(* Most steps store nothing a hook checks, and enter no hook of a handler.  *)
LEMMA KeepsFit ==
  ASSUME TypeOK, FitInv, NEW t \in Threads, NEW to, Goto(t, to),
         to \notin {"hd_get", "hd_lock", "hd_store"},
         \A u \in Threads \ {t} : arg'[u] = arg[u],
         responseOf' = responseOf \/ responseOf' = [q \in RequestTypes |-> None],
         handlerOf' = handlerOf \/ handlerOf' = [q \in RequestTypes |-> None]
  PROVE  FitInv'
  <1>1. \A u \in Threads : pc'[u] = IF u = t THEN to ELSE pc[u]
    BY DEF Goto, TypeOK
  <1>2. \A q \in RequestTypes : responseOf'[q] \in {Declared[q], None}
    BY DEF FitInv
  <1>3. \A q \in RequestTypes : handlerOf'[q] # None => Handles[handlerOf'[q]] = q /\ Fits(handlerOf'[q])
    BY DEF FitInv
  <1> QED BY <1>1, <1>2, <1>3 DEF FitInv, Fits

LEMMA StepFitInv == TypeArgInv /\ FitInv /\ [Next]_vars => FitInv'
  <1> SUFFICES ASSUME TypeArgInv, FitInv, [Next]_vars PROVE FitInv'
    OBVIOUS
  <1> USE DEF TypeArgInv, registries, locals
  <1>1. ASSUME NEW t \in Threads, Begin(t) PROVE FitInv'
    <2>1. ASSUME NEW q \in RequestTypes, DefineRequest(t, q) PROVE FitInv'
      <3>1. CASE UNCHANGED <<pc, arg>>
        BY <2>1, <3>1 DEF DefineRequest, FitInv, Fits
      <3>2. CASE Goto(t, "req_lock") /\ arg' = [arg EXCEPT ![t] = q]
        BY <2>1, <3>2, KeepsFit DEF DefineRequest, TypeOK
      <3> QED BY <2>1, <3>1, <3>2 DEF DefineRequest
    <2>2. ASSUME NEW q \in RequestTypes, LookupHas(t, q) PROVE FitInv'
      BY <2>2, KeepsFit DEF LookupHas, TypeOK
    <2>3. ASSUME NEW h \in HandlerClasses, DefineHandler(t, h) PROVE FitInv'
      <3>1. CASE UNCHANGED <<pc, arg>>
        BY <2>3, <3>1 DEF DefineHandler, FitInv, Fits
      <3>2. CASE /\ Goto(t, "hd_get") /\ arg' = [arg EXCEPT ![t] = h]
                 /\ h \in StreamHandlerClasses => Handles[h] \in StreamTypes
        BY <2>3, <3>2 DEF DefineHandler, Goto, TypeOK, FitInv, Fits
      <3> QED BY <2>3, <3>1, <3>2 DEF DefineHandler
    <2>4. ASSUME NEW s \in SubscriberClasses, DefineSubscriber(t, s) PROVE FitInv'
      <3>1. CASE UNCHANGED <<pc, arg>>
        BY <2>4, <3>1 DEF DefineSubscriber, FitInv, Fits
      <3>2. CASE Goto(t, "sub_lock") /\ arg' = [arg EXCEPT ![t] = s]
        BY <2>4, <3>2, KeepsFit DEF DefineSubscriber, TypeOK
      <3> QED BY <2>4, <3>1, <3>2 DEF DefineSubscriber
    <2>5. ASSUME NEW u \in Utilities, BeginUtility(t, u) PROVE FitInv'
      BY <2>5, KeepsFit, UtilityAssumption DEF BeginUtility
    <2> QED BY <1>1, <2>1, <2>2, <2>3, <2>4, <2>5 DEF Begin
  <1>2. ASSUME NEW t \in Threads, Continue(t) PROVE FitInv'
    <2>1. ASSUME NEW from, NEW to, Acquire(t, from, to), to \notin {"hd_get", "hd_lock", "hd_store"}
          PROVE  FitInv'
      BY <2>1, KeepsFit DEF Acquire
    <2>2. CASE Acquire(t, "hd_lock", "hd_store")
      BY <2>2 DEF Acquire, Goto, TypeOK, FitInv, Fits
    <2>3. CASE StoreResponse(t)
      <3>1. responseOf' = [responseOf EXCEPT ![arg[t]] = Declared[arg[t]]] /\ arg[t] \in RequestTypes
        BY <2>3 DEF StoreResponse, ArgInv
      <3>2. \A q \in RequestTypes : responseOf'[q] \in {Declared[q], None}
        BY <3>1 DEF TypeOK, FitInv
      <3> QED BY <2>3, <3>2 DEF StoreResponse, Return, Goto, TypeOK, FitInv, Fits
    <2>4. CASE CheckSignature(t)
      <3>1. CASE Return(t)
        BY <2>4, <3>1, KeepsFit DEF CheckSignature, Return, TypeOK
      <3>2. CASE ~Return(t)
        <4>1. arg[t] \in HandlerClasses /\ Handles[arg[t]] \in RequestTypes
              /\ Returns[arg[t]] # None
          BY <2>4, DeclarationAssumption, SentinelAssumption DEF CheckSignature, ArgInv
        <4>2. SignatureFits(arg[t], responseOf[Handles[arg[t]]])
          BY <2>4, <3>2 DEF CheckSignature, GetResponseType
        <4>3. Fits(arg[t])
          BY <2>4, <4>1, <4>2 DEF Fits, SignatureFits, FitInv, CheckSignature
        <4> QED BY <2>4, <3>2, <4>3 DEF CheckSignature, Goto, TypeOK, FitInv, Fits
      <3> QED BY <3>1, <3>2
    <2>5. CASE RegisterHandler(t)
      <3>1. arg[t] \in HandlerClasses /\ Fits(arg[t])
        BY <2>5 DEF RegisterHandler, ArgInv, FitInv
      <3>2. \A q \in RequestTypes : handlerOf'[q] # None => Handles[handlerOf'[q]] = q /\ Fits(handlerOf'[q])
        BY <2>5, <3>1 DEF RegisterHandler, TypeOK, FitInv
      <3> QED BY <2>5, <3>2 DEF RegisterHandler, Return, Goto, TypeOK, FitInv, Fits
    <2>6. CASE ReadSubscribers(t)
      BY <2>6, KeepsFit DEF ReadSubscribers
    <2>7. CASE StoreSubscribers(t)
      BY <2>7, KeepsFit DEF StoreSubscribers, Return, TypeOK
    <2>8. CASE LookupGet(t)
      BY <2>8, KeepsFit DEF LookupGet, Return, TypeOK
    <2>9. CASE LookupMiss(t)
      BY <2>9, KeepsFit DEF LookupMiss, Return, TypeOK
    <2>10. ASSUME NEW from, NEW held, NEW to \in {"clr_n_lock", "all_n_clear"},
                  ClearHandlers(t, from, held, to)
           PROVE  FitInv'
      BY <2>10, KeepsFit DEF ClearHandlers
    <2>11. ASSUME NEW from, NEW held, ClearNotifications(t, from, held)
           PROVE  FitInv'
      BY <2>11, KeepsFit DEF ClearNotifications, Return, TypeOK
    <2>12. CASE ClearRequests(t, "all_r_clear", "all_h_clear")
      BY <2>12, KeepsFit DEF ClearRequests
    <2>13. CASE ClearHandlerRegistry(t) \/ ClearAllRegistries(t)
      BY <2>13, <2>1, <2>10, <2>11, <2>12 DEF ClearHandlerRegistry, ClearAllRegistries
    <2>14. CASE GetRegistryStats(t)
      <3>1. ASSUME NEW from, NEW l, NEW n, NEW to \in {"st_h", "st_n"}, Count(t, from, l, n, to)
            PROVE  FitInv'
        BY <3>1, KeepsFit DEF Count
      <3>2. CASE CountLast(t)
        BY <3>2, KeepsFit DEF CountLast, Return, TypeOK
      <3> QED BY <2>14, <2>1, <3>1, <3>2 DEF GetRegistryStats
    <2> QED BY <1>2, <2>1, <2>2, <2>3, <2>4, <2>5, <2>6, <2>7, <2>8, <2>9, <2>13, <2>14 DEF Continue
  <1>3. CASE UNCHANGED vars
    BY <1>3 DEF vars, FitInv, Fits
  <1> QED BY <1>1, <1>2, <1>3 DEF Next

(* Dispatch never finds a handler whose declaration was not checked against *)
(* the response its request type declares.                                 *)
THEOREM OnlyFittingHandlers == Spec => []RegisteredHandlersFit
  <1>1. Init => FitInv
    BY DEF Init, FitInv
  <1>2. FitInv => RegisteredHandlersFit
    BY DEF FitInv, Fits, RegisteredHandlersFit
  <1> QED BY <1>1, <1>2, StepFitInv, TypeCorrect, PTL DEF Spec, TypeArgInv

-----------------------------------------------------------------------------
(* A class is defined by one call at most, and is `defining` all the while. *)
Defining == {"req_lock", "req_store", "hd_get", "hd_lock", "hd_store",
             "sub_lock", "sub_read", "sub_store"}

CallInv ==
  \A t \in Threads : pc[t] \in Defining =>
    /\ arg[t] \in Classes
    /\ outcome[arg[t]] = "defining"
    /\ \A u \in Threads \ {t} : pc[u] \in Defining => arg[u] # arg[t]

(* Steps that define nothing, or end the definition of their own class.     *)
LEMMA LeavesCalls ==
  ASSUME TypeOK, CallInv, NEW t \in Threads, NEW to, Goto(t, to), to \notin Defining,
         \A u \in Threads \ {t} : arg'[u] = arg[u],
         \A c \in Classes : outcome[c] = "defining" =>
           outcome'[c] = "defining" \/ (pc[t] \in Defining /\ c = arg[t])
  PROVE  CallInv'
  <1>1. \A u \in Threads : pc'[u] = IF u = t THEN to ELSE pc[u]
    BY DEF Goto, TypeOK
  <1> QED BY <1>1 DEF CallInv

(* Steps that go on with the definition the thread is at.                   *)
LEMMA StaysInCall ==
  ASSUME TypeOK, CallInv, NEW t \in Threads, NEW to, Goto(t, to), pc[t] \in Defining,
         arg' = arg, \A c \in Classes : outcome[c] = "defining" => outcome'[c] = "defining"
  PROVE  CallInv'
  <1>1. \A u \in Threads : pc'[u] = IF u = t THEN to ELSE pc[u]
    BY DEF Goto, TypeOK
  <1> QED BY <1>1 DEF CallInv

(* Steps that start the definition of a class nobody has defined.           *)
LEMMA EntersCall ==
  ASSUME TypeOK, CallInv, NEW t \in Threads, NEW to, Goto(t, to), NEW c \in Classes,
         outcome[c] = "undefined", Became(c, "defining"), arg' = [arg EXCEPT ![t] = c]
  PROVE  CallInv'
  <1>1. \A u \in Threads : /\ pc'[u] = IF u = t THEN to ELSE pc[u]
                           /\ arg'[u] = IF u = t THEN c ELSE arg[u]
    BY DEF Goto, TypeOK
  <1>2. \A d \in Classes : outcome'[d] = IF d = c THEN "defining" ELSE outcome[d]
    BY DEF Became, TypeOK
  <1> QED BY <1>1, <1>2 DEF CallInv

LEMMA StepCallInv == TypeArgInv /\ CallInv /\ [Next]_vars => CallInv'
  <1> SUFFICES ASSUME TypeArgInv, CallInv, [Next]_vars PROVE CallInv'
    OBVIOUS
  <1> USE ClassSets DEF TypeArgInv, registries, locals, history
  <1>1. ASSUME NEW t \in Threads, Begin(t) PROVE CallInv'
    <2>1. ASSUME NEW c \in Classes, outcome[c] = "undefined", NEW result, Became(c, result),
                 UNCHANGED <<pc, arg>>
          PROVE  CallInv'
      <3>1. \A d \in Classes : outcome[d] = "defining" => outcome'[d] = "defining"
        BY <2>1 DEF Became, TypeOK
      <3> QED BY <2>1, <3>1 DEF CallInv
    <2>2. ASSUME NEW q \in RequestTypes, DefineRequest(t, q) PROVE CallInv'
      BY <2>2, <2>1, EntersCall DEF DefineRequest
    <2>3. ASSUME NEW h \in HandlerClasses, DefineHandler(t, h) PROVE CallInv'
      BY <2>3, <2>1, EntersCall DEF DefineHandler
    <2>4. ASSUME NEW s \in SubscriberClasses, DefineSubscriber(t, s) PROVE CallInv'
      BY <2>4, <2>1, EntersCall DEF DefineSubscriber
    <2>5. ASSUME NEW q \in RequestTypes, LookupHas(t, q) PROVE CallInv'
      BY <2>5, LeavesCalls DEF LookupHas, TypeOK, Defining
    <2>6. ASSUME NEW u \in Utilities, BeginUtility(t, u) PROVE CallInv'
      BY <2>6, LeavesCalls, UtilityAssumption DEF BeginUtility, Defining
    <2> QED BY <1>1, <2>2, <2>3, <2>4, <2>5, <2>6 DEF Begin
  <1>2. ASSUME NEW t \in Threads, Continue(t) PROVE CallInv'
    <2>1. ASSUME NEW from, NEW to, Acquire(t, from, to), from \in Defining \/ to \notin Defining
          PROVE  CallInv'
      BY <2>1, StaysInCall, LeavesCalls DEF Acquire
    <2>2. ASSUME Return(t), \A c \in Classes : outcome[c] = "defining" =>
                   outcome'[c] = "defining" \/ (pc[t] \in Defining /\ c = arg[t])
          PROVE  CallInv'
      BY <2>2, LeavesCalls DEF Return, TypeOK, Defining
    <2>3. ASSUME NEW result, Became(arg[t], result), pc[t] \in Defining, Return(t)
          PROVE  CallInv'
      BY <2>2, <2>3 DEF Became, TypeOK, CallInv
    <2>4. CASE StoreResponse(t) \/ RegisterHandler(t) \/ StoreSubscribers(t)
      BY <2>3, <2>4 DEF StoreResponse, RegisterHandler, StoreSubscribers, Defining
    <2>5. CASE CheckSignature(t)
      <3>1. pc[t] \in Defining /\ \E result : Became(arg[t], result)
        BY <2>5 DEF CheckSignature, Defining
      <3>2. CASE Return(t)
        BY <2>3, <3>1, <3>2
      <3>3. CASE ~Return(t)
        <4>1. Goto(t, "hd_lock") /\ arg' = arg /\ Became(arg[t], "defining")
          BY <2>5, <3>3 DEF CheckSignature
        <4> QED BY <3>1, <4>1, StaysInCall DEF Became, TypeOK
      <3> QED BY <3>2, <3>3
    <2>6. CASE ReadSubscribers(t)
      BY <2>6, StaysInCall DEF ReadSubscribers, Defining
    <2>7. CASE LookupGet(t) \/ LookupMiss(t) \/ CountLast(t)
      BY <2>2, <2>7 DEF LookupGet, LookupMiss, CountLast
    <2>8. ASSUME NEW classes, Forget(classes)
          PROVE  \A c \in Classes : outcome[c] = "defining" => outcome'[c] = "defining"
      BY <2>8 DEF Forget
    <2>9. ASSUME NEW from, NEW held, NEW to \in {"clr_n_lock", "all_n_clear"},
                 ClearHandlers(t, from, held, to)
          PROVE  CallInv'
      BY <2>8, <2>9, LeavesCalls DEF ClearHandlers, Defining
    <2>10. ASSUME NEW from, NEW held, ClearNotifications(t, from, held) PROVE CallInv'
      BY <2>2, <2>8, <2>10 DEF ClearNotifications
    <2>11. CASE ClearRequests(t, "all_r_clear", "all_h_clear")
      BY <2>11, LeavesCalls DEF ClearRequests, Defining
    <2>12. CASE ClearHandlerRegistry(t) \/ ClearAllRegistries(t)
      BY <2>12, <2>1, <2>9, <2>10, <2>11 DEF ClearHandlerRegistry, ClearAllRegistries, Defining
    <2>13. ASSUME NEW from, NEW l, NEW n, NEW to \in {"st_h", "st_n"}, Count(t, from, l, n, to)
           PROVE  CallInv'
      BY <2>13, LeavesCalls DEF Count, Defining
    <2>14. CASE GetRegistryStats(t)
      BY <2>14, <2>1, <2>7, <2>13 DEF GetRegistryStats, Defining
    <2> QED BY <1>2, <2>1, <2>4, <2>5, <2>6, <2>7, <2>12, <2>14 DEF Continue, Defining
  <1>3. CASE UNCHANGED vars
    BY <1>3 DEF vars, CallInv
  <1> QED BY <1>1, <1>2, <1>3 DEF Next

(* Each class is defined by one call, from its start to its verdict.        *)
LEMMA OneCallPerClass == Spec => []CallInv
  <1>1. Init => CallInv
    BY DEF Init, CallInv, Defining
  <1> QED BY <1>1, StepCallInv, TypeCorrect, PTL DEF Spec, TypeArgInv

(* What is registered is what can be found.                                 *)
Listed(s) == IF outcome[s] = "registered" THEN \E i \in Nat : Occurrences(s) = {i}
                                          ELSE Occurrences(s) = {}

SurviveInv ==
  /\ \A h \in HandlerClasses : outcome[h] = "registered" <=> handlerOf[Handles[h]] = h
  /\ \A s \in SubscriberClasses : Listed(s)

(* The steps that register or unregister, and what all the others leave.    *)
ForgetHandlers ==
  /\ handlerOf' = [q \in RequestTypes |-> None] /\ Forget(HandlerClasses)
  /\ UNCHANGED <<responseOf, subscribers, answer>>

ForgetSubscribers ==
  /\ subscribers' = [n \in NotificationTypes |-> << >>] /\ Forget(SubscriberClasses)
  /\ UNCHANGED <<responseOf, handlerOf, answer>>

NoneRegistered ==
  /\ UNCHANGED <<handlerOf, subscribers>>
  /\ \A c \in Classes : \/ outcome'[c] = outcome[c]
                        \/ /\ outcome[c] \in {"undefined", "defining"}
                           /\ outcome'[c] \notin {"registered", "cleared"}

LEMMA WhoRegisters ==
  ASSUME TypeArgInv, CallInv, [Next]_vars
  PROVE  \/ NoneRegistered \/ ForgetHandlers \/ ForgetSubscribers
         \/ \E t \in Threads : RegisterHandler(t) \/ StoreSubscribers(t)
  <1> USE ClassSets DEF TypeArgInv, registries, locals, history
  <1>1. ASSUME NEW t \in Threads, Begin(t) PROVE NoneRegistered
    <2>1. ASSUME NEW c \in Classes, outcome[c] = "undefined", Became(c, "defining") \/ Became(c, "defined")
                   \/ Became(c, "rejected"), UNCHANGED registries
          PROVE  NoneRegistered
      BY <2>1 DEF Became, TypeOK, NoneRegistered
    <2>2. ASSUME NEW q \in RequestTypes, DefineRequest(t, q) PROVE NoneRegistered
      BY <2>1, <2>2 DEF DefineRequest
    <2>3. ASSUME NEW h \in HandlerClasses, DefineHandler(t, h) PROVE NoneRegistered
      BY <2>1, <2>3 DEF DefineHandler
    <2>4. ASSUME NEW s \in SubscriberClasses, DefineSubscriber(t, s) PROVE NoneRegistered
      BY <2>1, <2>4 DEF DefineSubscriber
    <2> QED BY <1>1, <2>2, <2>3, <2>4 DEF Begin, LookupHas, BeginUtility, NoneRegistered
  <1>2. ASSUME NEW t \in Threads, Continue(t)
        PROVE  NoneRegistered \/ ForgetHandlers \/ ForgetSubscribers \/ RegisterHandler(t) \/ StoreSubscribers(t)
    <2>1. CASE StoreResponse(t)
      BY <2>1 DEF StoreResponse, Became, TypeOK, CallInv, Defining, NoneRegistered
    <2>2. CASE CheckSignature(t)
      BY <2>2 DEF CheckSignature, Became, TypeOK, CallInv, Defining, NoneRegistered
    <2>3. CASE ClearHandlerRegistry(t) \/ ClearAllRegistries(t)
      BY <2>3 DEF ClearHandlerRegistry, ClearAllRegistries, Acquire, ClearHandlers, ClearRequests,
                  ClearNotifications, NoneRegistered, ForgetHandlers, ForgetSubscribers
    <2>4. CASE GetRegistryStats(t)
      BY <2>4 DEF GetRegistryStats, Acquire, Count, CountLast, NoneRegistered
    <2> QED BY <1>2, <2>1, <2>2, <2>3, <2>4 DEF Continue, Acquire, ReadSubscribers, LookupGet, LookupMiss,
                NoneRegistered
  <1>3. CASE UNCHANGED vars
    BY <1>3 DEF vars, NoneRegistered
  <1> QED BY <1>1, <1>2, <1>3 DEF Next

LEMMA StepSurviveInv ==
  TypeArgInv /\ FreshInv /\ FitInv /\ CallInv /\ SurviveInv /\ [Next]_vars => SurviveInv'
  <1> SUFFICES ASSUME TypeArgInv, FreshInv, FitInv, CallInv, SurviveInv, [Next]_vars PROVE SurviveInv'
    OBVIOUS
  <1> USE ClassSets DEF TypeArgInv
  <1>1. CASE NoneRegistered
    BY <1>1 DEF NoneRegistered, SurviveInv, Listed, Occurrences
  <1>2. CASE ForgetHandlers
    <2>1. \A c \in Classes : outcome'[c] = IF c \in HandlerClasses /\ outcome[c] = "registered"
                                             THEN "cleared" ELSE outcome[c]
      BY <1>2 DEF ForgetHandlers, Forget
    <2>2. ASSUME NEW h \in HandlerClasses PROVE outcome'[h] # "registered" /\ handlerOf'[Handles[h]] # h
      BY <1>2, <2>1, DeclarationAssumption, SentinelAssumption DEF ForgetHandlers
    <2>3. ASSUME NEW s \in SubscriberClasses PROVE Listed(s)'
      <3>1. outcome'[s] = outcome[s] /\ subscribers' = subscribers
        BY <1>2, <2>1, ClassAssumption DEF ForgetHandlers
      <3> QED BY <3>1 DEF SurviveInv, Listed, Occurrences
    <2> QED BY <2>2, <2>3 DEF SurviveInv
  <1>3. CASE ForgetSubscribers
    <2>1. \A c \in Classes : outcome'[c] = IF c \in SubscriberClasses /\ outcome[c] = "registered"
                                             THEN "cleared" ELSE outcome[c]
      BY <1>3 DEF ForgetSubscribers, Forget
    <2>2. ASSUME NEW h \in HandlerClasses
          PROVE  outcome'[h] = outcome[h] /\ handlerOf'[Handles[h]] = handlerOf[Handles[h]]
      BY <1>3, <2>1, ClassAssumption DEF ForgetSubscribers
    <2>3. ASSUME NEW s \in SubscriberClasses PROVE Listed(s)'
      <3>1. outcome'[s] # "registered" /\ subscribers'[Subscribes[s]] = << >>
        BY <1>3, <2>1, DeclarationAssumption DEF ForgetSubscribers
      <3> QED BY <3>1 DEF Listed, Occurrences
    <2> QED BY <2>2, <2>3 DEF SurviveInv
  <1>4. ASSUME NEW t \in Threads, RegisterHandler(t) PROVE SurviveInv'
    <2>1. /\ arg[t] \in HandlerClasses /\ Handles[arg[t]] \in RequestTypes
          /\ outcome[arg[t]] = "defining"
      BY <1>4, DeclarationAssumption DEF RegisterHandler, ArgInv, CallInv, Defining
    <2>2. ASSUME NEW s \in SubscriberClasses PROVE Listed(s)'
      <3>1. outcome'[s] = outcome[s] /\ subscribers' = subscribers
        BY <1>4, <2>1, ClassAssumption DEF RegisterHandler, Became, TypeOK
      <3> QED BY <3>1 DEF SurviveInv, Listed, Occurrences
    <2>3. ASSUME NEW h \in HandlerClasses
          PROVE  outcome'[h] = "registered" <=> handlerOf'[Handles[h]] = h
      <3>1. Handles[h] \in RequestTypes /\ h # None
        BY DeclarationAssumption, SentinelAssumption
      <3>2. CASE AlreadyRegistered(Handles[arg[t]])
        BY <1>4, <2>1, <3>1, <3>2 DEF RegisterHandler, Became, TypeOK, SurviveInv
      <3>3. CASE ~AlreadyRegistered(Handles[arg[t]])
        BY <1>4, <2>1, <3>1, <3>3 DEF RegisterHandler, AlreadyRegistered, Became, TypeOK, SurviveInv
      <3> QED BY <3>2, <3>3
    <2> QED BY <2>2, <2>3 DEF SurviveInv
  <1>5. ASSUME NEW t \in Threads, StoreSubscribers(t) PROVE SurviveInv'
    <2> DEFINE s == arg[t]
               n == Subscribes[s]
    <2>1. /\ s \in SubscriberClasses /\ n \in NotificationTypes
          /\ outcome[s] = "defining" /\ existing[t] = subscribers[n]
      BY <1>5, DeclarationAssumption DEF StoreSubscribers, ArgInv, CallInv, Defining, FreshInv
    <2>2. ASSUME NEW h \in HandlerClasses
          PROVE  outcome'[h] = outcome[h] /\ handlerOf'[Handles[h]] = handlerOf[Handles[h]]
      BY <1>5, <2>1, ClassAssumption DEF StoreSubscribers, Became, TypeOK
    <2>3. subscribers' = [subscribers EXCEPT ![n] = Append(subscribers[n], s)]
          /\ outcome' = [outcome EXCEPT ![s] = "registered"]
      BY <1>5, <2>1 DEF StoreSubscribers, Became
    <2>4. subscribers[n] \in Seq(SubscriberClasses)
      BY <2>1 DEF TypeOK
    <2>5. ASSUME NEW r \in SubscriberClasses PROVE Listed(r)'
      <3>1. CASE Subscribes[r] # n
        <4>1. r # s /\ subscribers'[Subscribes[r]] = subscribers[Subscribes[r]]
              /\ outcome'[r] = outcome[r]
          BY <2>1, <2>3, <3>1, DeclarationAssumption DEF TypeOK
        <4> QED BY <4>1 DEF SurviveInv, Listed, Occurrences
      <3>2. CASE Subscribes[r] = n
        <4>1. subscribers'[Subscribes[r]] = Append(subscribers[n], s)
          BY <2>1, <2>3, <3>2 DEF TypeOK
        <4>2. /\ DOMAIN subscribers'[Subscribes[r]] = DOMAIN subscribers[n] \cup {Len(subscribers[n]) + 1}
              /\ subscribers'[Subscribes[r]][Len(subscribers[n]) + 1] = s
              /\ \A i \in DOMAIN subscribers[n] : subscribers'[Subscribes[r]][i] = subscribers[n][i]
              /\ Len(subscribers[n]) + 1 \in Nat
          BY <4>1, <2>4
        <4>3. CASE r = s
          <5>1. Occurrences(s) = {}
            BY <2>1 DEF SurviveInv, Listed
          <5>2. Occurrences(r)' = {Len(subscribers[n]) + 1}
            BY <3>2, <4>2, <4>3, <5>1 DEF Occurrences
          <5>3. outcome'[r] = "registered"
            BY <2>1, <2>3, <4>3 DEF TypeOK
          <5> QED BY <4>2, <5>2, <5>3 DEF Listed
        <4>4. CASE r # s
          <5>1. Occurrences(r)' = Occurrences(r)
            BY <3>2, <4>2, <4>4 DEF Occurrences
          <5>2. outcome'[r] = outcome[r]
            BY <2>1, <2>3, <4>4 DEF TypeOK
          <5> QED BY <5>1, <5>2 DEF SurviveInv, Listed
        <4> QED BY <4>3, <4>4
      <3> QED BY <3>1, <3>2
    <2> QED BY <2>2, <2>5 DEF SurviveInv
  <1> QED BY <1>1, <1>2, <1>3, <1>4, <1>5, WhoRegisters

LEMMA WhatIsFound == Spec => [](FitInv /\ SurviveInv)
  <1>1. Init => FitInv /\ SurviveInv
    <2> SUFFICES ASSUME Init PROVE FitInv /\ SurviveInv
      OBVIOUS
    <2>1. FitInv
      BY DEF Init, FitInv
    <2>2. \A h \in HandlerClasses : outcome[h] # "registered" /\ handlerOf[Handles[h]] # h
      BY ClassSets, DeclarationAssumption, SentinelAssumption DEF Init
    <2>3. \A s \in SubscriberClasses : outcome[s] # "registered" /\ subscribers[Subscribes[s]] = << >>
      BY ClassSets, DeclarationAssumption DEF Init
    <2> QED BY <2>1, <2>2, <2>3 DEF SurviveInv, Listed, Occurrences
  <1>2. TypeArgInv /\ FreshInv /\ CallInv /\ FitInv /\ SurviveInv /\ [Next]_vars => (FitInv /\ SurviveInv)'
    BY StepFitInv, StepSurviveInv
  <1> QED BY <1>1, <1>2, TypeCorrect, ReadsStayFresh, OneCallPerClass, PTL DEF Spec, TypeArgInv

(* A definition that completed and was not cleared since can be found, the  *)
(* subscriber exactly once; one that failed, or was cleared, cannot.        *)
THEOREM DefinitionsSurvive == Spec => []RegistrationsSurvive
  <1>1. SurviveInv => RegistrationsSurvive
    BY FS_EmptySet, FS_Singleton DEF SurviveInv, Listed, RegistrationsSurvive
  <1> QED BY <1>1, WhatIsFound, PTL

(* What the first of two looks saw, as far as the second can rely on it.    *)
SomeCleared == \E h \in HandlerClasses : outcome[h] = "cleared"

WasDeclared(q) == Declared[q] # None /\ outcome[q] = "defined"

LooksInv ==
  /\ \A t \in Threads : /\ pc[t] = "lk_get" => handlerOf[arg[t]] # None \/ SomeCleared
                        /\ answer[t] = None => SomeCleared
                        /\ pc[t] = "hd_get" => WasDeclared(Handles[arg[t]])
  /\ \A h \in HandlerClasses : outcome[h] = "asserted" =>
       WasDeclared(Handles[h]) /\ responseOf[Handles[h]] = None

(* A verdict that is final, and a response type that only its own           *)
(* definition stores.                                                      *)
LEMMA VerdictsAreFinal ==
  ASSUME TypeArgInv, CallInv, [Next]_vars
  PROVE  /\ \A c \in Classes : outcome[c] \in {"defined", "cleared"} => outcome'[c] = outcome[c]
         /\ \A h \in HandlerClasses : outcome'[h] = "asserted" =>
              \/ outcome[h] = "asserted"
              \/ \E t \in Threads : CheckSignature(t) /\ arg[t] = h /\ responseOf[Handles[h]] = None
         /\ \A q \in RequestTypes : responseOf'[q] # None =>
              responseOf[q] # None \/ outcome[q] = "defining"
  <1> USE ClassSets DEF TypeArgInv, registries, locals, history
  <1> DEFINE Final == /\ \A c \in Classes : outcome[c] \in {"defined", "cleared"} => outcome'[c] = outcome[c]
                      /\ \A h \in HandlerClasses : outcome'[h] = "asserted" => outcome[h] = "asserted"
  <1>1. ASSUME NEW t \in Threads, Begin(t) PROVE Final /\ responseOf' = responseOf
    <2>1. ASSUME NEW c \in Classes, outcome[c] = "undefined",
                 Became(c, "defining") \/ Became(c, "defined") \/ Became(c, "rejected")
          PROVE  Final
      BY <2>1 DEF Became, TypeOK
    <2>2. ASSUME NEW q \in RequestTypes, DefineRequest(t, q) PROVE Final /\ responseOf' = responseOf
      BY <2>1, <2>2 DEF DefineRequest
    <2>3. ASSUME NEW h \in HandlerClasses, DefineHandler(t, h) PROVE Final /\ responseOf' = responseOf
      BY <2>1, <2>3 DEF DefineHandler
    <2>4. ASSUME NEW s \in SubscriberClasses, DefineSubscriber(t, s) PROVE Final /\ responseOf' = responseOf
      BY <2>1, <2>4 DEF DefineSubscriber
    <2> QED BY <1>1, <2>2, <2>3, <2>4 DEF Begin, LookupHas, BeginUtility
  <1>2. ASSUME NEW t \in Threads, StoreResponse(t)
        PROVE  /\ Final
               /\ \A q \in RequestTypes : responseOf'[q] # None => responseOf[q] # None \/ outcome[q] = "defining"
    <2>1. arg[t] \in RequestTypes /\ outcome[arg[t]] = "defining"
      BY <1>2 DEF StoreResponse, ArgInv, CallInv, Defining
    <2> QED BY <1>2, <2>1 DEF StoreResponse, Became, TypeOK
  <1>3. ASSUME NEW t \in Threads, CheckSignature(t)
        PROVE  /\ responseOf' = responseOf
               /\ \A c \in Classes : outcome[c] \in {"defined", "cleared"} => outcome'[c] = outcome[c]
               /\ \A h \in HandlerClasses : outcome'[h] = "asserted" =>
                    \/ outcome[h] = "asserted"
                    \/ arg[t] = h /\ responseOf[Handles[h]] = None
    <2>1. arg[t] \in Classes /\ outcome[arg[t]] = "defining"
      BY <1>3 DEF CheckSignature, CallInv, Defining
    <2> QED BY <1>3, <2>1 DEF CheckSignature, GetResponseType, Became, TypeOK
  <1>4. ASSUME NEW t \in Threads, RegisterHandler(t) \/ StoreSubscribers(t) PROVE Final /\ responseOf' = responseOf
    <2>1. /\ arg[t] \in Classes /\ outcome[arg[t]] = "defining"
          /\ \/ Became(arg[t], "duplicate") \/ Became(arg[t], "registered")
      BY <1>4 DEF RegisterHandler, StoreSubscribers, CallInv, Defining
    <2> QED BY <1>4, <2>1 DEF RegisterHandler, StoreSubscribers, Became, TypeOK
  <1>5. ASSUME NEW t \in Threads, ClearHandlerRegistry(t) \/ ClearAllRegistries(t)
        PROVE  Final /\ (responseOf' = responseOf \/ responseOf' = [q \in RequestTypes |-> None])
    <2>1. ASSUME NEW classes, Forget(classes) PROVE Final
      BY <2>1 DEF Forget
    <2> QED BY <1>5, <2>1 DEF ClearHandlerRegistry, ClearAllRegistries, Acquire, ClearHandlers, ClearRequests,
               ClearNotifications
  <1>6. ASSUME NEW t \in Threads, Continue(t)
        PROVE  \/ Final /\ responseOf' = responseOf
               \/ StoreResponse(t) \/ CheckSignature(t) \/ RegisterHandler(t) \/ StoreSubscribers(t)
               \/ ClearHandlerRegistry(t) \/ ClearAllRegistries(t)
    BY <1>6 DEF Continue, Acquire, ReadSubscribers, LookupGet, LookupMiss, GetRegistryStats, Count, CountLast
  <1>7. CASE UNCHANGED vars
    BY <1>7 DEF vars
  <1> QED BY <1>1, <1>2, <1>3, <1>4, <1>5, <1>6, <1>7 DEF Next

(* Whatever step: a handler that is gone was cleared.                       *)
LEMMA GoneMeansCleared ==
  ASSUME TypeArgInv, CallInv, FitInv, SurviveInv, [Next]_vars,
         NEW q \in RequestTypes, handlerOf[q] # None
  PROVE  handlerOf'[q] # None \/ SomeCleared'
  <1> USE ClassSets DEF TypeArgInv
  <1>1. /\ handlerOf[q] \in HandlerClasses /\ outcome[handlerOf[q]] = "registered"
    BY DEF TypeOK, FitInv, SurviveInv
  <1>2. CASE ForgetHandlers
    BY <1>1, <1>2 DEF ForgetHandlers, Forget, SomeCleared
  <1>3. CASE ~ForgetHandlers
    <2>1. handlerOf' = handlerOf \/ \E t \in Threads : RegisterHandler(t)
      BY <1>3, WhoRegisters DEF NoneRegistered, ForgetSubscribers, StoreSubscribers
    <2> QED BY <2>1 DEF RegisterHandler, AlreadyRegistered, ArgInv, TypeOK
  <1> QED BY <1>2, <1>3

(* The steps of the two-look readers, the others left aside.                *)
LEMMA WhoLooks ==
  ASSUME TypeArgInv, [Next]_vars
  PROVE  \/ /\ \A t \in Threads : pc'[t] \in {"lk_get", "hd_get"} => pc'[t] = pc[t] /\ arg'[t] = arg[t]
            /\ \A t \in Threads : answer'[t] # NotFound => answer'[t] = answer[t]
         \/ \E t \in Threads : /\ answer' = answer
                               /\ \A u \in Threads \ {t} : pc'[u] = pc[u] /\ arg'[u] = arg[u]
                               /\ \/ \E q \in RequestTypes : LookupHas(t, q)
                                  \/ \E h \in HandlerClasses : DefineHandler(t, h)
         \/ \E t \in Threads : LookupGet(t)
  <1> USE DEF TypeArgInv, registries, locals, history
  <1> DEFINE Leaves(t, to) == /\ to \notin {"lk_get", "hd_get"} /\ Goto(t, to)
                              /\ \A u \in Threads \ {t} : arg'[u] = arg[u]
                              /\ answer' = answer \/ answer' = [answer EXCEPT ![t] = NotFound]
             Plain == /\ \A t \in Threads : pc'[t] \in {"lk_get", "hd_get"} => pc'[t] = pc[t] /\ arg'[t] = arg[t]
                      /\ \A t \in Threads : answer'[t] # NotFound => answer'[t] = answer[t]
  <1>1. ASSUME NEW t \in Threads, NEW to, Leaves(t, to) PROVE Plain
    BY <1>1 DEF Goto, TypeOK
  <1>2. ASSUME NEW t \in Threads, Return(t), answer' = answer \/ answer' = [answer EXCEPT ![t] = NotFound]
        PROVE  Plain
    <2>1. Leaves(t, "idle")
      BY <1>2 DEF Return, TypeOK
    <2> QED BY <2>1, <1>1
  <1>3. ASSUME NEW t \in Threads, Begin(t),
               ~\E q \in RequestTypes : LookupHas(t, q), ~\E h \in HandlerClasses : DefineHandler(t, h)
        PROVE  Plain
    <2>1. ASSUME UNCHANGED <<pc, arg, answer>> PROVE Plain
      BY <2>1
    <2>2. ASSUME NEW q \in RequestTypes, DefineRequest(t, q) PROVE Plain
      <3>1. UNCHANGED <<pc, arg, answer>> \/ Leaves(t, "req_lock")
        BY <2>2 DEF DefineRequest, TypeOK
      <3> QED BY <2>1, <3>1, <1>1
    <2>3. ASSUME NEW s \in SubscriberClasses, DefineSubscriber(t, s) PROVE Plain
      <3>1. UNCHANGED <<pc, arg, answer>> \/ Leaves(t, "sub_lock")
        BY <2>3 DEF DefineSubscriber, TypeOK
      <3> QED BY <2>1, <3>1, <1>1
    <2>4. ASSUME NEW u \in Utilities, BeginUtility(t, u) PROVE Plain
      BY <2>4, <1>1, UtilityAssumption DEF BeginUtility
    <2> QED BY <1>3, <2>2, <2>3, <2>4 DEF Begin
  <1>4. ASSUME NEW t \in Threads, Continue(t), ~LookupGet(t) PROVE Plain
    <2>1. ASSUME NEW from, NEW to, to \notin {"lk_get", "hd_get"}, Acquire(t, from, to) PROVE Plain
      BY <2>1, <1>1 DEF Acquire
    <2>2. CASE StoreResponse(t) \/ RegisterHandler(t) \/ StoreSubscribers(t) \/ LookupMiss(t) \/ CountLast(t)
      BY <2>2, <1>2 DEF StoreResponse, RegisterHandler, StoreSubscribers, LookupMiss, CountLast
    <2>3. CASE CheckSignature(t)
      <3>1. Leaves(t, "hd_lock") \/ (Return(t) /\ answer' = answer)
        BY <2>3 DEF CheckSignature
      <3> QED BY <3>1, <1>1, <1>2
    <2>4. CASE ReadSubscribers(t)
      BY <2>4, <1>1 DEF ReadSubscribers
    <2>5. CASE ClearHandlerRegistry(t) \/ ClearAllRegistries(t)
      <3>1. ASSUME NEW from, NEW held, NEW to \in {"clr_n_lock", "all_n_clear"}, ClearHandlers(t, from, held, to)
            PROVE  Plain
        BY <3>1, <1>1 DEF ClearHandlers
      <3>2. ASSUME NEW from, NEW held, ClearNotifications(t, from, held) PROVE Plain
        BY <3>2, <1>2 DEF ClearNotifications
      <3>3. CASE ClearRequests(t, "all_r_clear", "all_h_clear")
        BY <3>3, <1>1 DEF ClearRequests
      <3> QED BY <2>1, <2>5, <3>1, <3>2, <3>3 DEF ClearHandlerRegistry, ClearAllRegistries
    <2>6. CASE GetRegistryStats(t)
      <3>1. ASSUME NEW from, NEW l, NEW n, NEW to \in {"st_h", "st_n"}, Count(t, from, l, n, to) PROVE Plain
        BY <3>1, <1>1 DEF Count
      <3> QED BY <2>1, <2>2, <2>6, <3>1 DEF GetRegistryStats
    <2> QED BY <1>4, <2>1, <2>2, <2>3, <2>4, <2>5, <2>6 DEF Continue
  <1>5. ASSUME NEW t \in Threads, NEW q \in RequestTypes, LookupHas(t, q)
        PROVE  answer' = answer /\ \A u \in Threads \ {t} : pc'[u] = pc[u] /\ arg'[u] = arg[u]
    BY <1>5 DEF LookupHas, Goto, TypeOK
  <1>6. ASSUME NEW t \in Threads, NEW h \in HandlerClasses, DefineHandler(t, h)
        PROVE  answer' = answer /\ \A u \in Threads \ {t} : pc'[u] = pc[u] /\ arg'[u] = arg[u]
    BY <1>6 DEF DefineHandler, Goto, TypeOK
  <1>7. CASE UNCHANGED vars
    BY <1>7 DEF vars
  <1> QED BY <1>3, <1>4, <1>5, <1>6, <1>7 DEF Next

LEMMA StepLooksInv ==
  TypeArgInv /\ CallInv /\ FitInv /\ SurviveInv /\ LooksInv /\ [Next]_vars => LooksInv'
  <1> SUFFICES ASSUME TypeArgInv, CallInv, FitInv, SurviveInv, LooksInv, [Next]_vars PROVE LooksInv'
    OBVIOUS
  <1> USE ClassSets
  <1> DEFINE StaysDeclared(q) == Declared[q] # None /\ outcome'[q] = "defined"
  <1>1. SomeCleared => SomeCleared'
    BY VerdictsAreFinal DEF SomeCleared
  <1>2. ASSUME NEW q \in RequestTypes, WasDeclared(q) PROVE StaysDeclared(q)
    BY <1>2, VerdictsAreFinal DEF WasDeclared
  <1>3. ASSUME NEW h \in HandlerClasses, outcome'[h] = "asserted"
        PROVE  StaysDeclared(Handles[h]) /\ responseOf'[Handles[h]] = None
    <2>1. Handles[h] \in RequestTypes
      BY DeclarationAssumption
    <2>2. WasDeclared(Handles[h]) /\ responseOf[Handles[h]] = None
      BY <1>3, VerdictsAreFinal DEF CheckSignature, LooksInv
    <2> QED BY <1>2, <2>1, <2>2, VerdictsAreFinal DEF WasDeclared
  <1>4. ASSUME NEW t \in Threads, pc[t] = "lk_get" PROVE handlerOf'[arg[t]] # None \/ SomeCleared'
    BY <1>1, <1>4, GoneMeansCleared DEF LooksInv, TypeArgInv, ArgInv
  <1>5. ASSUME NEW t \in Threads, pc[t] = "hd_get" PROVE StaysDeclared(Handles[arg[t]])
    <2>1. Handles[arg[t]] \in RequestTypes
      BY <1>5, DeclarationAssumption DEF TypeArgInv, ArgInv
    <2> QED BY <1>2, <1>5, <2>1 DEF LooksInv
  <1> DEFINE Looks(t) == /\ pc'[t] = "lk_get" => handlerOf'[arg'[t]] # None \/ SomeCleared'
                         /\ answer'[t] = None => SomeCleared'
                         /\ pc'[t] = "hd_get" => StaysDeclared(Handles[arg'[t]])
  <1>6. ASSUME NEW t \in Threads,
               pc'[t] \in {"lk_get", "hd_get"} => pc'[t] = pc[t] /\ arg'[t] = arg[t],
               answer'[t] # NotFound => answer'[t] = answer[t]
        PROVE  Looks(t)
    <2>1. answer'[t] = None => SomeCleared'
      BY <1>1, <1>6, SentinelAssumption DEF LooksInv
    <2>2. pc'[t] = "lk_get" => handlerOf'[arg'[t]] # None \/ SomeCleared'
      BY <1>4, <1>6
    <2>3. pc'[t] = "hd_get" => StaysDeclared(Handles[arg'[t]])
      BY <1>5, <1>6
    <2> QED BY <2>1, <2>2, <2>3
  <1>7. ASSUME NEW t \in Threads, NEW q \in RequestTypes, LookupHas(t, q), answer' = answer
        PROVE  Looks(t)
    <2>1. /\ arg'[t] = q /\ handlerOf' = handlerOf
          /\ pc'[t] = IF handlerOf[q] # None THEN "lk_get" ELSE "lk_lock"
      BY <1>7 DEF LookupHas, HasHandler, Goto, TypeArgInv, TypeOK, registries
    <2> QED BY <1>1, <1>7, <2>1 DEF LooksInv
  <1>8. ASSUME NEW t \in Threads, NEW h \in HandlerClasses, DefineHandler(t, h), answer' = answer
        PROVE  Looks(t)
    <2>1. Handles[h] \in RequestTypes /\ pc[t] = "idle"
      BY <1>8, DeclarationAssumption DEF DefineHandler
    <2>2. CASE UNCHANGED <<pc, arg>>
      BY <1>1, <1>8, <2>1, <2>2 DEF LooksInv
    <2>3. CASE ~UNCHANGED <<pc, arg>>
      <3>1. HasResponseType(Handles[h]) /\ outcome[Handles[h]] = "defined" /\ Goto(t, "hd_get")
            /\ arg' = [arg EXCEPT ![t] = h]
        BY <1>8, <2>3 DEF DefineHandler
      <3>2. pc'[t] = "hd_get" /\ arg'[t] = h
        BY <3>1 DEF Goto, TypeArgInv, TypeOK
      <3>3. WasDeclared(Handles[h])
        BY <2>1, <3>1 DEF WasDeclared, HasResponseType, FitInv
      <3>4. StaysDeclared(Handles[h])
        BY <1>2, <2>1, <3>3
      <3> QED BY <1>1, <1>8, <3>2, <3>4 DEF LooksInv, WasDeclared
    <2> QED BY <2>2, <2>3
  <1>9. ASSUME NEW t \in Threads, LookupGet(t), NEW u \in Threads PROVE Looks(u)
    <2>1. /\ pc[t] = "lk_get" /\ handlerOf' = handlerOf
          /\ pc'[u] = IF u = t THEN "idle" ELSE pc[u]
          /\ answer'[u] = IF u = t THEN handlerOf[arg[t]] ELSE answer[u]
          /\ arg'[u] = IF u = t THEN None ELSE arg[u]
      BY <1>9 DEF LookupGet, GetHandlerClass, Return, Goto, TypeArgInv, TypeOK, registries
    <2>2. answer'[u] = None => SomeCleared'
      BY <1>1, <1>4, <2>1 DEF LooksInv
    <2>3. pc'[u] = "lk_get" => handlerOf'[arg'[u]] # None \/ SomeCleared'
      BY <1>4, <2>1
    <2>4. pc'[u] = "hd_get" => StaysDeclared(Handles[arg'[u]])
      BY <1>5, <2>1
    <2> QED BY <2>2, <2>3, <2>4
  <1>10. ASSUME NEW u \in Threads PROVE Looks(u)
    BY <1>6, <1>7, <1>8, <1>9, WhoLooks
  <1> QED BY <1>3, <1>10 DEF LooksInv, WasDeclared

(* get_handler_for_request answers None, and a hook's assertion fails, only *)
(* when a clear came between the two looks.                                *)
THEOREM LooksAgree == Spec => []LooksFailOnlyOverClear
  <1>1. Init => LooksInv
    BY ClassSets, SentinelAssumption DEF Init, LooksInv
  <1>2. LooksInv => LooksFailOnlyOverClear
    BY DEF LooksInv, LooksFailOnlyOverClear, SomeCleared, WasDeclared
  <1> QED BY <1>1, <1>2, StepLooksInv, TypeCorrect, OneCallPerClass, WhatIsFound, PTL DEF Spec, TypeArgInv
=============================================================================
