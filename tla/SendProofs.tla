------------------------------- MODULE SendProofs -------------------------------
(***************************************************************************)
(* Proofs about what a mediator does with one request: Send, for any       *)
(* number of sends, behaviors and request types, a behaviors sequence of   *)
(* any length and any number of next() calls.                              *)
(***************************************************************************)
EXTENDS Send, DataLemmas

(* The chain compose builds, from the handler outwards.                    *)
IsChain(chain, behaviors) ==
  chain = [n \in 0 .. Len(behaviors) |->
             IF n = 0 THEN Innermost ELSE Wrap(behaviors[Len(behaviors) + 1 - n], chain[n - 1])]
Chain(behaviors) == CHOOSE chain : IsChain(chain, behaviors)

(* The calls open in a send are those layers, outermost first.             *)
Frames(behaviors) == [layer : {Chain(behaviors)[n] : n \in 0 .. Len(behaviors)}, nexts : Nat]
Onion(calls, behaviors) ==
  /\ calls \in Seq(Frames(behaviors)) /\ Len(calls) \in 1 .. Len(behaviors) + 1
  /\ \A i \in 1 .. Len(calls) : calls[i].layer = Chain(behaviors)[Len(behaviors) + 1 - i]

SendTypes ==
  /\ provided \subseteq Entries /\ broken \subseteq provided
  /\ registered \subseteq RequestTypes /\ wired \subseteq registered
  /\ mediator \in {"none", "ready", "refused"}
  /\ pipeline \in Seq(Behaviors) /\ IsInjective(pipeline)
  /\ request \in [Sends -> RequestTypes \cup {None}]
  /\ call \in [Sends -> {"idle", "running"} \cup Ended]
  /\ stack = [q \in Sends |-> stack[q]]

InSend(q) ==
  /\ call[q] # "idle" => mediator = "ready"
  /\ request[q] = None <=> call[q] = "idle"
  /\ IF call[q] = "running" THEN Onion(stack[q], Applicable(request[q])) ELSE stack[q] = <<>>

SendInv == SendTypes /\ \A q \in Sends : InSend(q)

-----------------------------------------------------------------------------
LEMMA ChainExists ==
  ASSUME NEW bs \in Seq(Behaviors)
  PROVE  \E chain : IsChain(chain, bs)
<1> DEFINE N == Len(bs)
           Upto(m) == \E c : c = [n \in 0 .. m |->
                         IF n = 0 THEN Innermost ELSE Wrap(bs[N + 1 - n], c[n - 1])]
           D == {m \in Nat : Upto(m)}
<1>1. 0 \in D
  <2> DEFINE c == [n \in 0 .. 0 |-> Innermost]
  <2>1. c = [n \in 0 .. 0 |-> IF n = 0 THEN Innermost ELSE Wrap(bs[N + 1 - n], c[n - 1])]
    OBVIOUS
  <2>. QED  BY <2>1
<1>2. ASSUME NEW m \in Nat, m \in D PROVE m + 1 \in D
  <2>1. PICK c : c = [n \in 0 .. m |-> IF n = 0 THEN Innermost ELSE Wrap(bs[N + 1 - n], c[n - 1])]
    BY <1>2
  <2> DEFINE g == [n \in 0 .. m + 1 |-> IF n = m + 1 THEN Wrap(bs[N + 1 - n], c[m]) ELSE c[n]]
  <2>2. ASSUME NEW n \in 0 .. m + 1
        PROVE  g[n] = IF n = 0 THEN Innermost ELSE Wrap(bs[N + 1 - n], g[n - 1])
    <3>1. CASE n = m + 1
      <4>1. g[n] = Wrap(bs[N + 1 - n], c[m]) /\ n # 0 /\ g[n - 1] = c[m]
        BY <3>1
      <4> HIDE DEF g
      <4>. QED  BY <4>1
    <3>2. CASE n = 0
      <4>1. g[0] = c[0] /\ c[0] = Innermost
        BY <2>1
      <4> HIDE DEF g
      <4>. QED  BY <3>2, <4>1
    <3>3. CASE n \in 1 .. m
      <4>1. g[n] = c[n] /\ g[n - 1] = c[n - 1]
        BY <3>3
      <4>2. n \in 0 .. m /\ n # 0
        BY <3>3
      <4>3. c[n] = Wrap(bs[N + 1 - n], c[n - 1])
        BY <2>1, <4>2
      <4> HIDE DEF g
      <4>. QED  BY <4>1, <4>2, <4>3
    <3>. QED  BY <3>1, <3>2, <3>3
  <2>3. g = [n \in 0 .. m + 1 |-> g[n]]
    OBVIOUS
  <2> HIDE DEF g
  <2>4. g = [n \in 0 .. m + 1 |-> IF n = 0 THEN Innermost ELSE Wrap(bs[N + 1 - n], g[n - 1])]
    BY <2>2, <2>3
  <2>5. Upto(m + 1)
    BY <2>4
  <2> HIDE DEF Upto
  <2>. QED  BY <2>5
<1> HIDE DEF D
<1>3. N \in D
  BY <1>1, <1>2, InductionOverNat
<1>. QED  BY <1>3 DEF D, IsChain

(* Its layers: the handler innermost, the first behavior outermost.        *)
LEMMA ChainLayers ==
  ASSUME NEW bs \in Seq(Behaviors)
  PROVE  /\ Compose(bs) = Chain(bs)[Len(bs)] /\ Chain(bs)[0] = Innermost
         /\ \A n \in 1 .. Len(bs) : Chain(bs)[n] = Wrap(bs[Len(bs) + 1 - n], Chain(bs)[n - 1])
<1>1. IsChain(Chain(bs), bs)
  BY ChainExists DEF Chain
<1>2. Compose(bs) = Chain(bs)[Len(bs)]
  BY DEF Compose, Chain, IsChain
<1>3. Len(bs) \in Nat
  OBVIOUS
<1>4. ASSUME NEW n \in 0 .. Len(bs)
      PROVE  Chain(bs)[n] = IF n = 0 THEN Innermost ELSE Wrap(bs[Len(bs) + 1 - n], Chain(bs)[n - 1])
  BY <1>1 DEF IsChain
<1>5. Chain(bs)[0] = Innermost
  BY <1>3, <1>4
<1>6. ASSUME NEW n \in 1 .. Len(bs)
      PROVE  Chain(bs)[n] = Wrap(bs[Len(bs) + 1 - n], Chain(bs)[n - 1])
  <2>1. n \in 0 .. Len(bs) /\ n # 0
    BY <1>3
  <2>. QED  BY <1>4, <2>1
<1>. QED  BY <1>2, <1>5, <1>6

LEMMA ApplicableType ==
  ASSUME SendTypes, NEW t
  PROVE  Applicable(t) \in Seq(Behaviors)
<1>1. Applicable(t) \in Seq(Behaviors \cap {b \in Behaviors : Applies(b, t)})
  BY SelectedType DEF SendTypes, Applicable
<1>. QED  BY <1>1, SeqMonotonic

LEMMA InitSend == Init => SendInv
<1>. SUFFICES ASSUME Init PROVE SendInv
  OBVIOUS
<1>1. SendTypes
  BY DEF Init, SendTypes, Ended, IsInjective
<1>2. ASSUME NEW q \in Sends PROVE InSend(q)
  BY DEF Init, InSend
<1>. QED  BY <1>1, <1>2 DEF SendInv

LEMMA ConstructSend ==
  ASSUME SendInv, NEW n \in 0 .. MaxListed, NEW listed \in [1 .. n -> Entries], Construct(listed)
  PROVE  SendInv'
<1>1. n \in Nat /\ listed \in Seq(Entries) /\ DOMAIN listed = 1 .. n
  <2>1. n \in Nat
    BY SendAssumption
  <2>. QED  BY <2>1
<1>2. ASSUME ~Rejected(listed) PROVE listed \in Seq(Behaviors) /\ IsInjective(listed)
  <2>1. \A i \in 1 .. n : listed[i] \in Behaviors
    BY <1>1, <1>2 DEF Rejected
  <2>2. ASSUME NEW i \in 1 .. n, NEW j \in 1 .. n, listed[i] = listed[j] PROVE i = j
    <3>1. ~(i < j) /\ ~(j < i)
      BY <1>1, <1>2, <2>2 DEF Rejected
    <3>. QED  BY <3>1
  <2>. QED  BY <1>1, <2>1, <2>2 DEF IsInjective
<1>3. mediator = "none" /\ UNCHANGED <<provided, broken, registered, wired, request, call, stack>>
  BY DEF Construct, environment
<1>4. SendTypes'
  <2>1. mediator' \in {"none", "ready", "refused"} /\ pipeline' \in Seq(Behaviors) /\ IsInjective(pipeline')
    BY <1>2 DEF Construct, SendInv, SendTypes
  <2>. QED  BY <1>3, <2>1 DEF SendInv, SendTypes
<1>5. ASSUME NEW q \in Sends PROVE InSend(q)'
  BY <1>3 DEF SendInv, InSend
<1>. QED  BY <1>4, <1>5 DEF SendInv

(* A send that starts has at most its outermost call open.                 *)
LEMMA StartSend ==
  ASSUME SendInv, NEW q \in Sends, NEW t \in RequestTypes, NEW outcome \in {"running"} \cup Ended,
         NEW calls, SendTo(q, t, outcome, calls),
         IF outcome = "running" THEN Onion(calls, Applicable(t)) ELSE calls = <<>>
  PROVE  SendInv'
<1>1. /\ mediator = "ready" /\ call[q] = "idle"
      /\ UNCHANGED <<provided, broken, registered, wired, mediator, pipeline>>
      /\ request' = [request EXCEPT ![q] = t] /\ call' = [call EXCEPT ![q] = outcome]
      /\ stack' = [stack EXCEPT ![q] = calls]
  BY DEF SendTo, environment
<1>2. SendTypes'
  <2>1. stack' = [r \in Sends |-> stack'[r]]
    BY <1>1 DEF SendInv, SendTypes
  <2>. QED  BY <1>1, <2>1 DEF SendInv, SendTypes
<1>3. \A r : Applicable(r)' = Applicable(r)
  BY <1>1 DEF Applicable, Applies
<1>4. ASSUME NEW r \in Sends PROVE InSend(r)'
  <2>1. CASE r = q
    <3>1. request'[q] = t /\ call'[q] = outcome /\ stack'[q] = calls
      BY <1>1 DEF SendInv, SendTypes
    <3>2. outcome # "idle" /\ t # None
      BY SendAssumption DEF Ended
    <3>. QED  BY <1>1, <1>3, <2>1, <3>1, <3>2 DEF InSend
  <2>2. CASE r # q
    <3>1. request'[r] = request[r] /\ call'[r] = call[r] /\ stack'[r] = stack[r]
      BY <1>1, <2>2 DEF SendInv, SendTypes
    <3>. QED  BY <1>1, <1>3, <3>1 DEF SendInv, InSend
  <2>. QED  BY <2>1, <2>2
<1>. QED  BY <1>2, <1>4 DEF SendInv

(* The running call opens one of the layer its own wraps.                  *)
LEMMA OnionNext ==
  ASSUME NEW bs \in Seq(Behaviors), NEW calls, Onion(calls, bs), calls[Len(calls)].layer.next # <<>>
  PROVE  Onion(Deeper(calls), bs)
<1> DEFINE N == Len(bs)
           n == Len(calls)
           c == [calls EXCEPT ![n].nexts = @ + 1]
           e == Enter(calls[n].layer.next[1])
<1>1. /\ N \in Nat /\ n \in 1 .. N + 1 /\ calls \in Seq(Frames(bs)) /\ n \in 1 .. n
      /\ calls[n] \in Frames(bs) /\ calls[n].layer = Chain(bs)[N + 1 - n]
  BY DEF Onion
<1>2. n \in 1 .. N
  <2>. SUFFICES ASSUME n = N + 1 PROVE FALSE
    BY <1>1
  <2>1. N + 1 - n = 0
    BY <1>1
  <2>2. calls[n].layer = Innermost
    BY <1>1, <2>1, ChainLayers
  <2>. QED  BY <2>2 DEF Innermost
<1>3. calls[n].layer.next[1] = Chain(bs)[N - n]
  <2>1. N + 1 - n \in 1 .. N /\ N + 1 - n - 1 = N - n
    BY <1>1, <1>2
  <2>2. Chain(bs)[N + 1 - n] = Wrap(bs[N + 1 - (N + 1 - n)], Chain(bs)[N - n])
    BY <2>1, ChainLayers
  <2>. QED  BY <1>1, <2>2 DEF Wrap
<1>4. e \in Frames(bs) /\ e.layer = Chain(bs)[N + 1 - (n + 1)]
  <2>1. N - n \in 0 .. N /\ N + 1 - (n + 1) = N - n
    BY <1>1, <1>2
  <2>2. e = [layer |-> Chain(bs)[N - n], nexts |-> 0]
    BY <1>3 DEF Enter
  <2>. QED  BY <2>1, <2>2 DEF Frames
<1>5. c \in Seq(Frames(bs)) /\ Len(c) = n /\ \A i \in 1 .. n : c[i].layer = calls[i].layer
  <2> DEFINE f == [calls[n] EXCEPT !.nexts = @ + 1]
  <2>1. f \in Frames(bs) /\ f.layer = calls[n].layer
    BY <1>1 DEF Frames
  <2>2. c = [calls EXCEPT ![n] = f]
    OBVIOUS
  <2> HIDE DEF f, c
  <2>3. c \in Seq(Frames(bs)) /\ Len(c) = n /\ \A i \in 1 .. n : c[i] = IF i = n THEN f ELSE calls[i]
    BY <1>1, <2>1, <2>2
  <2>. QED  BY <2>1, <2>3
<1>6. \A i \in 1 .. n : calls[i].layer = Chain(bs)[N + 1 - i]
  BY DEF Onion
<1> HIDE DEF c, e
<1> DEFINE d == Append(c, e)
<1>7. d \in Seq(Frames(bs)) /\ Len(d) = n + 1 /\ d[n + 1] = e /\ \A i \in 1 .. n : d[i] = c[i]
  BY <1>1, <1>4, <1>5, AppendProperties
<1> HIDE DEF d
<1>8. ASSUME NEW i \in 1 .. n + 1 PROVE d[i].layer = Chain(bs)[N + 1 - i]
  <2>1. CASE i = n + 1
    BY <1>4, <1>7, <2>1
  <2>2. CASE i # n + 1
    <3>1. i \in 1 .. n
      BY <1>1, <2>2
    <3>. QED  BY <1>5, <1>6, <1>7, <3>1
  <2>. QED  BY <2>1, <2>2
<1>9. Len(d) \in 1 .. N + 1
  BY <1>1, <1>2, <1>7
<1>10. Onion(d, bs)
  BY <1>7, <1>8, <1>9 DEF Onion
<1>. QED  BY <1>10 DEF d, c, e, Deeper, Last

LEMMA OnionLeave ==
  ASSUME NEW bs \in Seq(Behaviors), NEW calls, Onion(calls, bs)
  PROVE  IF Len(calls) = 1 THEN Front(calls) = <<>> ELSE Onion(Front(calls), bs)
<1> DEFINE n == Len(calls)
           f == Front(calls)
<1>1. /\ Len(bs) \in Nat /\ n \in 1 .. Len(bs) + 1 /\ n \in Nat
      /\ \A i \in 1 .. n : calls[i] \in Frames(bs) /\ calls[i].layer = Chain(bs)[Len(bs) + 1 - i]
  BY DEF Onion
<1>2. n - 1 \in Int /\ \A i \in 1 .. n - 1 : calls[i] \in Frames(bs)
  BY <1>1
<1>3. /\ f \in Seq(Frames(bs)) /\ Len(f) = IF 1 <= n - 1 THEN n - 1 - 1 + 1 ELSE 0
      /\ \A i \in 1 .. n - 1 - 1 + 1 : f[i] = calls[1 + i - 1]
  BY <1>2, SubSeqProperties DEF Front
<1> HIDE DEF f
<1>4. Len(f) = n - 1 /\ \A i \in 1 .. n - 1 : f[i] = calls[i]
  <2>1. Len(f) = n - 1
    <3>1. n \in Nat /\ 1 <= n /\ Len(f) = IF 1 <= n - 1 THEN n - 1 - 1 + 1 ELSE 0
      BY <1>1, <1>3
    <3> HIDE DEF n
    <3>. QED  BY <3>1
  <2>2. ASSUME NEW i \in 1 .. n - 1 PROVE f[i] = calls[i]
    <3>1. i \in 1 .. n - 1 - 1 + 1 /\ 1 + i - 1 = i
      BY <1>1
    <3>. QED  BY <1>3, <3>1
  <2>. QED  BY <2>1, <2>2
<1>5. CASE n = 1
  <2>1. Len(f) = 0
    BY <1>4, <1>5
  <2>2. f = <<>>
    BY <1>3, <2>1, EmptySeq
  <2>. QED  BY <1>5, <2>2 DEF f
<1>6. CASE n # 1
  <2>1. Len(f) \in 1 .. Len(bs) + 1 /\ \A i \in 1 .. Len(f) : f[i].layer = Chain(bs)[Len(bs) + 1 - i]
    BY <1>1, <1>4, <1>6
  <2>2. Onion(f, bs)
    BY <1>3, <2>1 DEF Onion
  <2>. QED  BY <1>6, <2>2 DEF f
<1>. QED  BY <1>5, <1>6

(* A step of a running send leaves it running on other calls, or ends it.  *)
LEMMA RunSend ==
  ASSUME SendInv, NEW q \in Sends, call[q] = "running", NEW calls, NEW outcome,
         stack' = [stack EXCEPT ![q] = calls], call' = [call EXCEPT ![q] = outcome],
         UNCHANGED <<environment, mediator, pipeline, request>>,
         \/ outcome = "running" /\ Onion(calls, Applicable(request[q]))
         \/ outcome \in Ended /\ calls = <<>>
  PROVE  SendInv'
<1>1. UNCHANGED <<provided, broken, registered, wired, mediator, pipeline, request>>
  BY DEF environment
<1>2. SendTypes'
  <2>1. stack' = [r \in Sends |-> stack'[r]] /\ outcome \in {"running"} \cup Ended
    BY DEF SendInv, SendTypes
  <2>. QED  BY <1>1, <2>1 DEF SendInv, SendTypes
<1>3. \A r : Applicable(r)' = Applicable(r)
  BY <1>1 DEF Applicable, Applies
<1>4. ASSUME NEW r \in Sends PROVE InSend(r)'
  <2>1. CASE r = q
    <3>1. call'[q] = outcome /\ stack'[q] = calls /\ request[q] # None /\ mediator = "ready"
      BY DEF SendInv, SendTypes, InSend
    <3>2. outcome # "idle" /\ (outcome \in Ended => outcome # "running")
      BY DEF Ended
    <3>. QED  BY <1>1, <1>3, <2>1, <3>1, <3>2 DEF InSend
  <2>2. CASE r # q
    <3>1. call'[r] = call[r] /\ stack'[r] = stack[r]
      BY <2>2 DEF SendInv, SendTypes
    <3>. QED  BY <1>1, <1>3, <3>1 DEF SendInv, InSend
  <2>. QED  BY <2>1, <2>2
<1>. QED  BY <1>2, <1>4 DEF SendInv

LEMMA NextSend == SendInv /\ [Next]_vars => SendInv'
<1>. SUFFICES ASSUME SendInv, [Next]_vars PROVE SendInv'
  OBVIOUS
<1>0. \A t : Applicable(t) \in Seq(Behaviors)
  BY ApplicableType DEF SendInv
<1>1. ASSUME NEW n \in 0 .. MaxListed, NEW listed \in [1 .. n -> Entries], Construct(listed)
      PROVE  SendInv'
  BY <1>1, ConstructSend
<1>2. ASSUME NEW q \in Sends, NEW t \in RequestTypes, SendUnresolved(q, t)
      PROVE  SendInv'
  <2>1. PICK outcome \in {"nohandler", "noservice"} : SendTo(q, t, outcome, <<>>)
    BY <1>2 DEF SendUnresolved
  <2>. QED  BY <2>1, StartSend DEF Ended
<1>3. ASSUME NEW q \in Sends, NEW t \in RequestTypes, SendResolved(q, t)
      PROVE  SendInv'
  <2> DEFINE bs == Applicable(t)
             calls == <<Enter(Compose(bs))>>
  <2>1. bs \in Seq(Behaviors) /\ Len(bs) \in Nat
    BY <1>0
  <2>2. Onion(calls, bs)
    <3>1. Compose(bs) = Chain(bs)[Len(bs)] /\ Len(bs) \in 0 .. Len(bs) /\ Len(bs) + 1 - 1 = Len(bs)
      BY <2>1, ChainLayers
    <3>2. Enter(Compose(bs)) = [layer |-> Chain(bs)[Len(bs)], nexts |-> 0]
      BY <3>1 DEF Enter
    <3>3. Enter(Compose(bs)) \in Frames(bs)
      BY <3>1, <3>2 DEF Frames
    <3> HIDE DEF bs
    <3>4. calls \in Seq(Frames(bs)) /\ Len(calls) = 1 /\ calls[1] = Enter(Compose(bs))
      BY <3>3
    <3>. QED  BY <2>1, <3>1, <3>2, <3>4 DEF Onion
  <2>3. SendTo(q, t, "running", calls)
    BY <1>3 DEF SendResolved
  <2> HIDE DEF calls
  <2>. QED  BY <2>2, <2>3, StartSend
<1>4. ASSUME NEW q \in Sends, CallNext(q) PROVE SendInv'
  <2> DEFINE old == stack[q]
             calls == Deeper(old)
  <2>1. /\ call[q] = "running" /\ old[Len(old)].layer.next # <<>>
        /\ stack' = [stack EXCEPT ![q] = calls]
        /\ UNCHANGED <<environment, mediator, pipeline, request, call>>
    BY <1>4 DEF CallNext, Running, Last
  <2>2. Onion(old, Applicable(request[q]))
    BY <2>1 DEF SendInv, InSend
  <2>3. Onion(calls, Applicable(request[q]))
    BY <1>0, <2>1, <2>2, OnionNext
  <2>4. call' = [call EXCEPT ![q] = "running"]
    BY <2>1 DEF SendInv, SendTypes
  <2> HIDE DEF calls
  <2>. QED  BY <2>1, <2>3, <2>4, RunSend
<1>5. ASSUME NEW q \in Sends, NEW how \in {"returned", "raised"}, Leave(q, how) PROVE SendInv'
  <2> DEFINE old == stack[q]
  <2>1. /\ call[q] = "running" /\ stack' = [stack EXCEPT ![q] = Front(old)]
        /\ call' = IF Len(old) = 1 THEN [call EXCEPT ![q] = how] ELSE call
        /\ UNCHANGED <<environment, mediator, pipeline, request>>
    BY <1>5 DEF Leave, SendInv, SendTypes
  <2>2. Onion(old, Applicable(request[q]))
    BY <2>1 DEF SendInv, InSend
  <2>3. IF Len(old) = 1 THEN Front(old) = <<>> ELSE Onion(Front(old), Applicable(request[q]))
    BY <1>0, <2>2, OnionLeave
  <2>4. CASE Len(old) = 1
    <3>1. call' = [call EXCEPT ![q] = how]
      BY <2>1, <2>4
    <3>. QED  BY <2>1, <2>3, <2>4, <3>1, RunSend DEF Ended
  <2>5. CASE Len(old) # 1
    <3>1. call' = [call EXCEPT ![q] = "running"]
      BY <2>1, <2>5 DEF SendInv, SendTypes
    <3>. QED  BY <2>1, <2>3, <2>5, <3>1, RunSend
  <2>. QED  BY <2>4, <2>5
<1>6. CASE UNCHANGED vars
  BY <1>6 DEF vars, SendInv, SendTypes, InSend, Applicable, Applies
<1>. QED  BY <1>1, <1>2, <1>3, <1>4, <1>5, <1>6 DEF Next

LEMMA AlwaysSendInv == Spec => []SendInv
  BY InitSend, NextSend, PTL DEF Spec

(* The states of the mediator and of its sends have their types, and a     *)
(* send has calls open exactly while it runs.                              *)
THEOREM SendsAreTyped == Spec => []TypeOK
<1>1. SendInv => TypeOK
  <2>. SUFFICES ASSUME SendInv PROVE TypeOK
    OBVIOUS
  <2>1. ASSUME NEW q \in Sends PROVE stack[q] # <<>> <=> call[q] = "running"
    <3>1. call[q] = "running" => stack[q] # <<>>
      <4>. SUFFICES ASSUME call[q] = "running", stack[q] = <<>> PROVE FALSE
        OBVIOUS
      <4>1. Len(stack[q]) # 0
        BY DEF SendInv, InSend, Onion
      <4>. QED  BY <4>1
    <3>. QED  BY <3>1 DEF SendInv, InSend
  <2>. QED  BY <2>1 DEF SendInv, SendTypes, InSend, TypeOK
<1>. QED  BY <1>1, AlwaysSendInv, PTL

(* compose and should_apply: however sends overlap and behaviors retry or  *)
(* cut short, the calls open in a send are the layers its request type     *)
(* asks for, in the order of the behaviors sequence, the handler inmost.   *)
THEOREM SendsKeepTheOnion == Spec => []OnionOrder
<1>1. SendInv => OnionOrder
  <2>. SUFFICES ASSUME SendInv, NEW q \in Sends, call[q] = "running"
                PROVE  IsPrefix([i \in DOMAIN stack[q] |-> stack[q][i].layer.runs], Layers(request[q]))
    BY DEF OnionOrder
  <2> DEFINE t == request[q]
             bs == Applicable(t)
             calls == stack[q]
             runs == [i \in 1 .. Len(calls) |-> calls[i].layer.runs]
  <2>1. t \in RequestTypes /\ Onion(calls, bs) /\ bs \in Seq(Behaviors) /\ Len(bs) \in Nat
    <3>1. t \in RequestTypes \cup {None} /\ t # None
      BY DEF SendInv, SendTypes, InSend
    <3>. QED  BY <3>1, ApplicableType DEF SendInv, InSend
  <2>2. Layers(t) = Append(bs, Handler)
    <3>1. \A b \in Behaviors : Applies(b, t) <=> MatchType[b] \in Scope(b, t) \cup {Request}
      <4>. SUFFICES ASSUME NEW b \in Behaviors
                    PROVE  Applies(b, t) <=> MatchType[b] \in Scope(b, t) \cup {Request}
        OBVIOUS
      <4>1. MatchType[b] \in RequestTypes \cup {Request} /\ \A u : <<t, u>> \in IsA => u \in RequestTypes
        BY SendAssumption
      <4>. QED  BY <2>1, <4>1 DEF Applies, Scope
    <3>2. {b \in Behaviors : Applies(b, t)} =
            {b \in Behaviors : MatchType[b] \in Scope(b, t) \cup {Request}}
      BY <3>1
    <3>. QED  BY <3>2, Zenon DEF Layers, Applicable
  <2>3. /\ Len(calls) \in 1 .. Len(bs) + 1 /\ DOMAIN calls = 1 .. Len(calls) /\ Len(calls) \in Nat
        /\ \A i \in 1 .. Len(calls) : calls[i].layer = Chain(bs)[Len(bs) + 1 - i]
    BY <2>1 DEF Onion
  <2> DEFINE all == Append(bs, Handler)
  <2>4. /\ all \in Seq(Behaviors \cup {Handler}) /\ Len(all) = Len(bs) + 1
        /\ all[Len(bs) + 1] = Handler /\ \A i \in 1 .. Len(bs) : all[i] = bs[i]
    <3>1. bs \in Seq(Behaviors \cup {Handler})
      BY <2>1, SeqMonotonic
    <3>. QED  BY <3>1, AppendProperties
  <2> HIDE DEF all, bs
  <2>5. ASSUME NEW i \in 1 .. Len(calls) PROVE calls[i].layer.runs = all[i]
    <3>1. CASE i = Len(bs) + 1
      <4>1. Len(bs) + 1 - i = 0
        BY <2>1, <3>1
      <4>2. calls[i].layer = Innermost
        BY <2>1, <2>3, <4>1, ChainLayers
      <4>. QED  BY <2>4, <3>1, <4>2 DEF Innermost
    <3>2. CASE i # Len(bs) + 1
      <4>1. Len(bs) + 1 - i \in 1 .. Len(bs) /\ Len(bs) + 1 - (Len(bs) + 1 - i) = i /\ i \in 1 .. Len(bs)
        BY <2>1, <2>3, <3>2
      <4>2. Chain(bs)[Len(bs) + 1 - i] = Wrap(bs[i], Chain(bs)[Len(bs) + 1 - i - 1])
        BY <2>1, <4>1, ChainLayers
      <4>. QED  BY <2>3, <2>4, <4>1, <4>2 DEF Wrap
    <3>. QED  BY <3>1, <3>2
  <2> HIDE DEF calls
  <2>6. runs \in Seq(Behaviors \cup {Handler}) /\ Len(runs) = Len(calls)
        /\ \A i \in 1 .. Len(runs) : runs[i] = all[i]
    <3>1. \A i \in 1 .. Len(calls) : runs[i] = all[i] /\ all[i] \in Behaviors \cup {Handler}
      BY <2>1, <2>3, <2>4, <2>5
    <3>2. runs \in Seq(Behaviors \cup {Handler}) /\ Len(runs) = Len(calls)
      BY <2>3, <3>1
    <3>. QED  BY <3>1, <3>2
  <2> HIDE DEF runs
  <2>7. Len(runs) <= Len(all)
    BY <2>1, <2>3, <2>4, <2>6
  <2>8. IsPrefix(runs, all)
    BY <2>4, <2>6, <2>7, PrefixOf
  <2>. QED  BY <2>2, <2>3, <2>8 DEF runs, calls, all, bs
<1>. QED  BY <1>1, AlwaysSendInv, PTL
===============================================================================
