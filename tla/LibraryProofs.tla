----------------------------- MODULE LibraryProofs -----------------------------
(***************************************************************************)
(* Proofs about the parts around the core: Streams, for any number of      *)
(* consumers and handler classes and completions of any length;            *)
(* Providers, for any container, composition and type hierarchy;           *)
(* ReleaseCut and Release, for any number of commits, dispatches, tags and *)
(* re-runs; ExamplesRunner and UvPin; and then MCLibrary, any of them.     *)
(***************************************************************************)
EXTENDS MCLibrary, DataLemmas

-----------------------------------------------------------------------------
(* Streams.                                                                *)
Tokens == 1 .. Completion
Emissions == [for : Consumers, by : 1 .. MaxClasses, token : Tokens]

StreamTypes ==
  /\ classes \in 0 .. MaxClasses /\ handlerClass \in 0 .. classes
  /\ instances \subseteq 1 .. MaxClasses
  /\ stream \in [Consumers -> {"none", "open", "awaiting", "spent", "closed",
                               "HandlerNotFound", "ServiceNotFound"}]
  /\ source \in [Consumers -> 0 .. MaxClasses]
  /\ position \in [Consumers -> 0 .. Completion]
  /\ received \in [Consumers -> Seq(Tokens)]
  /\ emitted \in Seq(Emissions)

(* A generator exists from its stream() call on, and is of a handler the   *)
(* provider has; a pull that awaits has a token to come.                   *)
Generators ==
  \A c \in Consumers :
    /\ stream[c] = "none" => position[c] = 0
    /\ stream[c] \in {"open", "awaiting", "spent", "closed"} => source[c] \in instances
    /\ stream[c] = "awaiting" => position[c] < Completion

(* A consumer has been given the tokens up to its generator's position.    *)
PrefixOfScript ==
  \A c \in Consumers :
    Len(received[c]) = position[c] /\ \A n \in 1 .. position[c] : received[c][n] = n

(* What has been recorded for a consumer are those tokens, each once and   *)
(* in order, by the handler its stream came from.                          *)
Emitted ==
  /\ \A c \in Consumers : \A n \in 1 .. position[c] :
       \E i \in 1 .. Len(emitted) : emitted[i].for = c /\ emitted[i].token = n
  /\ \A i \in 1 .. Len(emitted) :
       /\ emitted[i].token <= position[emitted[i].for]
       /\ emitted[i].by = source[emitted[i].for] /\ emitted[i].by \in instances
  /\ \A i, j \in 1 .. Len(emitted) :
       i < j /\ emitted[i].for = emitted[j].for => emitted[i].token < emitted[j].token

StreamsInv == StreamTypes /\ Generators /\ PrefixOfScript /\ Emitted

-----------------------------------------------------------------------------
LEMMA InitStreams == StreamsInit => StreamsInv
  BY StreamsAssumption DEF StreamsInit, StreamsInv, StreamTypes, Generators, PrefixOfScript, Emitted

(* What SyncNext and Arrive have in common: one token, recorded for and    *)
(* given to the consumer whose generator ran.                              *)
LEMMA YieldStep ==
  ASSUME StreamsInv, NEW c \in Consumers, Yield(c),
         stream[c] \in {"open", "awaiting"}, position[c] < Completion,
         UNCHANGED <<handlerClass, classes, instances, source>>,
         stream' = [stream EXCEPT ![c] = "open"]
  PROVE  StreamsInv'
  <1>0. /\ Len(emitted) \in Nat
        /\ \A i \in 1 .. Len(emitted) :
             /\ emitted[i].for \in Consumers /\ emitted[i].by \in 1 .. MaxClasses
             /\ emitted[i].token \in Nat
        /\ \A d \in Consumers : position[d] \in Nat /\ Len(received[d]) = position[d]
        /\ \A d \in Consumers : \A n \in 1 .. position[d] : received[d][n] = n
    <2>1. emitted \in Seq(Emissions)
      BY DEF StreamsInv, StreamTypes
    <2>2. Len(emitted) \in Nat /\ \A i \in 1 .. Len(emitted) : emitted[i] \in Emissions
      BY <2>1
    <2>3. \A i \in 1 .. Len(emitted) :
            /\ emitted[i].for \in Consumers /\ emitted[i].by \in 1 .. MaxClasses
            /\ emitted[i].token \in Nat
      BY <2>2 DEF Emissions, Tokens
    <2>4. \A d \in Consumers : position[d] \in Nat
      BY StreamsAssumption DEF StreamsInv, StreamTypes
    <2> QED BY <2>2, <2>3, <2>4 DEF StreamsInv, PrefixOfScript
  <1> DEFINE e == [for |-> c, by |-> source[c], token |-> position[c] + 1]
  <1>1. e \in Emissions /\ position[c] + 1 \in Tokens /\ source[c] \in instances
    BY StreamsAssumption DEF StreamsInv, StreamTypes, Generators, Emissions, Tokens
  <1>2. /\ emitted' = Append(emitted, e)
        /\ position' = [position EXCEPT ![c] = @ + 1]
        /\ received' = [received EXCEPT ![c] = Append(@, position[c] + 1)]
    BY DEF Yield, Record, Producer
  <1>3. /\ emitted' \in Seq(Emissions) /\ Len(emitted') = Len(emitted) + 1
        /\ \A i \in 1 .. Len(emitted) : emitted'[i] = emitted[i]
        /\ emitted'[Len(emitted) + 1] = e
    BY <1>1, <1>2, AppendProperties DEF StreamsInv, StreamTypes
  <1>4. /\ received[c] \in Seq(Tokens)
        /\ received'[c] = Append(received[c], position[c] + 1)
        /\ \A d \in Consumers \ {c} : received'[d] = received[d]
    BY <1>2 DEF StreamsInv, StreamTypes
  <1>5. /\ received'[c] \in Seq(Tokens) /\ Len(received'[c]) = Len(received[c]) + 1
        /\ \A n \in 1 .. Len(received[c]) : received'[c][n] = received[c][n]
        /\ received'[c][Len(received[c]) + 1] = position[c] + 1
    BY <1>1, <1>4, AppendProperties
  <1>6. /\ position' \in [Consumers -> 0 .. Completion] /\ position'[c] = position[c] + 1
        /\ \A d \in Consumers \ {c} : position'[d] = position[d]
        /\ \A d \in Consumers : position'[d] \in Nat /\ position[d] <= position'[d]
    BY <1>2, StreamsAssumption DEF StreamsInv, StreamTypes
  <1>7. received' \in [Consumers -> Seq(Tokens)]
    BY <1>2, <1>4, <1>5, Zenon DEF StreamsInv, StreamTypes
  <1>8. StreamTypes'
    BY <1>3, <1>6, <1>7 DEF StreamsInv, StreamTypes
  <1>9. Generators'
    BY <1>1, <1>6 DEF StreamsInv, StreamTypes, Generators
  <1>10. PrefixOfScript'
    <2> SUFFICES ASSUME NEW d \in Consumers
                 PROVE  /\ Len(received'[d]) = position'[d]
                        /\ \A n \in 1 .. position'[d] : received'[d][n] = n
      BY DEF PrefixOfScript
    <2>1. CASE d = c
      <3>1. Len(received'[c]) = position'[c] /\ position'[c] = position[c] + 1
        BY <1>0, <1>5, <1>6
      <3>2. ASSUME NEW n \in 1 .. position[c] + 1 PROVE received'[c][n] = n
        <4>1. CASE n = position[c] + 1
          BY <1>0, <1>5, <4>1
        <4>2. CASE n # position[c] + 1
          <5>1. n \in 1 .. position[c]
            BY <1>0, <4>2
          <5> QED BY <1>0, <1>5, <5>1
        <4> QED BY <4>1, <4>2
      <3> QED BY <2>1, <3>1, <3>2
    <2>2. CASE d # c
      BY <1>0, <1>4, <1>6, <2>2
    <2> QED BY <2>1, <2>2
  <1>11. Emitted'
    <2>1. ASSUME NEW d \in Consumers, NEW n \in 1 .. position'[d]
          PROVE  \E i \in 1 .. Len(emitted') : emitted'[i].for = d /\ emitted'[i].token = n
      <3>1. CASE d = c /\ n = position[c] + 1
        BY <1>0, <1>3, <3>1
      <3>2. CASE d # c \/ n # position[c] + 1
        <4>1. n \in 1 .. position[d]
          BY <1>0, <1>6, <2>1, <3>2
        <4>2. PICK i \in 1 .. Len(emitted) : emitted[i].for = d /\ emitted[i].token = n
          BY <4>1 DEF StreamsInv, Emitted
        <4>3. i \in 1 .. Len(emitted') /\ emitted'[i].for = d /\ emitted'[i].token = n
          BY <1>0, <1>3, <4>2
        <4> QED BY <4>3
      <3> QED BY <3>1, <3>2
    <2>2. ASSUME NEW i \in 1 .. Len(emitted')
          PROVE  /\ emitted'[i].token <= position'[emitted'[i].for]
                 /\ emitted'[i].by = source[emitted'[i].for] /\ emitted'[i].by \in instances
      <3>1. CASE i = Len(emitted) + 1
        BY <1>0, <1>1, <1>3, <1>6, <3>1
      <3>2. CASE i \in 1 .. Len(emitted)
        <4>1. emitted'[i] = emitted[i] /\ emitted[i].for \in Consumers
          BY <1>0, <1>3, <3>2
        <4>2. /\ position[emitted[i].for] <= position'[emitted[i].for]
              /\ position[emitted[i].for] \in Nat /\ position'[emitted[i].for] \in Nat
          BY <1>0, <1>6, <4>1, Zenon
        <4>3. /\ emitted[i].token <= position[emitted[i].for]
              /\ emitted[i].by = source[emitted[i].for] /\ emitted[i].by \in instances
          BY <3>2 DEF StreamsInv, Emitted
        <4> QED BY <1>0, <3>2, <4>1, <4>2, <4>3
      <3> QED BY <1>0, <1>3, <2>2, <3>1, <3>2
    <2>3. ASSUME NEW i \in 1 .. Len(emitted'), NEW j \in 1 .. Len(emitted'),
                 i < j, emitted'[i].for = emitted'[j].for
          PROVE  emitted'[i].token < emitted'[j].token
      <3>1. i \in 1 .. Len(emitted) /\ emitted'[i] = emitted[i]
        BY <1>0, <1>3, <2>3
      <3>2. CASE j = Len(emitted) + 1
        <4>1. emitted[i].token <= position[c]
          BY <1>3, <2>3, <3>1, <3>2 DEF StreamsInv, Emitted
        <4> QED BY <1>0, <1>3, <3>1, <3>2, <4>1
      <3>3. CASE j \in 1 .. Len(emitted)
        BY <1>3, <2>3, <3>1, <3>3 DEF StreamsInv, Emitted
      <3>4. j = Len(emitted) + 1 \/ j \in 1 .. Len(emitted)
        BY <1>0, <1>3
      <3> QED BY <3>2, <3>3, <3>4
    <2> QED BY <2>1, <2>2, <2>3 DEF Emitted
  <1> QED BY <1>8, <1>9, <1>10, <1>11 DEF StreamsInv

LEMMA NextStreams == StreamsInv /\ [StreamsNext]_streamVars => StreamsInv'
  <1> SUFFICES ASSUME StreamsInv, [StreamsNext]_streamVars PROVE StreamsInv'
    OBVIOUS
  <1>1. CASE ClearHandlers
    BY <1>1 DEF ClearHandlers, StreamsInv, StreamTypes, Generators, PrefixOfScript, Emitted
  <1>2. CASE DefineHandler
    <2>1. StreamTypes'
      BY <1>2, StreamsAssumption DEF DefineHandler, StreamsInv, StreamTypes
    <2>2. Generators' /\ PrefixOfScript' /\ Emitted'
      BY <1>2 DEF DefineHandler, StreamsInv, StreamTypes, Generators, PrefixOfScript, Emitted
    <2> QED BY <2>1, <2>2 DEF StreamsInv
  <1>3. ASSUME NEW c \in Consumers, Stream(c) PROVE StreamsInv'
    <2>1. StreamTypes'
      BY <1>3, StreamsAssumption DEF Stream, Resolved, handlerRegistry, StreamsInv, StreamTypes
    <2>2. Generators'
      BY <1>3 DEF Stream, Resolved, handlerRegistry, StreamsInv, StreamTypes, Generators
    <2>3. \A i \in 1 .. Len(emitted) : emitted[i].for # c
      <3> SUFFICES ASSUME NEW i \in 1 .. Len(emitted), emitted[i].for = c PROVE FALSE
        OBVIOUS
      <3>1. emitted[i] \in Emissions /\ position[c] = 0
        BY <1>3 DEF Stream, StreamsInv, StreamTypes, Generators
      <3> QED BY <3>1 DEF StreamsInv, Emitted, Emissions, Tokens
    <2>4. PrefixOfScript'
      BY <1>3 DEF Stream, StreamsInv, PrefixOfScript
    <2>5. \A i \in 1 .. Len(emitted) : source'[emitted[i].for] = source[emitted[i].for]
      <3>1. \A i \in 1 .. Len(emitted) : emitted[i] \in Emissions
        BY DEF StreamsInv, StreamTypes
      <3>2. \A i \in 1 .. Len(emitted) : emitted[i].for \in Consumers
        BY <3>1 DEF Emissions
      <3>3. \A d \in Consumers : d # c => source'[d] = source[d]
        BY <1>3 DEF Stream, StreamsInv, StreamTypes
      <3> QED BY <2>3, <3>2, <3>3
    <2>6. Emitted'
      BY <1>3, <2>5 DEF Stream, handlerRegistry, StreamsInv, Emitted
    <2> QED BY <2>1, <2>2, <2>4, <2>6 DEF StreamsInv
  <1>4. ASSUME NEW c \in Consumers, SyncNext(c) PROVE StreamsInv'
    <2>1. stream' = [stream EXCEPT ![c] = "open"]
      BY <1>4 DEF SyncNext, StreamsInv, StreamTypes
    <2> QED BY <1>4, <2>1, YieldStep DEF SyncNext, handlerRegistry
  <1>5. ASSUME NEW c \in Consumers, AsyncNext(c) PROVE StreamsInv'
    BY <1>5 DEF AsyncNext, handlerRegistry, StreamsInv, StreamTypes, Generators, PrefixOfScript, Emitted
  <1>6. ASSUME NEW c \in Consumers, Arrive(c) PROVE StreamsInv'
    BY <1>6, YieldStep DEF Arrive, handlerRegistry, StreamsInv, Generators
  <1>7. ASSUME NEW c \in Consumers, Exhaust(c) \/ Stop(c) PROVE StreamsInv'
    <2>1. PICK to \in {"spent", "closed"} : stream' = [stream EXCEPT ![c] = to]
      BY <1>7 DEF Exhaust, Stop
    <2>2. stream[c] \in {"open", "awaiting"}
          /\ UNCHANGED <<handlerClass, classes, instances, source, position, received, emitted>>
      BY <1>7 DEF Exhaust, Stop, handlerRegistry
    <2>3. StreamTypes'
      BY <2>1, <2>2 DEF StreamsInv, StreamTypes
    <2>4. Generators'
      BY <2>1, <2>2 DEF StreamsInv, StreamTypes, Generators
    <2>5. PrefixOfScript' /\ Emitted'
      BY <2>2 DEF StreamsInv, PrefixOfScript, Emitted
    <2> QED BY <2>3, <2>4, <2>5 DEF StreamsInv
  <1>8. CASE UNCHANGED streamVars
    BY <1>8 DEF streamVars, StreamsInv, StreamTypes, Generators, PrefixOfScript, Emitted
  <1> QED BY <1>1, <1>2, <1>3, <1>4, <1>5, <1>6, <1>7, <1>8 DEF StreamsNext

LEMMA AlwaysStreamsInv == StreamsSpec => []StreamsInv
  BY InitStreams, NextStreams, PTL DEF StreamsSpec

(* Mediator.stream: however consumers interleave, break off or are         *)
(* cancelled, and whatever is registered or cleared meanwhile, nothing is  *)
(* produced ahead of consumption, nothing is lost to another stream, and   *)
(* every token comes from the handler that its call resolved.              *)
THEOREM StreamsFollow == StreamsSpec => []StreamsFollowTheirConsumers
  <1>1. StreamsInv => StreamsFollowTheirConsumers
    <2> SUFFICES ASSUME StreamsInv PROVE StreamsFollowTheirConsumers
      OBVIOUS
    <2>1. /\ DOMAIN emitted = 1 .. Len(emitted)
          /\ \A i \in 1 .. Len(emitted) : emitted[i] \in Emissions
          /\ \A c \in Consumers : DOMAIN received[c] = 1 .. position[c]
      BY DEF StreamsInv, StreamTypes, PrefixOfScript
    <2>2. NothingAheadOfConsumption
      <3>1. \A i \in 1 .. Len(emitted) : emitted[i].token \in 1 .. position[emitted[i].for]
                                           /\ emitted[i].for \in Consumers
        <4> SUFFICES ASSUME NEW i \in 1 .. Len(emitted)
                     PROVE  emitted[i].token \in 1 .. position[emitted[i].for]
                            /\ emitted[i].for \in Consumers
          OBVIOUS
        <4>1. emitted[i].for \in Consumers /\ emitted[i].token \in 1 .. Completion
          BY <2>1 DEF Emissions, Tokens
        <4>2. position[emitted[i].for] \in Nat
          BY <4>1, StreamsAssumption DEF StreamsInv, StreamTypes
        <4> QED BY <4>1, <4>2, StreamsAssumption DEF StreamsInv, Emitted
      <3>2. \A c \in Consumers : \A n \in DOMAIN received[c] :
              /\ received[c][n] = n
              /\ \E i \in DOMAIN emitted : emitted[i].for = c /\ emitted[i].token = n
        <4> SUFFICES ASSUME NEW c \in Consumers, NEW n \in DOMAIN received[c]
                     PROVE  /\ received[c][n] = n
                            /\ \E i \in DOMAIN emitted : emitted[i].for = c /\ emitted[i].token = n
          OBVIOUS
        <4>1. n \in 1 .. position[c] /\ DOMAIN emitted = 1 .. Len(emitted)
          BY <2>1
        <4>2. received[c][n] = n
          BY <4>1 DEF StreamsInv, PrefixOfScript
        <4>3. \E i \in 1 .. Len(emitted) : emitted[i].for = c /\ emitted[i].token = n
          BY <4>1 DEF StreamsInv, Emitted
        <4> QED BY <4>1, <4>2, <4>3
      <3>3. \A i \in DOMAIN emitted : emitted[i].token \in DOMAIN received[emitted[i].for]
        BY <2>1, <3>1, Zenon
      <3>4. \A i, j \in DOMAIN emitted :
              i < j /\ emitted[i].for = emitted[j].for => emitted[i].token < emitted[j].token
        BY <2>1, Zenon DEF StreamsInv, Emitted
      <3> QED BY <3>2, <3>3, <3>4 DEF NothingAheadOfConsumption
    <2>3. StreamKeepsItsHandler
      BY <2>1 DEF StreamKeepsItsHandler, StreamsInv, Emitted, Emissions
    <2> QED BY <2>2, <2>3 DEF StreamsFollowTheirConsumers
  <1> QED BY <1>1, AlwaysStreamsInv, PTL

-----------------------------------------------------------------------------
(* Release.                                                                *)
Statuses == {"waiting", "served", "noted", "passed", "failed"}

ReleaseTypes ==
  /\ tags \in 0 .. MaxTag /\ reruns \in 0 .. MaxReruns
  /\ job \in [Versions -> [Jobs -> Statuses]]
  /\ uploads \in [Indexes -> [Versions -> 0 .. 1]]
  /\ attempt \in [Versions -> [IndexTests -> 0 .. Attempts - 1]]
  /\ released \in Seq(Versions)
  /\ DOMAIN notes = Versions

(* What a job's progress says of the jobs it needs: nothing that passed is *)
(* ever undone, re-runs included.                                          *)
OrderedIn(v) ==
  /\ job[v]["publishTest"] = "passed" => job[v]["examplesWheel"] = "passed"
  /\ job[v]["examplesTest"] \in {"served", "passed"} =>
       job[v]["examplesWheel"] = "passed" /\ <<"TestPyPI", v>> \in served
  /\ uploads["PyPI"][v] > 0 => job[v]["examplesTest"] = "passed"
Ordered == \A v \in Versions : OrderedIn(v)

(* A Release is published once, after its notes were drafted, and these    *)
(* start right after nothing or after a published Release.                 *)
Drafted ==
  /\ \A v \in ToSet(released) : job[v]["createRelease"] = "passed"
  /\ \A v \in Versions : job[v]["createRelease"] \in {"noted", "passed"} =>
       \E b \in {0} \cup ToSet(released) : notes[v] = b + 1 .. v
  /\ IsFiniteSet(ToSet(released)) /\ Cardinality(ToSet(released)) = Len(released)

ReleaseInv == ReleaseTypes /\ Ordered /\ Drafted /\ NotesCoverEverything

-----------------------------------------------------------------------------
LEMMA NeedsOfJobs ==
  /\ "examplesWheel" \in JobNeeds("publishTest")
  /\ "publishTest" \in JobNeeds("examplesTest")
  /\ "examplesTest" \in JobNeeds("publishPyPI")
  BY DEF JobNeeds

LEMMA InitRelease == ReleaseInit => ReleaseInv
  <1> SUFFICES ASSUME ReleaseInit PROVE ReleaseInv
    OBVIOUS
  <1>1. ReleaseTypes
    BY ReleaseAssumption DEF ReleaseInit, ReleaseTypes, Statuses, Versions, Indexes
  <1>2. Ordered
    BY DEF ReleaseInit, Ordered, OrderedIn, Indexes, Jobs
  <1>3. ToSet(released) = {}
    BY DEF ReleaseInit, ToSet
  <1>4. Drafted /\ NotesCoverEverything
    BY <1>3, FS_EmptySet DEF ReleaseInit, Drafted, NotesCoverEverything, Jobs
  <1> QED BY <1>1, <1>2, <1>4 DEF ReleaseInv

-----------------------------------------------------------------------------
LEMMA Ends ==
  ASSUME ReleaseTypes, NEW v \in Versions, NEW j \in Jobs, NEW verdict \in Statuses, JobEnds(v, j, verdict)
  PROVE  /\ job' \in [Versions -> [Jobs -> Statuses]]
         /\ job'[v][j] = verdict
         /\ \A k \in Jobs \ {j} : job'[v][k] = job[v][k]
         /\ \A w \in Versions \ {v} : \A k \in Jobs : job'[w][k] = job[w][k]
  BY DEF ReleaseTypes, JobEnds

(* The steps of the jobs that leave notes and Releases alone.              *)
LEMMA OtherJobs ==
  ASSUME ReleaseInv, NEW v \in Versions, NEW j \in Jobs \ {"createRelease"},
         \A k \in Jobs \ {j} : job'[v][k] = job[v][k],
         \A w \in Versions \ {v} : \A k \in Jobs : job'[w][k] = job[w][k],
         UNCHANGED <<released, notes>>
  PROVE  Drafted' /\ NotesCoverEverything'
  <1>1. \A w \in Versions : job'[w]["createRelease"] = job[w]["createRelease"]
    BY DEF Jobs
  <1>2. ToSet(released) \subseteq Versions
    BY DEF ReleaseInv, ReleaseTypes, ToSet
  <1>3. Drafted'
    <2>1. ToSet(released)' = ToSet(released) /\ released' = released
      BY DEF ToSet
    <2>. QED BY <1>1, <1>2, <2>1 DEF ReleaseInv, Drafted
  <1>4. NotesCoverEverything'
    BY DEF ReleaseInv, NotesCoverEverything, ToSet
  <1> QED BY <1>3, <1>4

(* A step of one tag's run disturbs the order in no other one.             *)
LEMMA OrderKept ==
  ASSUME ReleaseInv, NEW v \in Versions, OrderedIn(v)',
         \A w \in Versions \ {v} : \A k \in Jobs : job'[w][k] = job[w][k],
         \A w \in Versions \ {v} : uploads'["PyPI"][w] = uploads["PyPI"][w],
         served \subseteq served'
  PROVE  Ordered'
  <1> SUFFICES ASSUME NEW w \in Versions \ {v} PROVE OrderedIn(w)'
    BY DEF Ordered
  <1>1. OrderedIn(w)
    BY DEF ReleaseInv, Ordered
  <1>2. \A k \in {"publishTest", "examplesWheel", "examplesTest"} : job'[w][k] = job[w][k]
    BY DEF Jobs
  <1> QED BY <1>1, <1>2 DEF OrderedIn

LEMMA CheckStep ==
  ASSUME ReleaseInv, NEW v \in Versions, NEW j \in Jobs, CheckJob(v, j)
  PROVE  ReleaseInv'
  <1>1. PICK verdict \in {"passed", "failed"} : JobEnds(v, j, verdict)
    BY DEF CheckJob
  <1>2. /\ job' \in [Versions -> [Jobs -> Statuses]]
        /\ \A k \in Jobs \ {j} : job'[v][k] = job[v][k]
        /\ \A w \in Versions \ {v} : \A k \in Jobs : job'[w][k] = job[w][k]
    BY <1>1, Ends DEF ReleaseInv, Statuses
  <1>3. /\ j \in Checks /\ job[v][j] = "waiting"
        /\ UNCHANGED <<tags, uploads, served, attempt, released, notes, reruns>>
    BY DEF CheckJob, Ready
  <1>4. ReleaseTypes'
    BY <1>2, <1>3 DEF ReleaseInv, ReleaseTypes
  <1>5. Ordered'
    <2>1. OrderedIn(v)
      BY DEF ReleaseInv, Ordered
    <2>2. \A k \in {"publishTest", "examplesWheel", "examplesTest"} :
            k \in Jobs /\ (k # j => job'[v][k] = job[v][k])
      BY <1>2 DEF Jobs
    <2>3. OrderedIn(v)'
      BY <1>3, <2>1, <2>2 DEF OrderedIn, Checks
    <2> QED BY <1>2, <1>3, <2>3, OrderKept
  <1>6. Drafted' /\ NotesCoverEverything'
    BY <1>2, <1>3, OtherJobs DEF Checks
  <1> QED BY <1>4, <1>5, <1>6 DEF ReleaseInv

LEMMA PublishStep ==
  ASSUME ReleaseInv, NEW v \in Versions, NEW j \in Jobs, PublishJob(v, j)
  PROVE  ReleaseInv'
  <1>1. PICK verdict \in {"passed", "failed"} :
          /\ JobEnds(v, j, verdict)
          /\ \/ verdict = "failed" /\ UNCHANGED uploads
             \/ /\ uploads[PublishesTo(j)][v] = 0
                /\ uploads' = [uploads EXCEPT ![PublishesTo(j)][v] = @ + 1]
    BY DEF PublishJob, Accepts
  <1>2. /\ job' \in [Versions -> [Jobs -> Statuses]] /\ job'[v][j] = verdict
        /\ \A k \in Jobs \ {j} : job'[v][k] = job[v][k]
        /\ \A w \in Versions \ {v} : \A k \in Jobs : job'[w][k] = job[w][k]
    BY <1>1, Ends DEF ReleaseInv, Statuses
  <1>3. /\ j \in Publishes /\ job[v][j] = "waiting"
        /\ \A n \in JobNeeds(j) : job[v][n] = "passed"
        /\ UNCHANGED <<tags, served, attempt, released, notes, reruns>>
    BY DEF PublishJob, Ready
  <1>4. /\ j = "publishTest" => PublishesTo(j) = "TestPyPI" /\ job[v]["examplesWheel"] = "passed"
        /\ j = "publishPyPI" => PublishesTo(j) = "PyPI" /\ job[v]["examplesTest"] = "passed"
    BY <1>3, NeedsOfJobs DEF PublishesTo
  <1>5. /\ uploads' \in [Indexes -> [Versions -> 0 .. 1]]
        /\ uploads'["PyPI"][v] > 0 => uploads["PyPI"][v] > 0 \/ j = "publishPyPI"
        /\ \A w \in Versions \ {v} : uploads'["PyPI"][w] = uploads["PyPI"][w]
    <2>1. PublishesTo(j) \in Indexes
      BY DEF PublishesTo, Indexes
    <2>2. CASE UNCHANGED uploads
      BY <2>2 DEF ReleaseInv, ReleaseTypes
    <2>3. CASE uploads[PublishesTo(j)][v] = 0
               /\ uploads' = [uploads EXCEPT ![PublishesTo(j)][v] = @ + 1]
      <3>1. uploads' \in [Indexes -> [Versions -> 0 .. 1]]
        BY <2>1, <2>3 DEF ReleaseInv, ReleaseTypes
      <3>2. \A w \in Versions \ {v} : uploads'["PyPI"][w] = uploads["PyPI"][w]
        BY <2>1, <2>3 DEF ReleaseInv, ReleaseTypes, Indexes
      <3>3. j # "publishPyPI" => uploads'["PyPI"] = uploads["PyPI"]
        BY <1>3, <1>4, <2>1, <2>3 DEF ReleaseInv, ReleaseTypes, Publishes, Indexes
      <3> QED BY <3>1, <3>2, <3>3
    <2> QED BY <1>1, <2>2, <2>3
  <1>6. ReleaseTypes'
    BY <1>2, <1>3, <1>5 DEF ReleaseInv, ReleaseTypes
  <1>7. Ordered'
    <2>1. OrderedIn(v)
      BY DEF ReleaseInv, Ordered
    <2>2. \A k \in {"publishTest", "examplesWheel", "examplesTest"} :
            k \in Jobs /\ (k # j => job'[v][k] = job[v][k])
      BY <1>2 DEF Jobs
    <2>3. OrderedIn(v)'
      BY <1>3, <1>4, <1>5, <2>1, <2>2 DEF OrderedIn, Publishes
    <2> QED BY <1>2, <1>3, <1>5, <2>3, OrderKept
  <1>8. Drafted' /\ NotesCoverEverything'
    BY <1>2, <1>3, OtherJobs DEF Publishes
  <1> QED BY <1>6, <1>7, <1>8 DEF ReleaseInv

LEMMA ProbeStep ==
  ASSUME ReleaseInv, NEW v \in Versions, NEW j \in Jobs, Probe(v, j)
  PROVE  ReleaseInv'
  <1>1. /\ j \in IndexTests /\ job[v][j] = "waiting"
        /\ \A n \in JobNeeds(j) : job[v][n] = "passed"
        /\ UNCHANGED <<tags, uploads, served, released, notes, reruns>>
    BY DEF Probe, Ready
  <1>2. attempt' \in [Versions -> [IndexTests -> 0 .. Attempts - 1]]
    <2>1. attempt[v][j] \in 0 .. Attempts - 1 /\ Attempts \in Nat \ {0}
      BY <1>1, ReleaseAssumption DEF ReleaseInv, ReleaseTypes
    <2>2. PICK n \in 0 .. Attempts - 1 :
            attempt' = [attempt EXCEPT ![v][j] = n]
      <3>1. CASE attempt' = [attempt EXCEPT ![v][j] = 0]
        <4>1. 0 \in 0 .. Attempts - 1
          BY <2>1
        <4> QED BY <3>1, <4>1, Zenon
      <3>2. CASE ~GivesUp(v, j) /\ attempt' = [attempt EXCEPT ![v][j] = @ + 1]
        <4>1. attempt[v][j] + 1 \in 0 .. Attempts - 1
          BY <2>1, <3>2 DEF GivesUp
        <4>2. attempt' = [attempt EXCEPT ![v][j] = attempt[v][j] + 1]
          BY <3>2
        <4> QED BY <4>1, <4>2
      <3> QED BY <3>1, <3>2 DEF Probe
    <2> QED BY <1>1, <2>2 DEF ReleaseInv, ReleaseTypes
  <1>3. /\ job' \in [Versions -> [Jobs -> Statuses]]
        /\ job'[v][j] = "served" => <<TestsFrom(j), v>> \in served
        /\ job'[v][j] \in {"served", "failed", "waiting"}
        /\ \A k \in Jobs \ {j} : job'[v][k] = job[v][k]
        /\ \A w \in Versions \ {v} : \A k \in Jobs : job'[w][k] = job[w][k]
    <2>1. CASE UNCHANGED job
      BY <1>1, <2>1 DEF ReleaseInv, ReleaseTypes
    <2>2. CASE JobEnds(v, j, "failed")
      BY <2>2, Ends DEF ReleaseInv, Statuses
    <2>3. CASE JobEnds(v, j, "served") /\ <<TestsFrom(j), v>> \in served
      BY <2>3, Ends DEF ReleaseInv, Statuses
    <2> QED BY <2>1, <2>2, <2>3 DEF Probe
  <1>4. ReleaseTypes'
    BY <1>1, <1>2, <1>3 DEF ReleaseInv, ReleaseTypes
  <1>5. j = "examplesTest" => TestsFrom(j) = "TestPyPI" /\ job[v]["examplesWheel"] = "passed"
    BY <1>1, NeedsOfJobs DEF TestsFrom, ReleaseInv, Ordered, OrderedIn
  <1>6. Ordered'
    <2>1. OrderedIn(v)
      BY DEF ReleaseInv, Ordered
    <2>2. \A k \in {"publishTest", "examplesWheel", "examplesTest"} :
            k \in Jobs /\ (k # j => job'[v][k] = job[v][k])
      BY <1>3 DEF Jobs
    <2>3. OrderedIn(v)'
      BY <1>1, <1>3, <1>5, <2>1, <2>2 DEF OrderedIn, IndexTests
    <2> QED BY <1>1, <1>3, <2>3, OrderKept
  <1>7. Drafted' /\ NotesCoverEverything'
    BY <1>1, <1>3, OtherJobs DEF IndexTests
  <1> QED BY <1>4, <1>6, <1>7 DEF ReleaseInv

LEMMA SuiteStep ==
  ASSUME ReleaseInv, NEW v \in Versions, NEW j \in Jobs, RunSuite(v, j)
  PROVE  ReleaseInv'
  <1>1. PICK verdict \in {"passed", "failed"} : JobEnds(v, j, verdict)
    BY DEF RunSuite
  <1>2. /\ job' \in [Versions -> [Jobs -> Statuses]]
        /\ \A k \in Jobs \ {j} : job'[v][k] = job[v][k]
        /\ \A w \in Versions \ {v} : \A k \in Jobs : job'[w][k] = job[w][k]
    BY <1>1, Ends DEF ReleaseInv, Statuses
  <1>3. /\ j \in IndexTests /\ job[v][j] = "served"
        /\ UNCHANGED <<tags, uploads, served, attempt, released, notes, reruns>>
    BY DEF RunSuite
  <1>4. ReleaseTypes'
    BY <1>2, <1>3 DEF ReleaseInv, ReleaseTypes
  <1>5. Ordered'
    <2>1. OrderedIn(v)
      BY DEF ReleaseInv, Ordered
    <2>2. \A k \in {"publishTest", "examplesWheel", "examplesTest"} :
            k \in Jobs /\ (k # j => job'[v][k] = job[v][k])
      BY <1>2 DEF Jobs
    <2>3. OrderedIn(v)'
      BY <1>3, <2>1, <2>2 DEF OrderedIn, IndexTests
    <2> QED BY <1>2, <1>3, <2>3, OrderKept
  <1>6. Drafted' /\ NotesCoverEverything'
    BY <1>2, <1>3, OtherJobs DEF IndexTests
  <1> QED BY <1>4, <1>5, <1>6 DEF ReleaseInv

LEMMA ServeStep ==
  ASSUME ReleaseInv, NEW v \in Versions, NEW where \in Indexes, IndexServes(where, v)
  PROVE  ReleaseInv'
  <1>1. served \subseteq served'
        /\ UNCHANGED <<tags, job, uploads, attempt, released, notes, reruns>>
    BY DEF IndexServes
  <1>2. ReleaseTypes'
    BY <1>1 DEF ReleaseInv, ReleaseTypes
  <1>3. Ordered'
    BY <1>1 DEF ReleaseInv, Ordered, OrderedIn
  <1>4. Drafted' /\ NotesCoverEverything'
    <2>1. ToSet(released)' = ToSet(released) /\ released' = released
      BY <1>1 DEF ToSet
    <2>. QED BY <1>1, <2>1 DEF ReleaseInv, Drafted, NotesCoverEverything
  <1> QED BY <1>2, <1>3, <1>4 DEF ReleaseInv

LEMMA RerunStep ==
  ASSUME ReleaseInv, NEW v \in Versions, Rerun(v)
  PROVE  ReleaseInv'
  <1>1. /\ job' \in [Versions -> [Jobs -> Statuses]]
        /\ \A w \in Versions : \A k \in Jobs :
             job'[w][k] = job[w][k] \/ (job[w][k] = "failed" /\ job'[w][k] = "waiting")
    BY DEF Rerun, ReleaseInv, ReleaseTypes, Statuses
  <1>2. reruns' \in 0 .. MaxReruns /\ UNCHANGED <<tags, uploads, served, attempt, released, notes>>
    BY ReleaseAssumption DEF Rerun, ReleaseInv, ReleaseTypes
  <1>3. ReleaseTypes'
    BY <1>1, <1>2 DEF ReleaseInv, ReleaseTypes
  <1>4. ASSUME NEW w \in Versions PROVE OrderedIn(w)'
    <2>1. OrderedIn(w)
      BY DEF ReleaseInv, Ordered
    <2>2. \A k \in {"publishTest", "examplesWheel", "examplesTest"} :
            job'[w][k] = job[w][k] \/ (job[w][k] = "failed" /\ job'[w][k] = "waiting")
      BY <1>1 DEF Jobs
    <2> QED BY <1>2, <2>1, <2>2 DEF OrderedIn
  <1>5. \A w \in Versions : job'[w]["createRelease"] = job[w]["createRelease"]
          \/ (job[w]["createRelease"] = "failed" /\ job'[w]["createRelease"] = "waiting")
    BY <1>1 DEF Jobs
  <1>6. ToSet(released) \subseteq Versions
    BY DEF ReleaseInv, ReleaseTypes, ToSet
  <1>7. Drafted'
    <2>1. ToSet(released)' = ToSet(released) /\ released' = released
      BY <1>2 DEF ToSet
    <2>. QED BY <1>2, <1>5, <1>6, <2>1 DEF ReleaseInv, Drafted
  <1>8. NotesCoverEverything'
    BY <1>2 DEF ReleaseInv, NotesCoverEverything, ToSet
  <1> QED BY <1>3, <1>4, <1>7, <1>8 DEF ReleaseInv, Ordered

(* The job that writes notes and publishes leaves the order alone.         *)
LEMMA ReleaseJob ==
  ASSUME ReleaseInv, NEW v \in Versions, NEW verdict \in Statuses,
         JobEnds(v, "createRelease", verdict),
         UNCHANGED <<tags, uploads, served, attempt, reruns>>
  PROVE  /\ job' \in [Versions -> [Jobs -> Statuses]]
         /\ job'[v]["createRelease"] = verdict
         /\ \A w \in Versions \ {v} : job'[w]["createRelease"] = job[w]["createRelease"]
         /\ Ordered'
  <1>0. "createRelease" \in Jobs
    BY DEF Jobs
  <1>1. /\ job' \in [Versions -> [Jobs -> Statuses]]
        /\ job'[v]["createRelease"] = verdict
        /\ \A k \in Jobs \ {"createRelease"} : job'[v][k] = job[v][k]
        /\ \A w \in Versions \ {v} : \A k \in Jobs : job'[w][k] = job[w][k]
    BY <1>0, Ends DEF ReleaseInv
  <1>2. OrderedIn(v)'
    <2>1. \A k \in {"publishTest", "examplesWheel", "examplesTest"} : job'[v][k] = job[v][k]
      BY <1>1 DEF Jobs
    <2> QED BY <2>1 DEF ReleaseInv, Ordered, OrderedIn
  <1> QED BY <1>0, <1>1, <1>2, OrderKept

(* Notes that are drafted start after a Release that is published already. *)
LEMMA DraftStep ==
  ASSUME ReleaseInv, NEW v \in Versions, DraftNotes(v)
  PROVE  ReleaseInv'
  <1>1. /\ job[v]["createRelease"] = "waiting"
        /\ UNCHANGED <<tags, uploads, served, attempt, released, reruns>>
    BY DEF DraftNotes, Ready
  <1>2. /\ ToSet(released) \subseteq Versions /\ ToSet(released)' = ToSet(released)
        /\ v \notin ToSet(released)
    BY <1>1 DEF ReleaseInv, ReleaseTypes, Drafted, ToSet
  <1>3. PICK verdict \in {"failed", "noted"} :
          /\ JobEnds(v, "createRelease", verdict)
          /\ \/ verdict = "failed" /\ UNCHANGED notes
             \/ notes' = [notes EXCEPT ![v] = NotesBase(v) + 1 .. v]
    BY DEF DraftNotes
  <1>4. /\ job' \in [Versions -> [Jobs -> Statuses]]
        /\ job'[v]["createRelease"] = verdict
        /\ \A w \in Versions \ {v} : job'[w]["createRelease"] = job[w]["createRelease"]
        /\ Ordered'
    BY <1>1, <1>3, ReleaseJob DEF Statuses
  <1>5. /\ DOMAIN notes' = Versions
        /\ \A w \in Versions \ {v} : notes'[w] = notes[w]
        /\ verdict = "noted" => notes'[v] = NotesBase(v) + 1 .. v
    BY <1>3 DEF ReleaseInv, ReleaseTypes
  <1>6. NotesBase(v) \in {0} \cup ToSet(released)
    BY DEF NotesBase, ToSet, ReleaseInv, ReleaseTypes
  <1>7. ReleaseTypes'
    BY <1>1, <1>4, <1>5 DEF ReleaseInv, ReleaseTypes
  <1>8. Drafted'
    <2>1. ASSUME NEW w \in Versions, job'[w]["createRelease"] \in {"noted", "passed"}
          PROVE  \E b \in {0} \cup ToSet(released) : notes'[w] = b + 1 .. w
      <3>1. CASE w = v
        BY <1>4, <1>5, <1>6, <2>1, <3>1
      <3>2. CASE w # v
        <4>1. job[w]["createRelease"] \in {"noted", "passed"} /\ notes'[w] = notes[w]
          BY <1>4, <1>5, <2>1, <3>2
        <4> QED BY <4>1 DEF ReleaseInv, Drafted
      <3> QED BY <3>1, <3>2
    <2>2. \A w \in ToSet(released) : job'[w]["createRelease"] = "passed"
      BY <1>2, <1>4 DEF ReleaseInv, Drafted
    <2> QED BY <1>1, <1>2, <2>1, <2>2 DEF ReleaseInv, Drafted
  <1>9. NotesCoverEverything'
    <2>1. \A w \in ToSet(released) : notes'[w] = notes[w]
      BY <1>2, <1>5
    <2> QED BY <1>2, <2>1 DEF ReleaseInv, NotesCoverEverything
  <1> QED BY <1>4, <1>7, <1>8, <1>9 DEF ReleaseInv

(* What the published notes do not say, the Release they start after, or   *)
(* one before it, has said.                                                *)
LEMMA CreateStep ==
  ASSUME ReleaseInv, NEW v \in Versions, CreateRelease(v)
  PROVE  ReleaseInv'
  <1>1. /\ job[v]["createRelease"] = "noted"
        /\ UNCHANGED <<tags, uploads, served, attempt, notes, reruns>>
    BY DEF CreateRelease
  <1>2. ToSet(released) \subseteq Versions /\ v \notin ToSet(released)
    <2>1. ToSet(released) \subseteq Versions
      BY DEF ReleaseInv, ReleaseTypes, ToSet
    <2>2. \A w \in ToSet(released) : job[w]["createRelease"] = "passed"
      BY DEF ReleaseInv, Drafted
    <2> QED BY <1>1, <2>1, <2>2
  <1>3. PICK verdict \in {"failed", "passed"} :
          /\ JobEnds(v, "createRelease", verdict)
          /\ \/ verdict = "failed" /\ UNCHANGED released
             \/ verdict = "passed" /\ released' = Append(released, v)
    BY DEF CreateRelease
  <1>4. /\ job' \in [Versions -> [Jobs -> Statuses]]
        /\ job'[v]["createRelease"] = verdict
        /\ \A w \in Versions \ {v} : job'[w]["createRelease"] = job[w]["createRelease"]
        /\ Ordered'
    BY <1>1, <1>3, ReleaseJob DEF Statuses
  <1>5. PICK b \in {0} \cup ToSet(released) : notes[v] = b + 1 .. v
    BY <1>1 DEF ReleaseInv, Drafted
  <1>6. \A w \in Versions : job'[w]["createRelease"] \in {"noted", "passed"} =>
          job[w]["createRelease"] \in {"noted", "passed"}
    BY <1>1, <1>4
  <1>7. CASE UNCHANGED released /\ verdict = "failed"
    <2>1. ToSet(released)' = ToSet(released)
      BY <1>7 DEF ToSet
    <2>2. ReleaseTypes'
      BY <1>1, <1>4, <1>7 DEF ReleaseInv, ReleaseTypes
    <2>3. Drafted'
      BY <1>1, <1>2, <1>4, <1>6, <1>7, <2>1 DEF ReleaseInv, Drafted
    <2>4. NotesCoverEverything'
      BY <1>1, <2>1 DEF ReleaseInv, NotesCoverEverything
    <2> QED BY <1>4, <2>2, <2>3, <2>4 DEF ReleaseInv
  <1>8. CASE released' = Append(released, v) /\ verdict = "passed"
    <2>1. /\ released \in Seq(Versions) /\ released' \in Seq(Versions)
          /\ Len(released') = Len(released) + 1
      BY <1>8, AppendProperties DEF ReleaseInv, ReleaseTypes
    <2>2. ToSet(released)' = ToSet(released) \cup {v}
      BY <1>8, <2>1, ToSetAppend
    <2>3. ReleaseTypes'
      BY <1>1, <1>4, <2>1 DEF ReleaseInv, ReleaseTypes
    <2>4. Drafted'
      <3>1. \A w \in ToSet(released)' : job'[w]["createRelease"] = "passed"
        BY <1>2, <1>4, <1>8, <2>2 DEF ReleaseInv, Drafted
      <3>2. \A w \in Versions : job'[w]["createRelease"] \in {"noted", "passed"} =>
              \E a \in {0} \cup ToSet(released)' : notes'[w] = a + 1 .. w
        BY <1>1, <1>6, <2>2 DEF ReleaseInv, Drafted
      <3>3. IsFiniteSet(ToSet(released)') /\ Cardinality(ToSet(released)') = Len(released')
        <4>1. IsFiniteSet(ToSet(released)) /\ Cardinality(ToSet(released)) = Len(released)
          BY DEF ReleaseInv, Drafted
        <4>2. v \notin ToSet(released)
          BY <1>2
        <4>3. Cardinality(ToSet(released) \cup {v}) = Cardinality(ToSet(released)) + 1
              /\ IsFiniteSet(ToSet(released) \cup {v})
          BY <4>1, <4>2, FS_AddElement
        <4> QED BY <2>1, <2>2, <4>1, <4>3
      <3> QED BY <3>1, <3>2, <3>3 DEF Drafted
    <2>5. ASSUME NEW w \in ToSet(released) \cup {v}, NEW x \in 1 .. w
          PROVE  \E u \in ToSet(released) \cup {v} : x \in notes[u]
      <3>1. ASSUME NEW y \in ToSet(released), x \in 1 .. y
            PROVE  \E u \in ToSet(released) \cup {v} : x \in notes[u]
        BY <3>1 DEF ReleaseInv, NotesCoverEverything
      <3>2. CASE w \in ToSet(released)
        BY <2>5, <3>1, <3>2
      <3>3. CASE w = v /\ x \in b + 1 .. v
        BY <1>5, <3>3
      <3>4. CASE w = v /\ x \notin b + 1 .. v
        <4>1. b \in ToSet(released) /\ x \in 1 .. b
          BY <1>2, <1>5, <2>5, <3>4 DEF Versions
        <4> QED BY <3>1, <4>1
      <3> QED BY <2>5, <3>2, <3>3, <3>4
    <2>6. NotesCoverEverything'
      BY <1>1, <2>2, <2>5 DEF NotesCoverEverything
    <2> QED BY <1>4, <2>3, <2>4, <2>6 DEF ReleaseInv
  <1> QED BY <1>3, <1>7, <1>8

LEMMA NextRelease == ReleaseInv /\ [ReleaseNext]_releaseVars => ReleaseInv'
  <1> SUFFICES ASSUME ReleaseInv, [ReleaseNext]_releaseVars PROVE ReleaseInv'
    OBVIOUS
  <1>1. CASE PushTag
    <2>1. tags' \in 0 .. MaxTag
      BY <1>1, ReleaseAssumption DEF PushTag, ReleaseInv, ReleaseTypes
    <2> QED BY <1>1, <2>1 DEF PushTag, ReleaseInv, ReleaseTypes, Ordered, OrderedIn, Drafted,
            NotesCoverEverything, ToSet
  <1>2. ASSUME NEW v \in Versions, NEW j \in Jobs, JobStep(v, j) PROVE ReleaseInv'
    BY <1>2, CheckStep, PublishStep, ProbeStep, SuiteStep DEF JobStep
  <1>3. ASSUME NEW v \in Versions, NEW where \in Indexes, IndexServes(where, v)
        PROVE  ReleaseInv'
    BY <1>3, ServeStep
  <1>4. ASSUME NEW v \in Versions, DraftNotes(v) \/ CreateRelease(v) \/ Rerun(v)
        PROVE  ReleaseInv'
    BY <1>4, DraftStep, CreateStep, RerunStep
  <1>5. CASE UNCHANGED releaseVars
    BY <1>5 DEF releaseVars, ReleaseInv, ReleaseTypes, Ordered, OrderedIn, Drafted,
       NotesCoverEverything, ToSet
  <1> QED BY <1>1, <1>2, <1>3, <1>4, <1>5 DEF ReleaseNext

LEMMA AlwaysReleaseInv == ReleaseSpec => []ReleaseInv
  BY InitRelease, NextRelease, PTL DEF ReleaseSpec

(* release.yml: whatever fails, overlaps and is run again, PyPI has only   *)
(* what the examples passed against, no index is given a version twice,    *)
(* and every change is in the notes of some Release.                       *)
THEOREM Sound == ReleaseSpec => []ReleasesAreSound
  <1>1. ReleaseInv => ReleasesAreSound
    <2> SUFFICES ASSUME ReleaseInv PROVE OnlyProvenVersionsOnPyPI
      BY DEF ReleaseInv, ReleasesAreSound
    <2>1. ASSUME NEW v \in Versions, uploads["PyPI"][v] > 0
          PROVE  /\ job[v]["examplesWheel"] = "passed" /\ job[v]["examplesTest"] = "passed"
                 /\ <<"TestPyPI", v>> \in served
      BY <2>1 DEF ReleaseInv, Ordered, OrderedIn
    <2>2. \A where \in Indexes, v \in Versions : uploads[where][v] <= 1
      <3> SUFFICES ASSUME NEW where \in Indexes, NEW v \in Versions
                   PROVE  uploads[where][v] <= 1
        OBVIOUS
      <3>1. uploads[where][v] \in 0 .. 1
        BY DEF ReleaseInv, ReleaseTypes
      <3> QED BY <3>1
    <2> QED BY <2>1, <2>2 DEF OnlyProvenVersionsOnPyPI
  <1> QED BY <1>1, AlwaysReleaseInv, PTL

-----------------------------------------------------------------------------
(* ReleaseCut.                                                             *)
VersionNumbers == Nat \X Nat
Seen == SUBSET {"marks", "exports", "signatures"}
Cuts == [version : VersionNumbers, cut : 0 .. Len(main), judged : Seen]

CutTypes ==
  /\ main \in Seq(CommitKinds)
  /\ tagged \subseteq Cuts /\ branches \subseteq Cuts /\ merging \subseteq Cuts
  /\ dispatch \in [pc : {"idle", "assessed", "superseded", "pushed"}, head : 0 .. Len(main),
                   version : VersionNumbers, judged : Seen]

(* The tags are distinct versions and one of them is the last.             *)
IsLast(t) == t \in tagged /\ \A u \in tagged : ~Higher(u.version, t.version)
Tags ==
  /\ \A t, u \in tagged : t.version = u.version => t = u
  /\ \E t \in tagged : IsLast(t)

(* A patch has its predecessor tagged, and what it is cut from breaks      *)
(* nothing since that its assessment saw: so it was judged, and so it      *)
(* stays wherever the cut is on its way.                                   *)
Justified(v, head, seen) ==
  v[2] > 0 => \E l \in tagged : l.version = <<v[1], v[2] - 1>> /\ ~Breaks(l.cut, head, seen)
AllJustified ==
  /\ dispatch.pc # "idle" => Justified(dispatch.version, dispatch.head, dispatch.judged)
  /\ \A c \in branches \cup merging \cup tagged : Justified(c.version, c.cut, c.judged)

(* A dispatch that has closed the other pull requests is alone.            *)
OneOpen ==
  /\ \A v, w \in open : v = w
  /\ dispatch.pc \in {"superseded", "pushed"} => open \subseteq {dispatch.version}

CutInv == CutTypes /\ Tags /\ AllJustified /\ OneOpen

-----------------------------------------------------------------------------
(* What an assessment says of a range of main depends on these commits.    *)
LEMMA BreaksUnchanged ==
  ASSUME UNCHANGED main, NEW base, NEW head, NEW seen
  PROVE  Breaks(base, head, seen)' <=> Breaks(base, head, seen)
  BY DEF Breaks, CommitsSince, RemovedExport, Exported, BreakingChange

LEMMA BreaksAppend ==
  ASSUME CutTypes, NEW k, main' = Append(main, k),
         NEW base \in 0 .. Len(main), NEW head \in 0 .. Len(main), NEW seen
  PROVE  Breaks(base, head, seen)' <=> Breaks(base, head, seen)
  <1>1. Len(main) \in Nat /\ \A i \in 1 .. Len(main) : main'[i] = main[i]
    BY DEF CutTypes
  <1>2. CommitsSince(base, head)' = CommitsSince(base, head)
    BY <1>1 DEF CommitsSince
  <1>3. \A n \in 0 .. Len(main) : Exported(n)' <=> Exported(n)
    <2> SUFFICES ASSUME NEW n \in 0 .. Len(main) PROVE Exported(n)' <=> Exported(n)
      OBVIOUS
    <2>1. \A i \in 1 .. n : main'[i] = main[i]
      BY <1>1
    <2>2. {i \in 1 .. n : main'[i] \in {"drop", "restore"}} = {i \in 1 .. n : main[i] \in {"drop", "restore"}}
      BY <2>1
    <2> QED BY <2>1, <2>2 DEF Exported
  <1> QED BY <1>2, <1>3 DEF Breaks, RemovedExport, BreakingChange

(* A justification outlives every step, as tags stay.                      *)
LEMMA JustifiedKept ==
  ASSUME CutTypes, tagged \subseteq tagged', NEW seen,
         \A base, head \in 0 .. Len(main) : Breaks(base, head, seen)' <=> Breaks(base, head, seen),
         NEW v, NEW n \in 0 .. Len(main), Justified(v, n, seen)
  PROVE  Justified(v, n, seen)'
  <1> SUFFICES ASSUME v[2] > 0
               PROVE  \E l \in tagged' : l.version = <<v[1], v[2] - 1>> /\ ~Breaks(l.cut, n, seen)'
    BY DEF Justified
  <1>1. PICK l \in tagged : l.version = <<v[1], v[2] - 1>> /\ ~Breaks(l.cut, n, seen)
    BY DEF Justified
  <1>2. l.cut \in 0 .. Len(main)
    BY DEF CutTypes, Cuts
  <1> QED BY <1>1, <1>2

LEMMA HigherOrder ==
  /\ \A v, w \in VersionNumbers : Higher(v, w) \/ Higher(w, v) \/ v = w
  /\ \A u, v, w \in VersionNumbers : Higher(u, v) /\ Higher(v, w) => Higher(u, w)
  /\ \A v \in VersionNumbers : ~Higher(v, v)
  /\ \A v, w \in VersionNumbers : Higher(v, w) => ~Higher(w, v)
  BY DEF Higher, VersionNumbers

LEMMA LastTagIsLast ==
  ASSUME Tags
  PROVE  IsLast(LastTag)
  BY DEF Tags, LastTag, IsLast

LEMMA InitCut == CutInit => CutInv
  <1> SUFFICES ASSUME CutInit PROVE CutInv
    OBVIOUS
  <1>1. CutTypes
    BY EmptySeq DEF CutInit, CutTypes, FirstRelease, NoDispatch, Cuts, VersionNumbers, Seen
  <1>2. Tags
    BY DEF CutInit, Tags, IsLast, FirstRelease, Higher
  <1>3. AllJustified /\ OneOpen
    BY DEF CutInit, AllJustified, Justified, OneOpen, FirstRelease, NoDispatch
  <1> QED BY <1>1, <1>2, <1>3 DEF CutInv

-----------------------------------------------------------------------------
(* The steps after the assessment: cuts move from a dispatch to a branch,  *)
(* to a merge, or out of sight, and none comes from elsewhere.             *)
LEMMA MovedCuts ==
  ASSUME CutInv, UNCHANGED <<main, tagged>>,
         \/ dispatch' = dispatch
         \/ \E next \in {"idle", "superseded", "pushed"} :
              dispatch.pc # "idle" /\ dispatch' = [dispatch EXCEPT !.pc = next],
         branches' \cup merging' \subseteq
           branches \cup merging \cup
             IF dispatch.pc = "idle" THEN {}
             ELSE {[version |-> dispatch.version, cut |-> dispatch.head, judged |-> dispatch.judged]}
  PROVE  CutTypes' /\ Tags' /\ AllJustified'
  <1>1. /\ dispatch' \in [pc : {"idle", "assessed", "superseded", "pushed"}, head : 0 .. Len(main),
                          version : VersionNumbers, judged : Seen]
        /\ dispatch'.head = dispatch.head /\ dispatch'.version = dispatch.version
        /\ dispatch'.judged = dispatch.judged
        /\ dispatch'.pc # "idle" => dispatch.pc # "idle"
    BY DEF CutInv, CutTypes
  <1>2. branches' \subseteq Cuts /\ merging' \subseteq Cuts
    BY DEF CutInv, CutTypes, Cuts
  <1>3. CutTypes'
    BY <1>1, <1>2 DEF CutInv, CutTypes, Cuts
  <1>4. Tags'
    BY DEF CutInv, Tags, IsLast
  <1>5. \A v, w : \A n \in 0 .. Len(main) : Justified(v, n, w) => Justified(v, n, w)'
    BY BreaksUnchanged, JustifiedKept DEF CutInv
  <1>6. dispatch'.pc # "idle" => Justified(dispatch.version, dispatch.head, dispatch.judged)'
    <2> SUFFICES ASSUME dispatch'.pc # "idle", NEW v, NEW n, NEW w,
                        v = dispatch'.version, n = dispatch'.head, w = dispatch'.judged
                 PROVE  Justified(v, n, w)'
      OBVIOUS
    <2>1. n \in 0 .. Len(main) /\ Justified(v, n, w)
      BY <1>1 DEF CutInv, CutTypes, AllJustified
    <2> QED BY <1>5, <2>1
  <1>7. ASSUME NEW c \in branches' \cup merging' \cup tagged' PROVE Justified(c.version, c.cut, c.judged)'
    <2>1. CASE c \in branches \cup merging \cup tagged
      <3>1. c.cut \in 0 .. Len(main) /\ Justified(c.version, c.cut, c.judged)
        BY <2>1 DEF CutInv, CutTypes, Cuts, AllJustified
      <3> QED BY <1>5, <3>1
    <2>2. CASE dispatch.pc # "idle" /\ c = [version |-> dispatch.version, cut |-> dispatch.head, judged |-> dispatch.judged]
      <3>1. dispatch.head \in 0 .. Len(main) /\ Justified(dispatch.version, dispatch.head, dispatch.judged)
        BY <2>2 DEF CutInv, CutTypes, AllJustified
      <3> QED BY <1>5, <2>2, <3>1
    <2> QED BY <1>7, <2>1, <2>2
  <1> QED BY <1>3, <1>4, <1>6, <1>7 DEF AllJustified

LEMMA CommitStep ==
  ASSUME CutInv, NEW k \in CommitKinds, MergeCommit(k)
  PROVE  CutInv'
  <1>1. /\ main' = Append(main, k)
        /\ UNCHANGED <<tagged, dispatch, branches, open, closing, merging, cuts>>
    BY DEF MergeCommit
  <1>2. main' \in Seq(CommitKinds) /\ Len(main') = Len(main) + 1 /\ Len(main) \in Nat
    BY <1>1, AppendProperties DEF CutInv, CutTypes
  <1>3. 0 .. Len(main) \subseteq 0 .. Len(main')
    BY <1>2
  <1>4. CutTypes'
    BY <1>1, <1>2, <1>3 DEF CutInv, CutTypes, Cuts
  <1>5. Tags' /\ OneOpen'
    BY <1>1 DEF CutInv, Tags, IsLast, OneOpen
  <1>6. \A v, w : \A n \in 0 .. Len(main) : Justified(v, n, w) => Justified(v, n, w)'
    BY <1>1, BreaksAppend, JustifiedKept DEF CutInv
  <1>7. AllJustified'
    BY <1>1, <1>6 DEF CutInv, CutTypes, Cuts, AllJustified
  <1> QED BY <1>4, <1>5, <1>7 DEF CutInv

(* The version after the last tag is not burned, so the first number free  *)
(* is the first tried.                                                     *)
LEMMA NextIsFree ==
  ASSUME CutInv, NEW bump \in {"minor", "patch"}
  PROVE  NextVersion(LastTag.version, bump) =
           IF bump = "minor" THEN <<LastTag.version[1] + 1, 0>>
           ELSE <<LastTag.version[1], LastTag.version[2] + 1>>
<1> DEFINE base == LastTag.version
           minor == IF bump = "minor" THEN base[1] + 1 ELSE base[1]
           first == IF bump = "minor" THEN 0 ELSE base[2] + 1
           Free(p) == ~Burned(<<minor, p>>) /\ \A q \in first .. p - 1 : Burned(<<minor, q>>)
<1>1. /\ base \in Nat \X Nat /\ \A t \in tagged : t.version \in Nat \X Nat
      /\ \A t \in tagged : ~Higher(t.version, base)
  BY LastTagIsLast DEF CutInv, IsLast, CutTypes, Cuts, VersionNumbers
<1>2. first \in Nat /\ minor \in Nat /\ MaxCuts \in Nat
  BY <1>1, CutAssumption
<1>3. Higher(<<minor, first>>, base)
  BY <1>1 DEF Higher
<1>4. ~Burned(<<minor, first>>)
  BY <1>1, <1>3 DEF Burned
<1> HIDE DEF base, minor, first
<1>5. first \in first .. first + MaxCuts /\ Free(first)
  BY <1>2, <1>4
<1>6. \A p \in first .. first + MaxCuts : Free(p) => p = first
  BY <1>2, <1>4
<1>7. (CHOOSE p \in first .. first + MaxCuts : Free(p)) = first
  BY <1>5, <1>6
<1>8. NextVersion(base, bump) = <<minor, CHOOSE p \in first .. first + MaxCuts : Free(p)>>
  BY DEF NextVersion, minor, first
<1> HIDE DEF Free
<1>. QED  BY <1>7, <1>8 DEF base, minor, first

(* The assessment itself.                                                  *)
LEMMA PrepareStep ==
  ASSUME CutInv, NEW input \in {"auto", "patch", "minor"}, NEW seen \in Sights, NEW newerLost \in BOOLEAN,
         Prepare(input, seen, newerLost)
  PROVE  CutInv'
  <1>1. PICK bump, version, head, last, judged :
          /\ last = LastTag /\ head = Len(main)
          /\ bump = IF input = "auto" THEN Assess(last.cut, head, seen, newerLost) ELSE input
          /\ version = NextVersion(last.version, bump)
          /\ judged = IF input = "auto" /\ bump = "patch" THEN seen ELSE {}
    OBVIOUS
  <1>2. /\ dispatch' = [pc |-> "assessed", head |-> head, version |-> version, judged |-> judged]
        /\ UNCHANGED <<main, tagged, branches, open, closing, merging>>
    BY <1>1 DEF Prepare
  <1>3. last \in tagged /\ head \in 0 .. Len(main)
    BY <1>1, LastTagIsLast, LenProperties DEF CutInv, IsLast, CutTypes
  <1>4. /\ bump \in {"minor", "patch"} /\ judged \in Seen
        /\ bump = "patch" => ~Breaks(last.cut, head, judged)
    <2>1. bump \in {"minor", "patch"} /\ judged \in Seen
      BY <1>1 DEF Assess, Sights, Seen
    <2>2. ~Breaks(last.cut, head, {})
      BY DEF Breaks
    <2>3. input = "auto" /\ bump = "patch" => ~Breaks(last.cut, head, seen)
      BY <1>1 DEF Assess
    <2>4. judged = seen \/ judged = {}
      BY <1>1
    <2> QED BY <1>1, <2>1, <2>2, <2>3, <2>4
  <1>5. /\ version \in VersionNumbers
        /\ bump = "minor" => version[2] = 0
        /\ bump = "patch" => last.version = <<version[1], version[2] - 1>>
    <2>1. last.version \in Nat \X Nat
      BY <1>3 DEF CutInv, CutTypes, Cuts, VersionNumbers
    <2> QED BY <1>1, <1>4, <2>1, NextIsFree DEF VersionNumbers
  <1>6. CutTypes'
    BY <1>2, <1>3, <1>4, <1>5 DEF CutInv, CutTypes, Cuts
  <1>7. Tags' /\ OneOpen'
    BY <1>2 DEF CutInv, Tags, IsLast, OneOpen
  <1>9. Justified(version, head, judged)'
    <2>1. CASE bump = "minor"
      BY <1>5, <2>1 DEF Justified
    <2>2. CASE bump = "patch"
      <3>1. ~Breaks(last.cut, head, judged)'
        BY <1>2, <1>4, <2>2, BreaksUnchanged
      <3> QED BY <1>2, <1>3, <1>5, <2>2, <3>1 DEF Justified
    <2> QED BY <1>4, <2>1, <2>2
  <1>10. \A v, w : \A n \in 0 .. Len(main) : Justified(v, n, w) => Justified(v, n, w)'
    BY <1>2, BreaksUnchanged, JustifiedKept DEF CutInv
  <1>11. ASSUME NEW c \in branches \cup merging \cup tagged PROVE Justified(c.version, c.cut, c.judged)'
    <2>1. c.cut \in 0 .. Len(main) /\ Justified(c.version, c.cut, c.judged)
      BY DEF CutInv, CutTypes, Cuts, AllJustified
    <2> QED BY <1>10, <2>1
  <1>12. dispatch'.version = version /\ dispatch'.head = head /\ dispatch'.judged = judged
    BY <1>2
  <1>13. AllJustified'
    BY <1>2, <1>9, <1>11, <1>12 DEF AllJustified
  <1> QED BY <1>6, <1>7, <1>13 DEF CutInv

(* The other steps of a dispatch.                                          *)
LEMMA DispatchStep ==
  ASSUME CutInv, ClosePRs \/ PushCut \/ OpenPR \/ DispatchFails
  PROVE  CutInv'
  <1>1. CASE ClosePRs
    <2>1. /\ dispatch.pc = "assessed" /\ dispatch' = [dispatch EXCEPT !.pc = "superseded"]
          /\ open' = open \ Superseded
          /\ UNCHANGED <<main, tagged, branches, merging>>
      BY <1>1 DEF ClosePRs, At
    <2>2. CutTypes' /\ Tags' /\ AllJustified'
      BY <2>1, MovedCuts
    <2>3. open' \subseteq {dispatch.version} /\ dispatch'.version = dispatch.version
      BY <2>1 DEF Superseded, CutInv, CutTypes
    <2> QED BY <2>2, <2>3 DEF CutInv, OneOpen
  <1>2. CASE PushCut
    <2>1. /\ dispatch.pc = "superseded" /\ dispatch' = [dispatch EXCEPT !.pc = "pushed"]
          /\ branches' = Without(dispatch.version)
                           \cup {[version |-> dispatch.version, cut |-> dispatch.head, judged |-> dispatch.judged]}
          /\ UNCHANGED <<main, tagged, open, merging>>
      BY <1>2 DEF PushCut, At, CutHead
    <2>2. branches' \cup merging' \subseteq
            branches \cup merging \cup {[version |-> dispatch.version, cut |-> dispatch.head, judged |-> dispatch.judged]}
      BY <2>1 DEF Without
    <2>3. CutTypes' /\ Tags' /\ AllJustified'
      BY <2>1, <2>2, MovedCuts
    <2>4. dispatch'.version = dispatch.version
      BY <2>1 DEF CutInv, CutTypes
    <2> QED BY <2>1, <2>3, <2>4 DEF CutInv, OneOpen
  <1>3. CASE OpenPR
    <2>1. /\ dispatch.pc = "pushed" /\ dispatch' = [dispatch EXCEPT !.pc = "idle"]
          /\ open' = open \cup {b.version : b \in branches \ Without(dispatch.version)}
          /\ UNCHANGED <<main, tagged, branches, merging>>
      BY <1>3 DEF OpenPR, At
    <2>2. CutTypes' /\ Tags' /\ AllJustified'
      BY <2>1, MovedCuts
    <2>3. open' \subseteq {dispatch.version} /\ dispatch'.pc = "idle"
      BY <2>1 DEF Without, CutInv, OneOpen, CutTypes
    <2> QED BY <2>2, <2>3 DEF CutInv, OneOpen
  <1>4. CASE DispatchFails
    <2>1. /\ dispatch.pc # "idle" /\ dispatch' = [dispatch EXCEPT !.pc = "idle"]
          /\ UNCHANGED <<main, tagged, branches, open, merging>>
      BY <1>4 DEF DispatchFails
    <2>2. CutTypes' /\ Tags' /\ AllJustified'
      BY <2>1, MovedCuts
    <2>3. dispatch'.pc = "idle"
      BY <2>1 DEF CutInv, CutTypes
    <2> QED BY <2>1, <2>2, <2>3 DEF CutInv, OneOpen
  <1> QED BY <1>1, <1>2, <1>3, <1>4

(* What is closed, cleaned up or merged was open, or on a branch, before.  *)
LEMMA PullRequestStep ==
  ASSUME CutInv, NEW v, ClosePR(v) \/ MergePR(v) \/ CleanUp(v)
  PROVE  CutInv'
  <1>1. /\ UNCHANGED <<main, tagged, dispatch>>
        /\ open' \subseteq open
        /\ branches' \cup merging' \subseteq branches \cup merging
    BY DEF ClosePR, MergePR, CleanUp, Without
  <1>2. CutTypes' /\ Tags' /\ AllJustified'
    BY <1>1, MovedCuts
  <1>3. OneOpen'
    BY <1>1 DEF CutInv, OneOpen
  <1> QED BY <1>2, <1>3 DEF CutInv

LEMMA TagStep ==
  ASSUME CutInv, NEW m \in merging, TagRelease(m)
  PROVE  CutInv'
  <1>1. /\ merging' = merging \ {m} /\ UNCHANGED <<main, dispatch, branches, open>>
        /\ tagged' = tagged \/ (tagged' = tagged \cup {m} /\ \A t \in tagged : t.version # m.version)
    BY DEF TagRelease, Burned
  <1>2. m \in Cuts /\ m.version \in VersionNumbers /\ \A t \in tagged : t.version \in VersionNumbers
    BY DEF CutInv, CutTypes, Cuts
  <1>3. CutTypes'
    BY <1>1, <1>2 DEF CutInv, CutTypes, Cuts
  <1>4. OneOpen'
    BY <1>1 DEF CutInv, OneOpen
  <1>5. Tags'
    <2>1. CASE tagged' = tagged
      BY <2>1 DEF CutInv, Tags, IsLast
    <2>2. CASE tagged' = tagged \cup {m} /\ \A t \in tagged : t.version # m.version
      <3>1. \A t, u \in tagged' : t.version = u.version => t = u
        BY <2>2 DEF CutInv, Tags
      <3>2. PICK l \in tagged : \A u \in tagged : ~Higher(u.version, l.version)
        BY DEF CutInv, Tags, IsLast
      <3>3. CASE Higher(m.version, l.version)
        <4>1. ASSUME NEW u \in tagged' PROVE ~Higher(u.version, m.version)
          <5>1. CASE u = m
            BY <1>2, <5>1, HigherOrder
          <5>2. CASE u \in tagged
            BY <1>2, <3>2, <3>3, <5>2, HigherOrder
          <5> QED BY <2>2, <4>1, <5>1, <5>2
        <4>2. m \in tagged'
          BY <2>2
        <4> QED BY <3>1, <4>1, <4>2 DEF Tags, IsLast
      <3>4. CASE ~Higher(m.version, l.version)
        <4>1. l \in tagged' /\ \A u \in tagged' : ~Higher(u.version, l.version)
          BY <2>2, <3>2, <3>4
        <4> QED BY <3>1, <4>1 DEF Tags, IsLast
      <3> QED BY <3>3, <3>4
    <2> QED BY <1>1, <2>1, <2>2
  <1>6. AllJustified'
    <2>1. tagged \subseteq tagged' /\ branches' \cup merging' \cup tagged' \subseteq branches \cup merging \cup tagged
      BY <1>1
    <2>2. \A v, w : \A n \in 0 .. Len(main) : Justified(v, n, w) => Justified(v, n, w)'
      BY <1>1, <2>1, BreaksUnchanged, JustifiedKept DEF CutInv
    <2>3. ASSUME NEW c \in branches' \cup merging' \cup tagged' PROVE Justified(c.version, c.cut, c.judged)'
      <3>1. c.cut \in 0 .. Len(main) /\ Justified(c.version, c.cut, c.judged)
        BY <2>1 DEF CutInv, CutTypes, Cuts, AllJustified
      <3> QED BY <2>2, <3>1
    <2>4. dispatch'.pc # "idle" => Justified(dispatch.version, dispatch.head, dispatch.judged)'
      <3> SUFFICES ASSUME dispatch'.pc # "idle", NEW v, NEW n, NEW w,
                          v = dispatch'.version, n = dispatch'.head, w = dispatch'.judged
                   PROVE  Justified(v, n, w)'
        OBVIOUS
      <3>1. n \in 0 .. Len(main) /\ Justified(v, n, w)
        BY <1>1 DEF CutInv, CutTypes, AllJustified
      <3> QED BY <2>2, <3>1
    <2> QED BY <2>3, <2>4 DEF AllJustified
  <1> QED BY <1>3, <1>4, <1>5, <1>6 DEF CutInv

LEMMA NextCut == CutInv /\ [CutNext]_cutVars => CutInv'
  <1> SUFFICES ASSUME CutInv, [CutNext]_cutVars PROVE CutInv'
    OBVIOUS
  <1>1. ASSUME NEW k \in CommitKinds, MergeCommit(k) PROVE CutInv'
    BY <1>1, CommitStep
  <1>2. ASSUME NEW input \in {"auto", "patch", "minor"}, NEW seen \in Sights, NEW newerLost \in BOOLEAN,
               Prepare(input, seen, newerLost)
        PROVE  CutInv'
    BY <1>2, PrepareStep
  <1>3. CASE ClosePRs \/ PushCut \/ OpenPR \/ DispatchFails
    BY <1>3, DispatchStep
  <1>4. ASSUME NEW v, ClosePR(v) \/ MergePR(v) \/ CleanUp(v) PROVE CutInv'
    BY <1>4, PullRequestStep
  <1>5. ASSUME NEW m \in merging, TagRelease(m) PROVE CutInv'
    BY <1>5, TagStep
  <1>6. CASE UNCHANGED cutVars
    <2>1. CutTypes' /\ Tags' /\ AllJustified'
      BY <1>6, MovedCuts DEF cutVars
    <2> QED BY <1>6, <2>1 DEF cutVars, CutInv, OneOpen
  <1> QED BY <1>1, <1>2, <1>3, <1>4, <1>5, <1>6 DEF CutNext

LEMMA AlwaysCutInv == CutSpec => []CutInv
  BY InitCut, NextCut, PTL DEF CutSpec

(* The tag below a patch is the one its justification names.               *)
LEMMA PredecessorIs ==
  ASSUME CutInv, NEW t \in tagged, t.version[2] > 0,
         NEW l \in tagged, l.version = <<t.version[1], t.version[2] - 1>>
  PROVE  Predecessor(t) = l
  <1> DEFINE Below(u) == /\ Higher(t.version, u.version)
                         /\ \A w \in tagged : Higher(t.version, w.version) => ~Higher(w.version, u.version)
  <1>1. \A u \in tagged : u.version \in Nat \X Nat
    BY DEF CutInv, CutTypes, Cuts, VersionNumbers
  <1>2. Below(l)
    BY <1>1 DEF Higher
  <1>3. ASSUME NEW u \in tagged, Below(u) PROVE u = l
    <2>1. ~Higher(l.version, u.version) /\ ~Higher(u.version, l.version)
      BY <1>2, <1>3
    <2>2. u.version = l.version
      BY <1>1, <2>1, HigherOrder DEF VersionNumbers
    <2> QED BY <2>2 DEF CutInv, Tags
  <1> QED BY <1>2, <1>3 DEF Predecessor

(* prepare-release.yml: a version called a patch breaks nothing of the tag *)
(* below it that its assessment could see (the marks of the commits, the   *)
(* exports if git showed them, the signatures if griffe ran), and a        *)
(* dispatch leaves one release to review, whatever lands, closes and fails *)
(* meanwhile.                                                              *)
THEOREM CutsSound == CutSpec => []CutsAreSound
  <1>1. CutInv => CutsAreSound
    <2> SUFFICES ASSUME CutInv PROVE PatchKeepsAPI
      BY DEF CutsAreSound, OneReleaseToReview, CutInv, OneOpen
    <2> SUFFICES ASSUME NEW t \in tagged, t.version[2] > 0
                 PROVE  LET before == Predecessor(t).cut
                        IN  /\ "marks" \in t.judged => "marked" \notin CommitsSince(before, t.cut)
                            /\ "exports" \in t.judged => (Exported(before) => Exported(t.cut))
                            /\ "signatures" \in t.judged => "resign" \notin CommitsSince(before, t.cut)
      BY DEF PatchKeepsAPI
    <2>1. PICK l \in tagged : /\ l.version = <<t.version[1], t.version[2] - 1>>
                              /\ ~Breaks(l.cut, t.cut, t.judged)
      BY DEF CutInv, AllJustified, Justified
    <2>2. Predecessor(t) = l
      BY <2>1, PredecessorIs
    <2> QED BY <2>1, <2>2 DEF Breaks, RemovedExport, BreakingChange
  <1> QED BY <1>1, AlwaysCutInv, PTL

-----------------------------------------------------------------------------
(* Providers.                                                              *)

(* The index of an adapter that was built when these were the overrides.   *)
Serving(overrides, p) == IF p \in Composition THEN Unknown ELSE Declares[overrides[p]]
IndexOf(overrides) ==
  [t \in {Serving(overrides, p) : p \in ToSet(Container)} \ {Unknown} |->
     Selected(Container, {p \in ToSet(Container) : Serving(overrides, p) = t})]

(* A collection that resolves every type given to the last of that type.   *)
OfType(given, t) == {x \in ToSet(given) : TypeOf[x] = t}
Faithful(collection, given) ==
  /\ DOMAIN collection = {TypeOf[x] : x \in ToSet(given)}
  /\ \A t \in DOMAIN collection : collection[t] = Last(Selected(given, OfType(given, t)))

ProviderTypes ==
  /\ operands \in Seq(Seq(Instances)) /\ Len(operands) = Len(collections)
  /\ (\E C : collections \in Seq(C)) /\ Len(collections) <= MaxCollections
  /\ provider \in {"services", "adapter", "dishka"} /\ using \in 0 .. Len(collections)
  /\ override \in [ToSet(Container) -> Sources] /\ indexed \in [ToSet(Container) -> Sources]

(* The types the provider in use has, which its two operations tell alike. *)
Held ==
  IF provider = "services" THEN IF using = 0 THEN {} ELSE DOMAIN collections[using]
  ELSE IF provider = "adapter" THEN DOMAIN index ELSE Factories
LookupStands ==
  /\ lookup.outcome = "instance" => <<lookup.made, lookup.asked>> \in Subclass
  /\ lookup.asked \in Types => (lookup.outcome = "ServiceNotFound" <=> lookup.asked \notin Held)
AnswerStands == said.asked \in Types => (said.yes <=> said.asked \in Held)

ProvidersInv ==
  /\ ProviderTypes /\ index = IndexOf(indexed) /\ LookupStands /\ AnswerStands
  /\ \A k \in 1 .. Len(collections) : Faithful(collections[k], operands[k])

LEMMA IndexIs == IndexNow = IndexOf(override)
  BY DEF IndexNow, IndexOf, ServiceType, Serving

LEMMA Indexed ==
  ASSUME NEW overrides \in [ToSet(Container) -> Sources], NEW t \in DOMAIN IndexOf(overrides)
  PROVE  /\ IndexOf(overrides)[t] # <<>> /\ ToSet(IndexOf(overrides)[t]) \subseteq ToSet(Container)
         /\ Head(IndexOf(overrides)[t]) \in ToSet(Container)
         /\ Declares[overrides[Head(IndexOf(overrides)[t])]] = t /\ t \in Types
<1> DEFINE P == {p \in ToSet(Container) : Serving(overrides, p) = t}
           s == Selected(Container, P)
<1>1. /\ t \in {Serving(overrides, p) : p \in ToSet(Container)} \ {Unknown}
      /\ IndexOf(overrides)[t] = s
  BY DEF IndexOf
<1>2. Container \in Seq(ToSet(Container))
  BY ProvidersAssumption
<1>3. ToSet(s) = ToSet(Container) \cap P
  <2> HIDE DEF P
  <2>. QED  BY <1>2, SelectedHolds
<1>4. s \in Seq(ToSet(Container) \cap P)
  <2> HIDE DEF P
  <2>. QED  BY <1>2, SelectedType
<1>5. PICK p \in ToSet(Container) : Serving(overrides, p) = t
  BY <1>1
<1>6. ToSet(s) # {} /\ ToSet(s) \subseteq P
  BY <1>3, <1>5
<1>7. s # <<>>
  BY <1>6, ToSetEmpty
<1> HIDE DEF s
<1>8. Head(s) \in ToSet(Container) \cap P
  BY <1>4, <1>7, HeadTailProperties
<1>9. Serving(overrides, Head(s)) = t /\ t # Unknown
  BY <1>1, <1>8
<1>10. Declares[overrides[Head(s)]] = t
  BY <1>9 DEF Serving
<1>11. t \in Types
  BY <1>8, <1>9, <1>10, ProvidersAssumption
<1>. QED  BY <1>1, <1>3, <1>7, <1>8, <1>10, <1>11

-----------------------------------------------------------------------------
(* The instances of a type among those given, and the last of them.        *)
LEMMA LastOfType ==
  ASSUME NEW given \in Seq(Instances), NEW t \in {TypeOf[x] : x \in ToSet(given)}
  PROVE  /\ Selected(given, OfType(given, t)) \in Seq(Instances)
         /\ Selected(given, OfType(given, t)) # <<>>
         /\ Last(Selected(given, OfType(given, t))) \in OfType(given, t)
<1> DEFINE S == OfType(given, t)
           s == Selected(given, S)
<1>1. ToSet(s) = ToSet(given) \cap S
  BY SelectedHolds
<1>2. s \in Seq(Instances \cap S)
  BY SelectedType
<1>3. s \in Seq(Instances)
  BY <1>2, SeqMonotonic
<1>4. S # {} /\ S \subseteq ToSet(given)
  BY DEF OfType
<1>5. s # <<>>
  BY <1>1, <1>4, ToSetEmpty
<1>6. Last(s) \in ToSet(s)
  BY <1>3, <1>5, LastIn
<1>. QED  BY <1>1, <1>3, <1>5, <1>6

LEMMA NoneOfType ==
  ASSUME NEW given \in Seq(Instances), NEW t, t \notin {TypeOf[x] : x \in ToSet(given)}
  PROVE  Selected(given, OfType(given, t)) = <<>>
<1>1. OfType(given, t) = {}
  BY DEF OfType
<1>2. Selected(given, OfType(given, t)) \in Seq(Instances \cap {})
  BY <1>1, SelectedType
<1>3. Instances \cap {} = {}
  OBVIOUS
<1>4. Selected(given, OfType(given, t)) \in Seq({})
  BY <1>2, <1>3, Zenon
<1>. QED  BY <1>4, EmptySeq, LenProperties, LastIn, ToSetEmpty

LEMMA ServicesFaithful ==
  ASSUME NEW given \in Seq(Instances), Distinct(given)
  PROVE  Faithful(ServicesOf(given), given)
<1>1. DOMAIN ServicesOf(given) = {TypeOf[x] : x \in ToSet(given)}
  BY DEF ServicesOf
<1>2. ASSUME NEW t \in {TypeOf[x] : x \in ToSet(given)}
      PROVE  ServicesOf(given)[t] = Last(Selected(given, OfType(given, t)))
  <2> DEFINE x == CHOOSE y \in ToSet(given) : TypeOf[y] = t
             z == Last(Selected(given, OfType(given, t)))
  <2>1. ServicesOf(given)[t] = x
    BY DEF ServicesOf
  <2>2. x \in ToSet(given) /\ TypeOf[x] = t
    OBVIOUS
  <2>3. z \in ToSet(given) /\ TypeOf[z] = t
    BY LastOfType DEF OfType
  <2> HIDE DEF x, z
  <2>4. PICK i \in DOMAIN given : x = given[i]
    BY <2>2 DEF ToSet
  <2>5. PICK j \in DOMAIN given : z = given[j]
    BY <2>3 DEF ToSet
  <2>6. i = j
    BY <2>2, <2>3, <2>4, <2>5 DEF Distinct
  <2>. QED  BY <2>1, <2>4, <2>5, <2>6 DEF z
<1>. QED  BY <1>1, <1>2 DEF Faithful

LEMMA ShadowFaithful ==
  ASSUME NEW left, NEW right, NEW s \in Seq(Instances), NEW r \in Seq(Instances),
         Faithful(left, s), Faithful(right, r)
  PROVE  Faithful(Shadow(left, right), s \o r)
<1>1. ToSet(s \o r) = ToSet(s) \cup ToSet(r) /\ s \o r \in Seq(Instances)
  BY ToSetConcat, ConcatProperties
<1>2. DOMAIN Shadow(left, right) = {TypeOf[x] : x \in ToSet(s \o r)}
  BY <1>1 DEF Shadow, Faithful
<1>3. ASSUME NEW t \in DOMAIN Shadow(left, right)
      PROVE  Shadow(left, right)[t] = Last(Selected(s \o r, OfType(s \o r, t)))
  <2> DEFINE S == OfType(s \o r, t)
             a == Selected(s, OfType(s, t))
             b == Selected(r, OfType(r, t))
  <2>1. Selected(s \o r, S) = Selected(s, S) \o Selected(r, S)
    BY SelectedConcat
  <2>2. Selected(s, S) = a
    <3>1. \A i \in 1 .. Len(s) : s[i] \in S <=> s[i] \in OfType(s, t)
      <4>1. \A i \in 1 .. Len(s) : s[i] \in ToSet(s)
        BY DEF ToSet
      <4>. QED  BY <1>1, <4>1 DEF OfType
    <3> HIDE DEF S
    <3>. QED  BY <3>1, SelectedSame
  <2>3. Selected(r, S) = b
    <3>1. \A i \in 1 .. Len(r) : r[i] \in S <=> r[i] \in OfType(r, t)
      <4>1. \A i \in 1 .. Len(r) : r[i] \in ToSet(r)
        BY DEF ToSet
      <4>. QED  BY <1>1, <4>1 DEF OfType
    <3> HIDE DEF S
    <3>. QED  BY <3>1, SelectedSame
  <2>4. Selected(s \o r, S) = a \o b
    BY <2>1, <2>2, <2>3, Zenon
  <2>5. DOMAIN left = {TypeOf[x] : x \in ToSet(s)} /\ DOMAIN right = {TypeOf[x] : x \in ToSet(r)}
    BY DEF Faithful
  <2>6. CASE t \in DOMAIN right
    <3>1. Shadow(left, right)[t] = Last(b)
      BY <2>6 DEF Shadow, Faithful
    <3>2. b \in Seq(Instances) /\ b # <<>>
      BY <2>5, <2>6, LastOfType
    <3>3. a \in Seq(Instances)
      <4>1. a \in Seq(Instances \cap OfType(s, t))
        BY SelectedType
      <4>. QED  BY <4>1, SeqMonotonic
    <3> HIDE DEF a, b
    <3>4. Last(a \o b) = Last(b)
      BY <3>2, <3>3, LastOfConcat
    <3>. QED  BY <2>4, <3>1, <3>4, Zenon
  <2>7. CASE t \notin DOMAIN right
    <3>1. t \in DOMAIN left /\ Shadow(left, right)[t] = Last(a)
      BY <1>3, <2>7 DEF Shadow, Faithful
    <3>2. b = <<>>
      BY <2>5, <2>7, NoneOfType
    <3>3. a \in Seq(Instances)
      BY <2>5, <3>1, LastOfType
    <3> HIDE DEF a, b
    <3>4. a \o b = a
      BY <3>2, <3>3, ConcatEmptySeq
    <3>. QED  BY <2>4, <3>1, <3>4, Zenon
  <2>. QED  BY <2>6, <2>7
<1>. QED  BY <1>2, <1>3 DEF Faithful

LEMMA InitProviders == ProvidersInit => ProvidersInv
<1>. SUFFICES ASSUME ProvidersInit PROVE ProvidersInv
  OBVIOUS
<1>1. /\ collections = <<>> /\ operands = <<>> /\ override = OwnSource /\ indexed = OwnSource
      /\ provider \in {"services", "adapter", "dishka"} /\ using = 0
      /\ index = IndexOf(override) /\ lookup = [asked |-> Unknown, outcome |-> "none", made |-> Unknown]
      /\ said = [asked |-> Unknown, yes |-> FALSE]
  BY IndexIs DEF ProvidersInit
<1>2. ProviderTypes
  <2>1. <<>> \in Seq({}) /\ <<>> \in Seq(Seq(Instances))
    OBVIOUS
  <2>. QED  BY <1>1, <2>1, ProvidersAssumption DEF ProviderTypes
<1>3. LookupStands /\ AnswerStands
  BY <1>1, ProvidersAssumption DEF LookupStands, AnswerStands
<1>5. \A k \in 1 .. Len(collections) : Faithful(collections[k], operands[k])
  BY <1>1
<1>. QED  BY <1>1, <1>2, <1>3, <1>5 DEF ProvidersInv

(* What a question or a look-up leaves alone, and the collections besides. *)
LEMMA AsksStep ==
  ASSUME ProvidersInv, UNCHANGED <<provider, services, adapter>>
  PROVE  ProviderTypes' /\ (index = IndexOf(indexed))' /\ Held' = Held
         /\ (\A k \in 1 .. Len(collections) : Faithful(collections[k], operands[k]))'
<1>1. UNCHANGED <<provider, using, collections, operands, override, index, indexed>>
  BY DEF services, adapter
<1>2. ProviderTypes' /\ Held' = Held
  BY <1>1 DEF ProvidersInv, ProviderTypes, Held
<1>3. (index = IndexOf(indexed))'
  BY <1>1 DEF ProvidersInv, IndexOf, Serving
<1>4. (\A k \in 1 .. Len(collections) : Faithful(collections[k], operands[k]))'
  BY <1>1 DEF ProvidersInv, Faithful, OfType
<1>. QED  BY <1>2, <1>3, <1>4

LEMMA SaysStep ==
  ASSUME ProvidersInv, NEW t \in Types, NEW yes, Says(t, yes), yes <=> t \in Held
  PROVE  ProvidersInv'
<1>1. /\ said'.asked = t /\ (said'.yes <=> yes) /\ lookup' = lookup
      /\ UNCHANGED <<provider, services, adapter>>
  BY DEF Says
<1>2. ProviderTypes' /\ (index = IndexOf(indexed))' /\ Held' = Held
      /\ (\A k \in 1 .. Len(collections) : Faithful(collections[k], operands[k]))'
  BY <1>1, AsksStep
<1>3. LookupStands'
  BY <1>1, <1>2 DEF ProvidersInv, LookupStands
<1>4. AnswerStands'
  BY <1>1, <1>2 DEF AnswerStands
<1>. QED  BY <1>2, <1>3, <1>4 DEF ProvidersInv

LEMMA FindsStep ==
  ASSUME ProvidersInv, NEW t \in Types, NEW found, Finds(t, found), found.asked = t,
         found.outcome = "instance" => <<found.made, t>> \in Subclass,
         found.outcome = "ServiceNotFound" <=> t \notin Held
  PROVE  ProvidersInv'
<1>1. lookup' = found /\ said' = said /\ UNCHANGED <<provider, services, adapter>>
  BY DEF Finds
<1>2. ProviderTypes' /\ (index = IndexOf(indexed))' /\ Held' = Held
      /\ (\A k \in 1 .. Len(collections) : Faithful(collections[k], operands[k]))'
  BY <1>1, AsksStep
<1>3. LookupStands'
  BY <1>1, <1>2 DEF LookupStands
<1>4. AnswerStands'
  BY <1>1, <1>2 DEF ProvidersInv, AnswerStands
<1>. QED  BY <1>2, <1>3, <1>4 DEF ProvidersInv

LEMMA Outcomes ==
  /\ \A t : Missing(t).asked = t /\ Missing(t).outcome = "ServiceNotFound"
  /\ \A t, made : /\ Given(t, made).asked = t /\ Given(t, made).made = made
                  /\ Given(t, made).outcome = "instance"
                  /\ [Given(t, made) EXCEPT !.outcome = "TypeError"].asked = t
                  /\ [Given(t, made) EXCEPT !.outcome = "TypeError"].outcome = "TypeError"
  BY DEF Missing, Given

(* One more collection, faithful to what it was made of.                   *)
LEMMA CollectionStep ==
  ASSUME ProvidersInv, NEW c, NEW given \in Seq(Instances), Faithful(c, given),
         Len(collections) < MaxCollections,
         collections' = Append(collections, c), operands' = Append(operands, given),
         UNCHANGED <<provider, using, adapter, asked>>
  PROVE  ProvidersInv'
<1>1. /\ operands \in Seq(Seq(Instances)) /\ Len(operands) = Len(collections)
      /\ Len(collections) \in Nat
  BY DEF ProvidersInv, ProviderTypes
<1>2. /\ operands' \in Seq(Seq(Instances)) /\ Len(operands') = Len(operands) + 1
      /\ operands'[Len(operands) + 1] = given
      /\ \A k \in 1 .. Len(operands) : operands'[k] = operands[k]
  BY <1>1, AppendProperties
<1>3. /\ Len(collections') = Len(collections) + 1 /\ \E C : collections' \in Seq(C)
      /\ collections'[Len(collections) + 1] = c
      /\ \A k \in 1 .. Len(collections) : collections'[k] = collections[k]
  <2>1. PICK C : collections \in Seq(C)
    BY DEF ProvidersInv, ProviderTypes
  <2>2. collections \in Seq(C \cup {c}) /\ c \in C \cup {c}
    BY <2>1, SeqMonotonic
  <2>3. /\ collections' \in Seq(C \cup {c}) /\ Len(collections') = Len(collections) + 1
        /\ collections'[Len(collections) + 1] = c
        /\ \A k \in 1 .. Len(collections) : collections'[k] = collections[k]
    BY <2>2, AppendProperties
  <2>. QED  BY <2>3
<1>4. MaxCollections \in Nat
  BY ProvidersAssumption
<1>5. UNCHANGED <<provider, using, override, index, indexed, lookup, said>>
  BY DEF adapter, asked
<1>6. ProviderTypes'
  BY <1>1, <1>2, <1>3, <1>4, <1>5 DEF ProvidersInv, ProviderTypes
<1>9. using \in 0 .. Len(collections)
  BY DEF ProvidersInv, ProviderTypes
<1>10. Held' = Held
  <2>1. using # 0 => collections'[using] = collections[using]
    BY <1>3, <1>9
  <2>. QED  BY <1>5, <2>1 DEF Held
<1>7. (index = IndexOf(indexed))' /\ LookupStands' /\ AnswerStands'
  BY <1>5, <1>10 DEF ProvidersInv, LookupStands, AnswerStands, IndexOf, Serving
<1>8. ASSUME NEW k \in 1 .. Len(collections')
      PROVE  Faithful(collections'[k], operands'[k])
  <2>1. CASE k = Len(collections) + 1
    <3>1. collections'[k] = c /\ operands'[k] = given
      BY <1>1, <1>2, <1>3, <2>1
    <3>. QED  BY <3>1
  <2>2. CASE k \in 1 .. Len(collections)
    <3>1. collections'[k] = collections[k] /\ operands'[k] = operands[k]
      BY <1>1, <1>2, <1>3, <2>2
    <3>2. Faithful(collections[k], operands[k])
      BY <2>2 DEF ProvidersInv
    <3>. QED  BY <3>1, <3>2, Zenon
  <2>. QED  BY <1>1, <1>3, <1>8, <2>1, <2>2
<1>. QED  BY <1>6, <1>7, <1>8 DEF ProvidersInv, Faithful, OfType

LEMMA NextProviders == ProvidersInv /\ [ProvidersNext]_providersVars => ProvidersInv'
<1>. SUFFICES ASSUME ProvidersInv, [ProvidersNext]_providersVars PROVE ProvidersInv'
  OBVIOUS
<1>0. /\ operands \in Seq(Seq(Instances)) /\ Len(operands) = Len(collections)
      /\ DOMAIN collections = 1 .. Len(collections)
  BY LenProperties DEF ProvidersInv, ProviderTypes
<1>1. ASSUME NEW given \in SeqOf(Instances, 2), Construct(given) PROVE ProvidersInv'
  <2>1. given \in Seq(Instances)
    <3>1. PICK m \in 0 .. 2 : given \in [1 .. m -> Instances]
      BY DEF SeqOf
    <3>2. m \in Nat
      BY <3>1
    <3>. QED  BY <3>1, <3>2
  <2>2. /\ Distinct(given) /\ Len(collections) < MaxCollections
        /\ collections' = Append(collections, ServicesOf(given)) /\ operands' = Append(operands, given)
        /\ UNCHANGED <<provider, using, adapter, asked>>
    BY <1>1 DEF Construct
  <2>3. Faithful(ServicesOf(given), given)
    BY <2>1, <2>2, ServicesFaithful
  <2>. QED  BY <2>1, <2>2, <2>3, CollectionStep
<1>2. ASSUME NEW i \in 1 .. MaxCollections, NEW j \in 1 .. MaxCollections, Combine(i, j)
      PROVE  ProvidersInv'
  <2>1. /\ i \in 1 .. Len(collections) /\ j \in 1 .. Len(collections)
        /\ Len(collections) < MaxCollections
        /\ collections' = Append(collections, Shadow(collections[i], collections[j]))
        /\ operands' = Append(operands, operands[i] \o operands[j])
        /\ UNCHANGED <<provider, using, adapter, asked>>
    BY <1>0, <1>2 DEF Combine
  <2>2. operands[i] \in Seq(Instances) /\ operands[j] \in Seq(Instances)
    BY <1>0, <2>1
  <2>3. Faithful(collections[i], operands[i]) /\ Faithful(collections[j], operands[j])
    BY <2>1 DEF ProvidersInv
  <2>4. Faithful(Shadow(collections[i], collections[j]), operands[i] \o operands[j])
    BY <2>2, <2>3, ShadowFaithful
  <2>5. operands[i] \o operands[j] \in Seq(Instances)
    BY <2>2, ConcatProperties
  <2>. QED  BY <2>1, <2>4, <2>5, CollectionStep
<1>3. CASE BuildAdapter
  <2>1. /\ index' = IndexOf(override) /\ indexed' = override
        /\ UNCHANGED <<provider, using, collections, operands, override>>
    BY <1>3, IndexIs DEF BuildAdapter, services
  <2>2. ProviderTypes'
    BY <2>1 DEF ProvidersInv, ProviderTypes
  <2>3. (index = IndexOf(indexed))'
    BY <2>1 DEF IndexOf, Serving
  <2>4. LookupStands' /\ AnswerStands'
    BY <1>3, ProvidersAssumption DEF BuildAdapter, NotAsked, LookupStands, AnswerStands
  <2>5. (\A k \in 1 .. Len(collections) : Faithful(collections[k], operands[k]))'
    BY <2>1 DEF ProvidersInv, Faithful, OfType
  <2>. QED  BY <2>2, <2>3, <2>4, <2>5 DEF ProvidersInv
<1>4. ASSUME NEW p \in ToSet(Container), NEW s \in StandIns[p], Override(p, s) PROVE ProvidersInv'
  <2>1. /\ override' = [override EXCEPT ![p] = s] /\ s \in Sources
        /\ UNCHANGED <<provider, using, collections, operands, index, indexed, lookup, said>>
    BY <1>4, ProvidersAssumption DEF Override, services, asked
  <2>2. ProviderTypes' /\ LookupStands' /\ AnswerStands'
    BY <2>1 DEF ProvidersInv, ProviderTypes, LookupStands, AnswerStands, Held
  <2>3. (index = IndexOf(indexed))'
    BY <2>1 DEF ProvidersInv, IndexOf, Serving
  <2>4. (\A k \in 1 .. Len(collections) : Faithful(collections[k], operands[k]))'
    BY <2>1 DEF ProvidersInv, Faithful, OfType
  <2>. QED  BY <2>2, <2>3, <2>4 DEF ProvidersInv
<1>5. ASSUME NEW k \in 1 .. MaxCollections, UseServices(k) PROVE ProvidersInv'
  <2>1. /\ k \in 1 .. Len(collections) /\ using' = k
        /\ UNCHANGED <<provider, collections, operands, override, index, indexed>>
    BY <1>0, <1>5 DEF UseServices, adapter
  <2>2. ProviderTypes'
    BY <2>1 DEF ProvidersInv, ProviderTypes
  <2>3. LookupStands' /\ AnswerStands'
    BY <1>5, ProvidersAssumption DEF UseServices, NotAsked, LookupStands, AnswerStands
  <2>4. (index = IndexOf(indexed))'
    BY <2>1 DEF ProvidersInv, IndexOf, Serving
  <2>5. (\A n \in 1 .. Len(collections) : Faithful(collections[n], operands[n]))'
    BY <2>1 DEF ProvidersInv, Faithful, OfType
  <2>. QED  BY <2>2, <2>3, <2>4, <2>5 DEF ProvidersInv
<1>6. ASSUME NEW t \in Types, ServicesContains(t) \/ AdapterContains(t) \/ DishkaContains(t)
      PROVE  ProvidersInv'
  <2>1. CASE ServicesContains(t)
    <3>1. Says(t, t \in DOMAIN collections[using]) /\ Held = DOMAIN collections[using]
      BY <2>1 DEF ServicesContains, Held
    <3>. QED  BY <3>1, SaysStep
  <2>2. CASE AdapterContains(t)
    <3>1. Says(t, t \in DOMAIN index) /\ Held = DOMAIN index
      BY <2>2 DEF AdapterContains, Held
    <3>. QED  BY <3>1, SaysStep
  <2>3. CASE DishkaContains(t)
    <3>1. Says(t, t \in Factories) /\ Held = Factories
      BY <2>3 DEF DishkaContains, Held
    <3>. QED  BY <3>1, SaysStep
  <2>. QED  BY <1>6, <2>1, <2>2, <2>3
<1>7. ASSUME NEW t \in Types, ServicesGetItem(t) PROVE ProvidersInv'
  <2> DEFINE c == collections[using]
             found == IF t \notin DOMAIN c THEN Missing(t) ELSE Given(t, TypeOf[c[t]])
  <2>1. Finds(t, found) /\ Held = DOMAIN c /\ using \in 1 .. Len(collections)
    BY <1>7 DEF ServicesGetItem, Held, ProvidersInv, ProviderTypes
  <2>2. Faithful(c, operands[using]) /\ operands[using] \in Seq(Instances)
    BY <1>0, <2>1 DEF ProvidersInv
  <2> HIDE DEF c
  <2>3. ASSUME t \in DOMAIN c PROVE TypeOf[c[t]] = t
    <3>1. t \in {TypeOf[x] : x \in ToSet(operands[using])}
      BY <2>2, <2>3 DEF Faithful
    <3>2. c[t] \in OfType(operands[using], t)
      BY <2>2, <2>3, <3>1, LastOfType DEF Faithful
    <3>. QED  BY <3>2 DEF OfType
  <2>4. <<t, t>> \in Subclass
    BY ProvidersAssumption
  <2>5. /\ found.asked = t /\ (found.outcome = "ServiceNotFound" <=> t \notin Held)
        /\ found.outcome = "instance" => <<found.made, t>> \in Subclass
    BY <2>1, <2>3, <2>4, Outcomes
  <2> HIDE DEF found
  <2>. QED  BY <2>1, <2>5, FindsStep
<1>8. ASSUME NEW t \in Types, AdapterGetItem(t) PROVE ProvidersInv'
  <2> DEFINE made == Makes[override[Head(index[t])]]
             found == IF t \notin DOMAIN index THEN Missing(t)
                      ELSE IF Accepted(made, t) THEN Given(t, made)
                      ELSE [Given(t, made) EXCEPT !.outcome = "TypeError"]
  <2>1. Finds(t, found) /\ Held = DOMAIN index
    BY <1>8 DEF AdapterGetItem, Held
  <2>2. Accepted(made, t) => <<made, t>> \in Subclass
    BY DEF Accepted
  <2> HIDE DEF made
  <2>3. /\ found.asked = t /\ (found.outcome = "ServiceNotFound" <=> t \notin Held)
        /\ found.outcome = "instance" => <<found.made, t>> \in Subclass
    BY <2>1, <2>2, Outcomes
  <2> HIDE DEF found
  <2>. QED  BY <2>1, <2>3, FindsStep
<1>9. ASSUME NEW t \in Types, DishkaGetItem(t) PROVE ProvidersInv'
  <2> DEFINE found == IF t \notin Factories THEN Missing(t) ELSE Given(t, t)
  <2>1. Finds(t, found) /\ Held = Factories /\ <<t, t>> \in Subclass
    BY <1>9, ProvidersAssumption DEF DishkaGetItem, Held
  <2>2. /\ found.asked = t /\ (found.outcome = "ServiceNotFound" <=> t \notin Held)
        /\ found.outcome = "instance" => <<found.made, t>> \in Subclass
    BY <2>1, Outcomes
  <2> HIDE DEF found
  <2>. QED  BY <2>1, <2>2, FindsStep
<1>10. CASE UNCHANGED providersVars
  <2>1. UNCHANGED <<provider, services, adapter>> /\ UNCHANGED <<lookup, said>>
    BY <1>10 DEF providersVars, services, adapter
  <2>2. ProviderTypes' /\ (index = IndexOf(indexed))' /\ Held' = Held
        /\ (\A k \in 1 .. Len(collections) : Faithful(collections[k], operands[k]))'
    BY <2>1, AsksStep
  <2>3. LookupStands' /\ AnswerStands'
    BY <2>1, <2>2 DEF ProvidersInv, LookupStands, AnswerStands
  <2>. QED  BY <2>2, <2>3 DEF ProvidersInv
<1>. QED  BY <1>1, <1>2, <1>3, <1>4, <1>5, <1>6, <1>7, <1>8, <1>9, <1>10 DEF ProvidersNext

LEMMA ProvidersFollow == ProvidersInv => ProvidersTypeOK /\ ProvidersAreFaithful
<1>. SUFFICES ASSUME ProvidersInv PROVE ProvidersTypeOK /\ ProvidersAreFaithful
  OBVIOUS
<1>1. /\ ProviderTypes /\ index = IndexOf(indexed)
      /\ override \in [ToSet(Container) -> Sources] /\ indexed \in [ToSet(Container) -> Sources]
  BY DEF ProvidersInv, ProviderTypes
<1>2. ProvidersTypeOK
  <2>1. \A t \in DOMAIN index : index[t] # <<>> /\ ToSet(index[t]) \subseteq ToSet(Container)
    <3>1. ASSUME NEW t \in DOMAIN IndexOf(indexed)
          PROVE  IndexOf(indexed)[t] # <<>> /\ ToSet(IndexOf(indexed)[t]) \subseteq ToSet(Container)
      BY <1>1, Indexed
    <3>. QED  BY <1>1, <3>1, Zenon
  <2>. QED  BY <2>1 DEF ProvidersInv, ProviderTypes, ProvidersTypeOK
<1>3. LastGivenWins
  <2>1. DOMAIN collections = 1 .. Len(collections)
    BY LenProperties DEF ProvidersInv, ProviderTypes
  <2>. QED  BY <2>1 DEF ProvidersInv, Faithful, OfType, LastGivenWins
<1>4. ServesWhatWasAsked /\ AnswersStand
  BY DEF ProvidersInv, LookupStands, AnswerStands, ServesWhatWasAsked, AnswersStand
<1>5. RebuildingCures
  <2> DEFINE at(t) == override[Head(index[t])]
  <2>. SUFFICES ASSUME indexed = override, NEW t \in DOMAIN index, ~Accepted(Makes[at(t)], t)
                PROVE  Makes[at(t)] # Declares[at(t)]
    BY DEF RebuildingCures
  <2>1. t \in DOMAIN IndexOf(override) /\ index[t] = IndexOf(override)[t]
    BY <1>1
  <2>2. Declares[override[Head(IndexOf(override)[t])]] = t /\ t \in Types
    BY <1>1, <2>1, Indexed
  <2>3. Declares[at(t)] = t
    BY <2>1, <2>2, Zenon
  <2>4. Makes[at(t)] # t
    BY <2>2, ProvidersAssumption DEF Accepted
  <2>. QED  BY <2>3, <2>4
<1>. QED  BY <1>2, <1>3, <1>4, <1>5 DEF ProvidersAreFaithful

-----------------------------------------------------------------------------
(* ExamplesRunner.                                                         *)
AtExample == {"checked", "copied", "pinned", "resolved", "synced"}
Suites == {"wheel", "version"}
Places == {"contract", "quality", "copy", "pin", "os"}

RunTypes ==
  /\ mode \in {"wheel", "version", "contract", "repository"}
  /\ present \in SUBSET ToSet(Names)
  /\ faults \in [ToSet(Names) -> SUBSET ToSet(ContractOrder)]
  /\ step \in {"start", "next", "exited"} \cup AtExample
  /\ current \in Nat /\ current <= Cardinality(present)
  /\ results \in Seq(BOOLEAN) /\ tested \in SUBSET present
  /\ edits \in Nat /\ checked \in 0 .. edits

(* How far the run has come.                                               *)
RunStands ==
  /\ exitCode \in {-1, 0, 1, 2, 99} /\ (step = "exited" <=> exitCode # -1)
  /\ raised \in {"no"} \cup Places /\ (raised # "no" <=> exitCode = 99)
  /\ step = "start" => current = 0
  /\ Len(results) \in {current, current - 1}
  /\ step \in {"start", "next"} => Len(results) = current
  /\ step \in AtExample => Len(results) = current - 1
  /\ step \in {"next"} \cup AtExample => present # {} /\ mode \in Suites

(* Only an edit undoes what the check of an example saw.                   *)
SeenClean == step \in {"checked", "copied"} /\ checked = edits => faults[Example] = {}

(* A suite begins with examples that have nothing wrong with them.         *)
BegunClean == step \in {"next"} \cup AtExample /\ edits = 0 => \A e \in present : faults[e] = {}

(* An example passes after it was synced.                                  *)
PassesAfterSync ==
  /\ step = "synced" => Example \in tested
  /\ \A i \in 1 .. Len(results) : results[i] => discover_examples[i] \in tested

RunnerInv ==
  /\ RunTypes /\ RunStands /\ SeenClean /\ BegunClean /\ PassesAfterSync
  /\ RaisesOnlyOnRacingEdit /\ ZeroMeansAllPassed
  /\ exitCode = 0 /\ mode = "repository" => CheckRepositoryQuality

LEMMA Discovered ==
  ASSUME present \in SUBSET ToSet(Names)
  PROVE  /\ discover_examples \in Seq(ToSet(Names)) /\ ToSet(discover_examples) = present
         /\ IsFiniteSet(present) /\ Cardinality(present) \in Nat
         /\ Len(discover_examples) = Cardinality(present)
         /\ \A i \in 1 .. Cardinality(present) : discover_examples[i] \in present
         /\ \A e \in present : \E i \in 1 .. Cardinality(present) : discover_examples[i] = e
<1>1. Names \in Seq(ToSet(Names)) /\ IsInjective(Names)
  BY RunnerAssumption
<1>2. /\ ToSet(discover_examples) = ToSet(Names) \cap present
      /\ IsFiniteSet(ToSet(Names) \cap present)
      /\ Len(discover_examples) = Cardinality(ToSet(Names) \cap present)
  BY <1>1, SelectedHolds DEF discover_examples
<1>3. ToSet(Names) \cap present = present
  OBVIOUS
<1>4. discover_examples \in Seq(ToSet(Names) \cap present)
  BY <1>1, SelectedType DEF discover_examples
<1>5. /\ ToSet(discover_examples) = present /\ IsFiniteSet(present)
      /\ Len(discover_examples) = Cardinality(present) /\ discover_examples \in Seq(present)
  BY <1>2, <1>3, <1>4, Zenon
<1>6. discover_examples \in Seq(ToSet(Names))
  BY <1>5, SeqMonotonic
<1>7. \A i \in 1 .. Cardinality(present) : discover_examples[i] \in present
  BY <1>5
<1>8. DOMAIN discover_examples = 1 .. Cardinality(present)
  BY <1>5
<1>9. \A e \in present : \E i \in 1 .. Cardinality(present) : discover_examples[i] = e
  BY <1>5, <1>8 DEF ToSet
<1>10. Cardinality(present) \in Nat
  BY <1>5, FS_CardinalityType
<1>. QED  BY <1>5, <1>6, <1>7, <1>9, <1>10

LEMMA InitRunner == RunnerInit => RunnerInv
<1>. SUFFICES ASSUME RunnerInit PROVE RunnerInv
  OBVIOUS
<1>1. /\ step = "start" /\ current = 0 /\ results = <<>> /\ tested = {} /\ exitCode = -1
      /\ raised = "no" /\ edits = 0 /\ checked = 0 /\ present \in SUBSET ToSet(Names)
      /\ mode \in {"wheel", "version", "contract", "repository"}
  BY DEF RunnerInit
<1>2. faults \in [ToSet(Names) -> SUBSET ToSet(ContractOrder)]
  BY RunnerAssumption DEF RunnerInit
<1>3. current <= Cardinality(present)
  BY <1>1, Discovered
<1>4. RunTypes
  BY <1>1, <1>2, <1>3 DEF RunTypes
<1>5. /\ RunStands /\ SeenClean /\ BegunClean /\ PassesAfterSync
      /\ RaisesOnlyOnRacingEdit /\ ZeroMeansAllPassed
  BY <1>1 DEF RunStands, SeenClean, BegunClean, PassesAfterSync, RaisesOnlyOnRacingEdit,
              ZeroMeansAllPassed, AtExample
<1>. QED  BY <1>1, <1>4, <1>5 DEF RunnerInv

LEMMA MainStep == RunnerInv /\ Main => RunnerInv'
<1>. SUFFICES ASSUME RunnerInv, Main PROVE RunnerInv'
  OBVIOUS
<1>1. /\ step = "start"
      /\ UNCHANGED <<mode, present, listed, faults, current, results, tested, edits, checked>>
  BY DEF Main
<1>2. \/ step' = "exited" /\ exitCode' \in {1, 2} /\ UNCHANGED raised
      \/ step' = "exited" /\ exitCode' = 99 /\ raised' \in {"contract", "quality"}
      \/ step' = "exited" /\ exitCode' = 0 /\ UNCHANGED raised /\ mode = "contract"
      \/ /\ step' = "exited" /\ exitCode' = 0 /\ UNCHANGED raised
         /\ mode = "repository" /\ CheckRepositoryQuality
      \/ /\ step' = "next" /\ UNCHANGED <<exitCode, raised>> /\ present # {} /\ mode \in Suites
         /\ \A e \in present : faults[e] = {}
  <2>1. ASSUME \A e \in present : CheckContract(e) = "none" PROVE \A e \in present : faults[e] = {}
    BY <2>1 DEF CheckContract
  <2>. QED  BY <2>1 DEF Main, Exit, Raise, RunnerInv, RunTypes, Suites
<1>3. RunTypes'
  BY <1>1, <1>2 DEF RunnerInv, RunTypes
<1>4. discover_examples' = discover_examples /\ CheckRepositoryQuality' = CheckRepositoryQuality
  BY <1>1 DEF discover_examples, CheckRepositoryQuality, Unpaired, NamesAt
<1>5. RunStands'
  BY <1>1, <1>2 DEF RunnerInv, RunStands, AtExample, Places
<1>6. SeenClean' /\ BegunClean' /\ PassesAfterSync'
  BY <1>1, <1>2, <1>4 DEF RunnerInv, SeenClean, BegunClean, PassesAfterSync, Example, AtExample
<1>7. RaisesOnlyOnRacingEdit' /\ ZeroMeansAllPassed'
  BY <1>1, <1>2 DEF RunnerInv, RaisesOnlyOnRacingEdit, ZeroMeansAllPassed, Suites, RunStands
<1>8. (exitCode = 0 /\ mode = "repository" => CheckRepositoryQuality)'
  BY <1>1, <1>2, <1>4 DEF RunnerInv, RunStands
<1>. QED  BY <1>3, <1>5, <1>6, <1>7, <1>8 DEF RunnerInv

LEMMA EditStep ==
  ASSUME RunnerInv, NEW e \in ToSet(Names), NEW fault \in ToSet(ContractOrder), EditExample(e, fault)
  PROVE  RunnerInv'
<1>1. /\ exitCode = -1 /\ edits' = edits + 1
      /\ UNCHANGED <<mode, present, listed, step, current, results, tested, exitCode, raised, checked>>
  BY DEF EditExample
<1>2. faults' \in [ToSet(Names) -> SUBSET ToSet(ContractOrder)]
  BY DEF EditExample, RunnerInv, RunTypes
<1>3. discover_examples' = discover_examples
  BY <1>1 DEF discover_examples
<1>4. RunTypes' /\ checked' < edits'
  BY <1>1, <1>2 DEF RunnerInv, RunTypes
<1>5. RunStands' /\ PassesAfterSync'
  BY <1>1, <1>3 DEF RunnerInv, RunStands, PassesAfterSync, Example
<1>6. SeenClean' /\ BegunClean'
  BY <1>1, <1>4 DEF SeenClean, BegunClean, RunnerInv, RunTypes
<1>7. RaisesOnlyOnRacingEdit' /\ ZeroMeansAllPassed'
  BY <1>1 DEF RaisesOnlyOnRacingEdit, ZeroMeansAllPassed, RunnerInv, RunStands
<1>8. ~(exitCode = 0)'
  BY <1>1
<1>. QED  BY <1>4, <1>5, <1>6, <1>7, <1>8 DEF RunnerInv

(* A result recorded is of the current example; none is a pass but after   *)
(* its synchronization.                                                    *)
LEMMA ResultStep ==
  ASSUME RunnerInv, NEW ok \in BOOLEAN, Result(ok), step # "exited",
         NEW n \in Nat, current' = n, n <= Cardinality(present), Len(results) = n - 1,
         tested' \in SUBSET present, tested \subseteq tested',
         ok = TRUE => discover_examples[n] \in tested', present # {} /\ mode \in Suites, step # "start",
         checked' \in {checked, edits}, UNCHANGED <<mode, present, listed, faults, exitCode, raised, edits>>
  PROVE  RunnerInv'
<1>1. step' = "next" /\ results' = Append(results, ok)
  BY DEF Result
<1>2. /\ results' \in Seq(BOOLEAN) /\ Len(results') = n
      /\ \A i \in 1 .. Len(results) : results'[i] = results[i]
      /\ results'[n] = ok
  <2>1. results \in Seq(BOOLEAN)
    BY DEF RunnerInv, RunTypes
  <2>2. /\ results' \in Seq(BOOLEAN) /\ Len(results') = Len(results) + 1 /\ Len(results) \in Nat
        /\ \A i \in 1 .. Len(results) : results'[i] = results[i]
        /\ results'[Len(results) + 1] = ok
    BY <1>1, <2>1, AppendProperties
  <2>3. Len(results) + 1 = n
    BY <2>2
  <2>. QED  BY <2>2, <2>3
<1>3. RunTypes'
  BY <1>1, <1>2 DEF RunnerInv, RunTypes
<1>4. exitCode' = -1 /\ raised' = "no" /\ BegunClean
  BY DEF RunnerInv, RunStands
<1>5. RunStands'
  BY <1>1, <1>2, <1>4 DEF RunStands, AtExample
<1>6. discover_examples' = discover_examples
  BY DEF discover_examples
<1>7. PassesAfterSync'
  <2>1. ASSUME NEW i \in 1 .. Len(results'), results'[i]
        PROVE  discover_examples[i] \in tested'
    <3>1. CASE i = n
      <4>1. ok
        BY <1>2, <2>1, <3>1, Zenon
      <4>. QED  BY <3>1, <4>1
    <3>2. CASE i # n
      <4>1. i \in 1 .. Len(results)
        <5>1. i \in 1 .. n /\ Len(results) = n - 1
          BY <1>2, <2>1
        <5>. QED  BY <3>2, <5>1
      <4>2. results[i]
        BY <1>2, <2>1, <4>1, Zenon
      <4>3. discover_examples[i] \in tested
        BY <4>1, <4>2, Zenon DEF RunnerInv, PassesAfterSync
      <4>. QED  BY <4>3
    <3>. QED  BY <3>1, <3>2
  <2>. QED  BY <1>1, <1>6, <2>1 DEF PassesAfterSync
<1>8. SeenClean' /\ BegunClean'
  <2>1. step \in {"next"} \cup AtExample
    BY DEF RunnerInv, RunTypes, RunStands
  <2>. QED  BY <1>1, <1>4, <2>1 DEF SeenClean, BegunClean
<1>9. RaisesOnlyOnRacingEdit' /\ ZeroMeansAllPassed' /\ ~(exitCode = 0)'
  BY <1>4 DEF RaisesOnlyOnRacingEdit, ZeroMeansAllPassed
<1>. QED  BY <1>3, <1>5, <1>7, <1>8, <1>9 DEF RunnerInv

(* The current example goes on.                                            *)
LEMMA GoStep ==
  ASSUME RunnerInv, NEW label \in AtExample, Go(label), step # "exited",
         current' \in Nat, current' <= Cardinality(present), Len(results) = current' - 1,
         tested' \in SUBSET present, tested \subseteq tested', present # {} /\ mode \in Suites,
         step # "start",
         label = "synced" => discover_examples[current'] \in tested',
         label \in {"checked", "copied"} /\ checked' = edits => faults[discover_examples[current']] = {},
         checked' \in {checked, edits}, UNCHANGED <<mode, present, listed, faults, exitCode, raised, edits>>
  PROVE  RunnerInv'
<1>1. step' = label /\ results' = results
  BY DEF Go
<1>2. RunTypes'
  BY <1>1 DEF RunnerInv, RunTypes
<1>3. exitCode' = -1 /\ raised' = "no" /\ BegunClean
  BY DEF RunnerInv, RunStands
<1>4. RunStands'
  BY <1>1, <1>3 DEF RunStands, AtExample
<1>5. discover_examples' = discover_examples /\ Example' = discover_examples[current']
  BY DEF discover_examples, Example
<1>6. PassesAfterSync'
  BY <1>1, <1>5 DEF RunnerInv, PassesAfterSync
<1>7. SeenClean' /\ BegunClean'
  <2>1. step \in {"next"} \cup AtExample
    BY DEF RunnerInv, RunTypes, RunStands
  <2>. QED  BY <1>1, <1>3, <1>5, <2>1 DEF SeenClean, BegunClean
<1>8. RaisesOnlyOnRacingEdit' /\ ZeroMeansAllPassed' /\ ~(exitCode = 0)'
  BY <1>3 DEF RaisesOnlyOnRacingEdit, ZeroMeansAllPassed
<1>. QED  BY <1>2, <1>4, <1>6, <1>7, <1>8 DEF RunnerInv

(* An exception nobody catches ends the script.                            *)
LEMMA RaiseStep ==
  ASSUME RunnerInv, NEW where \in Places, Raise(where), step \notin {"start", "exited"},
         where \in {"copy", "pin"} => checked < edits, where = "contract" => edits > 0,
         current' \in Nat, current' <= Cardinality(present), Len(results) \in {current', current' - 1},
         checked' \in {checked, edits}, where # "contract" => checked' = checked,
         UNCHANGED <<mode, present, listed, faults, results, tested, edits>>
  PROVE  RunnerInv'
<1>1. step' = "exited" /\ exitCode' = 99 /\ raised' = where /\ where # "no"
  BY DEF Raise, Places
<1>2. discover_examples' = discover_examples
  BY DEF discover_examples
<1>3. RunTypes'
  BY <1>1 DEF RunnerInv, RunTypes
<1>4. RunStands'
  <2>1. raised' \in {"no"} \cup Places /\ raised' # "no" /\ step' = "exited" /\ exitCode' = 99
    BY <1>1
  <2>2. Len(results') \in {current', current' - 1}
    OBVIOUS
  <2>3. step' \notin {"start", "next"} /\ step' \notin AtExample
    BY <2>1 DEF AtExample
  <2>4. (step' = "exited" <=> exitCode' # -1) /\ exitCode' \in {-1, 0, 1, 2, 99}
    BY <2>1
  <2>5. (raised' # "no" <=> exitCode' = 99)
    BY <2>1
  <2>. QED  BY <2>1, <2>2, <2>3, <2>4, <2>5 DEF RunStands
<1>5. SeenClean' /\ BegunClean' /\ PassesAfterSync'
  BY <1>1, <1>2 DEF RunnerInv, SeenClean, BegunClean, PassesAfterSync, AtExample
<1>6. RaisesOnlyOnRacingEdit' /\ ZeroMeansAllPassed' /\ ~(exitCode = 0)'
  BY <1>1 DEF RaisesOnlyOnRacingEdit, ZeroMeansAllPassed, Places
<1>. QED  BY <1>3, <1>4, <1>5, <1>6 DEF RunnerInv

LEMMA CurrentIs ==
  ASSUME RunnerInv, step \in AtExample
  PROVE  /\ current \in Nat /\ current <= Cardinality(present) /\ Len(results) = current - 1
         /\ present # {} /\ mode \in Suites
         /\ Example \in present /\ Example \in ToSet(Names) /\ step \notin {"start", "exited"}
<1>1. /\ current \in Nat /\ current <= Cardinality(present) /\ Len(results) = current - 1
      /\ present # {} /\ mode \in Suites /\ present \in SUBSET ToSet(Names)
      /\ Len(results) \in Nat /\ step \notin {"start", "exited"}
  BY DEF RunnerInv, RunTypes, RunStands, AtExample
<1>2. Cardinality(present) \in Nat
  BY <1>1, Discovered
<1>3. current \in 1 .. Cardinality(present)
  BY <1>1, <1>2
<1>4. Example \in present
  BY <1>1, <1>3, Discovered DEF Example
<1>. QED  BY <1>1, <1>4

LEMMA BeginStep == RunnerInv /\ BeginExample => RunnerInv'
<1>. SUFFICES ASSUME RunnerInv, BeginExample PROVE RunnerInv'
  OBVIOUS
<1>1. /\ step = "next" /\ current < Cardinality(present) /\ Len(results) = current
      /\ current' = current + 1 /\ checked' = edits
      /\ UNCHANGED <<mode, present, listed, faults, tested, edits>>
      /\ \/ Go("checked") /\ faults[discover_examples[current + 1]] = {} /\ UNCHANGED <<exitCode, raised>>
         \/ Result(FALSE) /\ UNCHANGED <<exitCode, raised>>
         \/ Raise("contract") /\ faults[discover_examples[current + 1]] # {} /\ UNCHANGED results
  BY DEF BeginExample, CheckContract
<1>2. /\ current \in Nat /\ present \in SUBSET ToSet(Names) /\ tested \in SUBSET present
      /\ present # {} /\ mode \in Suites
  BY <1>1 DEF RunnerInv, RunTypes, RunStands
<1>3. Cardinality(present) \in Nat
  BY <1>2, Discovered
<1> DEFINE n == current + 1
<1>4. n \in Nat /\ current' = n /\ n <= Cardinality(present) /\ Len(results) = n - 1
  BY <1>1, <1>2, <1>3
<1>5. tested' \in SUBSET present /\ tested \subseteq tested' /\ step # "exited" /\ checked' \in {checked, edits}
  BY <1>1, <1>2
<1> HIDE DEF n
<1>6. CASE Result(FALSE) /\ UNCHANGED <<exitCode, raised>>
  BY <1>1, <1>2, <1>4, <1>5, <1>6, ResultStep
<1>7. CASE Go("checked") /\ faults[discover_examples[current + 1]] = {} /\ UNCHANGED <<exitCode, raised>>
  <2>1. "checked" \in AtExample
    BY DEF AtExample
  <2>2. faults[discover_examples[n]] = {}
    BY <1>7 DEF n
  <2>. QED  BY <1>1, <1>2, <1>4, <1>5, <1>7, <2>1, <2>2, GoStep
<1>8. CASE Raise("contract") /\ faults[discover_examples[current + 1]] # {} /\ UNCHANGED results
  <2>1. current + 1 \in 1 .. Cardinality(present)
    BY <1>1, <1>2, <1>3
  <2>2. discover_examples[current + 1] \in present
    BY <1>2, <2>1, Discovered
  <2>3. edits # 0
    BY <1>1, <1>8, <2>2 DEF RunnerInv, BegunClean
  <2>4. edits > 0 /\ "contract" \in Places
    BY <2>3 DEF RunnerInv, RunTypes, Places
  <2>. QED  BY <1>1, <1>4, <1>5, <1>8, <2>4, RaiseStep
<1>. QED  BY <1>1, <1>6, <1>7, <1>8

LEMMA CopyStep == RunnerInv /\ CopyExample => RunnerInv'
<1>. SUFFICES ASSUME RunnerInv, CopyExample PROVE RunnerInv'
  OBVIOUS
<1>1. /\ step = "checked"
      /\ UNCHANGED <<mode, present, listed, faults, current, tested, edits, checked>>
      /\ \/ Go("copied") /\ UNCHANGED <<exitCode, raised>>
         \/ Raise("copy") /\ faults[Example] # {} /\ UNCHANGED results
  BY DEF CopyExample
<1>2. "copied" \in AtExample /\ step \in AtExample /\ "copy" \in Places
  BY <1>1 DEF AtExample, Places
<1>3. checked = edits => faults[discover_examples[current]] = {}
  BY <1>1 DEF RunnerInv, SeenClean, Example
<1>4. tested' \in SUBSET present /\ tested \subseteq tested' /\ checked \in 0 .. edits /\ edits \in Nat
  BY <1>1 DEF RunnerInv, RunTypes
<1>5. CASE Go("copied") /\ UNCHANGED <<exitCode, raised>>
  BY <1>1, <1>2, <1>3, <1>4, <1>5, CurrentIs, GoStep
<1>6. CASE Raise("copy") /\ faults[Example] # {} /\ UNCHANGED results
  <2>1. checked # edits
    BY <1>3, <1>6 DEF Example
  <2>2. checked < edits
    BY <1>4, <2>1
  <2>. QED  BY <1>1, <1>2, <1>6, <2>2, CurrentIs, RaiseStep
<1>. QED  BY <1>1, <1>5, <1>6

LEMMA PinStep == RunnerInv /\ Pin => RunnerInv'
<1>. SUFFICES ASSUME RunnerInv, Pin PROVE RunnerInv'
  OBVIOUS
<1>1. /\ step = "copied"
      /\ UNCHANGED <<mode, present, listed, faults, current, tested, edits, checked>>
      /\ \/ Result(FALSE) /\ UNCHANGED <<exitCode, raised>>
         \/ Go("resolved") /\ UNCHANGED <<exitCode, raised>>
         \/ Go("pinned") /\ UNCHANGED <<exitCode, raised>>
         \/ Raise("pin") /\ faults[Example] # {} /\ UNCHANGED results
  BY DEF Pin
<1>2. /\ "resolved" \in AtExample /\ "pinned" \in AtExample /\ step \in AtExample /\ "pin" \in Places
  BY <1>1 DEF AtExample, Places
<1>3. checked = edits => faults[Example] = {}
  BY <1>1 DEF RunnerInv, SeenClean
<1>4. tested' \in SUBSET present /\ tested \subseteq tested' /\ checked \in 0 .. edits /\ edits \in Nat
  BY <1>1 DEF RunnerInv, RunTypes
<1>5. CASE Result(FALSE) /\ UNCHANGED <<exitCode, raised>>
  BY <1>1, <1>2, <1>4, <1>5, CurrentIs, ResultStep
<1>6. CASE Go("resolved") /\ UNCHANGED <<exitCode, raised>>
  BY <1>1, <1>2, <1>4, <1>6, CurrentIs, GoStep
<1>7. CASE Go("pinned") /\ UNCHANGED <<exitCode, raised>>
  BY <1>1, <1>2, <1>4, <1>7, CurrentIs, GoStep
<1>8. CASE Raise("pin") /\ faults[Example] # {} /\ UNCHANGED results
  <2>1. checked < edits
    BY <1>3, <1>4, <1>8
  <2>. QED  BY <1>1, <1>2, <1>8, <2>1, CurrentIs, RaiseStep
<1>. QED  BY <1>1, <1>5, <1>6, <1>7, <1>8

LEMMA IndexStep == RunnerInv /\ MakeStagingIndexExplicit => RunnerInv'
<1>. SUFFICES ASSUME RunnerInv, MakeStagingIndexExplicit PROVE RunnerInv'
  OBVIOUS
<1>1. /\ step = "pinned" /\ (Result(FALSE) \/ Go("resolved"))
      /\ UNCHANGED <<mode, present, listed, faults, current, tested, exitCode, raised, edits, checked>>
  BY DEF MakeStagingIndexExplicit
<1>2. "resolved" \in AtExample /\ step \in AtExample
  BY <1>1 DEF AtExample
<1>3. tested' \in SUBSET present /\ tested \subseteq tested'
  BY <1>1 DEF RunnerInv, RunTypes
<1>4. CASE Result(FALSE)
  BY <1>1, <1>2, <1>3, <1>4, CurrentIs, ResultStep
<1>5. CASE Go("resolved")
  BY <1>1, <1>2, <1>3, <1>5, CurrentIs, GoStep
<1>. QED  BY <1>1, <1>4, <1>5

LEMMA SyncStep == RunnerInv /\ Sync => RunnerInv'
<1>. SUFFICES ASSUME RunnerInv, Sync PROVE RunnerInv'
  OBVIOUS
<1>1. /\ step = "resolved" /\ (Result(FALSE) \/ Go("synced")) /\ tested' = tested \cup {Example}
      /\ UNCHANGED <<mode, present, listed, faults, current, exitCode, raised, edits, checked>>
  BY DEF Sync
<1>2. "synced" \in AtExample /\ step \in AtExample
  BY <1>1 DEF AtExample
<1>3. Example \in present /\ tested \in SUBSET present
  BY <1>2, CurrentIs DEF RunnerInv, RunTypes
<1>4. tested' \in SUBSET present /\ tested \subseteq tested' /\ discover_examples[current] \in tested'
  BY <1>1, <1>3 DEF Example
<1>5. CASE Result(FALSE)
  BY <1>1, <1>2, <1>4, <1>5, CurrentIs, ResultStep
<1>6. CASE Go("synced")
  BY <1>1, <1>2, <1>4, <1>6, CurrentIs, GoStep
<1>. QED  BY <1>1, <1>5, <1>6

LEMMA PytestStep == RunnerInv /\ Pytest => RunnerInv'
<1>. SUFFICES ASSUME RunnerInv, Pytest PROVE RunnerInv'
  OBVIOUS
<1>1. PICK ok \in BOOLEAN : Result(ok)
  BY DEF Pytest
<1>2. /\ step = "synced"
      /\ UNCHANGED <<mode, present, listed, faults, current, tested, exitCode, raised, edits, checked>>
  BY DEF Pytest
<1>3. step \in AtExample
  BY <1>2 DEF AtExample
<1>4. tested' \in SUBSET present /\ tested \subseteq tested' /\ discover_examples[current] \in tested'
  BY <1>2 DEF RunnerInv, RunTypes, PassesAfterSync, Example
<1>. QED  BY <1>1, <1>2, <1>3, <1>4, CurrentIs, ResultStep

LEMMA ReportStep == RunnerInv /\ Report => RunnerInv'
<1>. SUFFICES ASSUME RunnerInv, Report PROVE RunnerInv'
  OBVIOUS
<1>1. /\ step = "next" /\ Len(results) = Cardinality(present) /\ step' = "exited" /\ exitCode' = Verdict
      /\ UNCHANGED <<mode, present, listed, faults, current, results, tested, raised, edits, checked>>
  BY DEF Report, Exit
<1>2. Verdict \in {0, 1} /\ (Verdict = 0 => \A i \in DOMAIN results : results[i])
  BY DEF Verdict
<1>3. discover_examples' = discover_examples
  BY <1>1 DEF discover_examples
<1>4. RunTypes'
  BY <1>1 DEF RunnerInv, RunTypes
<1>5. RunStands' /\ SeenClean' /\ BegunClean' /\ PassesAfterSync'
  BY <1>1, <1>2, <1>3 DEF RunnerInv, RunStands, SeenClean, BegunClean, PassesAfterSync, AtExample
<1>6. mode \in Suites /\ present # {}
  BY <1>1 DEF RunnerInv, RunStands
<1>7. RaisesOnlyOnRacingEdit' /\ ~(exitCode = 0 /\ mode = "repository")'
  BY <1>1, <1>2, <1>6 DEF RunnerInv, RaisesOnlyOnRacingEdit, Suites
<1>8. ZeroMeansAllPassed'
  <2>1. ASSUME Verdict = 0
        PROVE  results = [i \in 1 .. Cardinality(present) |-> TRUE] /\ tested = present
    <3>1. results \in Seq(BOOLEAN) /\ present \in SUBSET ToSet(Names) /\ tested \in SUBSET present
      BY DEF RunnerInv, RunTypes
    <3>2. results \in [1 .. Cardinality(present) -> BOOLEAN]
      BY <1>1, <3>1
    <3>3. \A i \in 1 .. Cardinality(present) : results[i] /\ results[i] \in BOOLEAN
      BY <1>2, <2>1, <3>2, Zenon
    <3>4. \A i \in 1 .. Cardinality(present) : results[i] = TRUE
      BY <3>3, Zenon
    <3>5. results = [i \in 1 .. Cardinality(present) |-> TRUE]
      BY <3>2, <3>4, Zenon
    <3>6. \A i \in 1 .. Cardinality(present) : discover_examples[i] \in tested
      BY <1>1, <3>3, Zenon DEF RunnerInv, PassesAfterSync
    <3>7. present \subseteq tested
      BY <3>1, <3>6, Discovered
    <3>. QED  BY <3>1, <3>5, <3>7
  <2>. QED  BY <1>1, <1>6, <2>1, Zenon DEF ZeroMeansAllPassed
<1>. QED  BY <1>4, <1>5, <1>7, <1>8 DEF RunnerInv

LEMMA OSStep == RunnerInv /\ OSFails => RunnerInv'
<1>. SUFFICES ASSUME RunnerInv, OSFails PROVE RunnerInv'
  OBVIOUS
<1>1. /\ Raise("os") /\ step \notin {"start", "exited"} /\ "os" \in Places
      /\ UNCHANGED <<mode, present, listed, faults, current, results, tested, edits, checked>>
  BY DEF OSFails, Places
<1>2. current \in Nat /\ current <= Cardinality(present) /\ Len(results) \in {current, current - 1}
  BY DEF RunnerInv, RunTypes, RunStands
<1>. QED  BY <1>1, <1>2, RaiseStep

LEMMA NextRunner == RunnerInv /\ [RunnerNext]_runnerVars => RunnerInv'
<1>. SUFFICES ASSUME RunnerInv, [RunnerNext]_runnerVars PROVE RunnerInv'
  OBVIOUS
<1>1. CASE UNCHANGED runnerVars
  <2>1. discover_examples' = discover_examples /\ Example' = Example
        /\ CheckRepositoryQuality' = CheckRepositoryQuality
    BY <1>1 DEF runnerVars, discover_examples, Example, CheckRepositoryQuality, Unpaired, NamesAt
  <2>. QED  BY <1>1, <2>1 DEF runnerVars, RunnerInv, RunTypes, RunStands, SeenClean, BegunClean, PassesAfterSync,
              RaisesOnlyOnRacingEdit, ZeroMeansAllPassed
<1>2. CASE RunnerStep
  BY <1>2, MainStep, BeginStep, CopyStep, PinStep, IndexStep, SyncStep, PytestStep, OSStep, ReportStep
     DEF RunnerStep
<1>. QED  BY <1>1, <1>2, EditStep DEF RunnerNext

(* A repository whose names the check accepts has them in pairs.           *)
LEMMA QualityPairs == CheckRepositoryQuality =>
  \A e, f \in present : Position[e] = Position[f] => AsyncName[e] = AsyncName[f]
<1>. SUFFICES ASSUME CheckRepositoryQuality, NEW e \in present, NEW f \in present, Position[e] = Position[f]
              PROVE  AsyncName[e] = AsyncName[f]
  OBVIOUS
<1>1. f \in NamesAt(e) /\ ~Unpaired(e)
  BY DEF CheckRepositoryQuality, NamesAt
<1>. QED  BY <1>1 DEF Unpaired

LEMMA RunnerFollows == RunnerInv => RunnerTypeOK /\ ExitCodeIsHonest
<1>. SUFFICES ASSUME RunnerInv PROVE RunnerTypeOK /\ ExitCodeIsHonest
  OBVIOUS
<1>1. PassMeansPaired
  BY QualityPairs DEF RunnerInv, PassMeansPaired
<1>2. RunnerTypeOK
  <2>1. present \in SUBSET ToSet(Names) /\ current \in Nat /\ current <= Cardinality(present)
    BY DEF RunnerInv, RunTypes
  <2>2. Cardinality(present) \in Nat
    BY <2>1, Discovered
  <2>. QED  BY <2>1, <2>2 DEF RunnerInv, RunStands, RunnerTypeOK
<1>. QED  BY <1>1, <1>2 DEF RunnerInv, ExitCodeIsHonest

-----------------------------------------------------------------------------
(* UvPin.  PinsAgree says nothing of a run that is half-way, so the        *)
(* invariant adds what the first write left there.                         *)
UvTypes ==
  /\ UvTypeOK /\ torn \in {"no", "killed", "unparsable"}
  /\ bumping \in [pc : {"idle", "writing", "half", "pinned"}, target : UvVersions \cup {NoPin},
                  selfUpdate : BOOLEAN]
  /\ bumping.pc # "idle" => bumping.target \in UvVersions

HalfWritten == bumping.pc = "half" => required = bumping.target

UvInv == UvTypes /\ HalfWritten /\ PinsAgree

LEMMA InitUv == UvInit => UvInv
<1>. SUFFICES ASSUME UvInit PROVE UvInv
  OBVIOUS
<1>1. bumping = [pc |-> "idle", target |-> NoPin, selfUpdate |-> FALSE] /\ torn = "no"
  BY DEF UvInit, NoBump
<1>2. UvTypes
  <2>1. UvTypeOK
    BY <1>1, UvAssumption DEF UvInit, UvTypeOK, Parsable
  <2>2. bumping.pc = "idle" /\ torn \in {"no", "killed", "unparsable"}
    BY <1>1
  <2>3. bumping \in [pc : {"idle", "writing", "half", "pinned"}, target : UvVersions \cup {NoPin},
                    selfUpdate : BOOLEAN]
    BY <1>1
  <2>. QED  BY <2>1, <2>2, <2>3 DEF UvTypes
<1>3. HalfWritten /\ PinsAgree
  BY <1>1, UvAssumption DEF UvInit, HalfWritten, PinsAgree
<1>. QED  BY <1>2, <1>3 DEF UvInv

LEMMA NextUv == UvInv /\ [UvNext]_uvVars => UvInv'
<1>. SUFFICES ASSUME UvInv, [UvNext]_uvVars PROVE UvInv'
  OBVIOUS
<1>. USE DEF UvInv, UvTypes, UvTypeOK, HalfWritten, PinsAgree
<1>1. ASSUME NEW v \in UvVersions, NEW selfUpdate \in BOOLEAN, StartBump(v, selfUpdate) PROVE UvInv'
  BY <1>1 DEF StartBump
<1>2. CASE set_pinned_version
  BY <1>2 DEF set_pinned_version, BumpTo
<1>3. CASE set_build_backend_version
  BY <1>3, UvAssumption DEF set_build_backend_version, BumpTo, AfterPins, Rewrites
<1>4. CASE SelfUpdate
  BY <1>4 DEF SelfUpdate, BumpTo
<1>5. CASE KillBump
  BY <1>5 DEF KillBump, BumpTo
<1>6. CASE UNCHANGED uvVars
  BY <1>6 DEF uvVars
<1>. QED  BY <1>1, <1>2, <1>3, <1>4, <1>5, <1>6 DEF UvNext

-----------------------------------------------------------------------------
(* MCLibrary: a behavior of the library is one of a single part, and the   *)
(* others stay where they were; so each invariant above is one of it.      *)
CutBounds ==
  /\ Len(main) <= MaxCommits /\ cuts \in 0 .. MaxCuts
  /\ open \subseteq {b.version : b \in branches}

LEMMA InitBounds == CutInit => CutBounds
  BY CutAssumption DEF CutInit, CutBounds

LEMMA BoundsStep == CutInv /\ CutBounds /\ [CutNext]_cutVars => CutBounds'
<1>. SUFFICES ASSUME CutInv, CutBounds, [CutNext]_cutVars PROVE CutBounds'
  OBVIOUS
<1>0. main \in Seq(CommitKinds) /\ Len(main) \in Nat /\ MaxCommits \in Nat /\ MaxCuts \in Nat
  BY CutAssumption DEF CutInv, CutTypes
<1>1. ASSUME NEW k \in CommitKinds, MergeCommit(k) PROVE CutBounds'
  <2>1. Len(main') = Len(main) + 1
    BY <1>0, <1>1, AppendProperties DEF MergeCommit
  <2>. QED  BY <1>0, <1>1, <2>1 DEF MergeCommit, CutBounds
<1>2. ASSUME NEW input, NEW seen, NEW newerLost, Prepare(input, seen, newerLost) PROVE CutBounds'
  BY <1>0, <1>2 DEF Prepare, CutBounds
<1>3. CASE ClosePRs \/ OpenPR \/ DispatchFails
  BY <1>3 DEF ClosePRs, OpenPR, DispatchFails, CutBounds
<1>4. CASE PushCut
  <2>1. /\ branches' = Without(dispatch.version)
                       \cup {[version |-> dispatch.version, cut |-> CutHead, judged |-> dispatch.judged]}
        /\ UNCHANGED <<main, open, cuts>>
    BY <1>4 DEF PushCut
  <2>2. \A b \in branches : \E c \in branches' : c.version = b.version
    <3> DEFINE new == [version |-> dispatch.version, cut |-> CutHead, judged |-> dispatch.judged]
    <3>. SUFFICES ASSUME NEW b \in branches PROVE \E c \in branches' : c.version = b.version
      OBVIOUS
    <3>1. CASE b.version = dispatch.version
      <4>1. new \in branches' /\ new.version = dispatch.version
        BY <2>1
      <4>. QED  BY <3>1, <4>1
    <3>2. CASE b.version # dispatch.version
      <4>1. b \in branches'
        BY <2>1, <3>2 DEF Without
      <4>. QED  BY <4>1
    <3>. QED  BY <3>1, <3>2
  <2>. QED  BY <2>1, <2>2 DEF CutBounds
<1>5. ASSUME NEW v, ClosePR(v) \/ MergePR(v) \/ CleanUp(v) PROVE CutBounds'
  <2>1. /\ UNCHANGED <<main, cuts>> /\ open' = open \ {v}
        /\ branches' = branches \/ branches' = Without(v)
    BY <1>5 DEF ClosePR, MergePR, CleanUp
  <2>2. \A b \in branches : b.version # v => b \in Without(v)
    BY DEF Without
  <2>3. \A b \in branches : b.version # v => b \in branches'
    BY <2>1, <2>2
  <2>. QED  BY <2>1, <2>3 DEF CutBounds
<1>6. ASSUME NEW m \in merging, TagRelease(m) PROVE CutBounds'
  BY <1>6 DEF TagRelease, CutBounds
<1>7. CASE UNCHANGED cutVars
  BY <1>7 DEF cutVars, CutBounds
<1>. QED  BY <1>1, <1>2, <1>3, <1>4, <1>5, <1>6, <1>7 DEF CutNext

LibraryInv ==
  /\ StreamsInv /\ ProvidersInv /\ CutInv /\ CutBounds
  /\ ReleaseInv /\ RunnerInv /\ UvInv

LEMMA LibraryStart == MCInit => LibraryInv
  BY InitStreams, InitProviders, InitCut, InitBounds, InitRelease, InitRunner, InitUv
     DEF MCInit, LibraryInv

LEMMA OneRuns ==
  ASSUME [MCNext]_<<part, streamVars, providersVars, cutVars, releaseVars, runnerVars, uvVars>>
  PROVE  /\ [StreamsNext]_streamVars /\ [ProvidersNext]_providersVars /\ [CutNext]_cutVars
         /\ [ReleaseNext]_releaseVars /\ [RunnerNext]_runnerVars /\ [UvNext]_uvVars
  BY DEF MCNext, Running

LEMMA LibraryStep ==
  LibraryInv /\ [MCNext]_<<part, streamVars, providersVars, cutVars, releaseVars, runnerVars, uvVars>>
    => LibraryInv'
<1>. SUFFICES ASSUME LibraryInv,
                     [MCNext]_<<part, streamVars, providersVars, cutVars, releaseVars, runnerVars, uvVars>>
              PROVE  LibraryInv'
  OBVIOUS
<1>1. StreamsInv' /\ ProvidersInv'
  BY OneRuns, NextStreams, NextProviders DEF LibraryInv
<1>2. CutInv' /\ CutBounds'
  BY OneRuns, NextCut, BoundsStep DEF LibraryInv
<1>3. ReleaseInv' /\ RunnerInv' /\ UvInv'
  BY OneRuns, NextRelease, NextRunner, NextUv DEF LibraryInv
<1>. QED  BY <1>1, <1>2, <1>3 DEF LibraryInv

LEMMA AlwaysLibraryInv == MCSpec => []LibraryInv
  BY LibraryStart, LibraryStep, PTL DEF MCSpec

(* Whatever provider a mediator resolves through, however collections were *)
(* combined, providers overridden and the adapter rebuilt between look-ups,*)
(* it gets the service it asks for or an error, and what a provider said it*)
(* has stands until somebody changes it (service.py, dependency_injector.py*)
(* and example 120).                                                       *)
THEOREM ProvidersKeepFaith == MCSpec => []ProvidersAreFaithful
<1>1. LibraryInv => ProvidersAreFaithful
  BY ProvidersFollow DEF LibraryInv
<1>. QED  BY <1>1, AlwaysLibraryInv, PTL

(* The exit code of run_examples.py is true of every example there is,     *)
(* whatever fails and whatever is edited while the suite runs, and without *)
(* an edit no example raises once its contract was checked; update_uv.py   *)
(* leaves a uv_build pin it can see apart from the other only by a run that*)
(* was killed, or gave up on its target, between the two writes.           *)
THEOREM ScriptsSayTrue == MCSpec => []ScriptsAreHonest
<1>1. LibraryInv => ScriptsAreHonest
  BY RunnerFollows DEF LibraryInv, UvInv, ScriptsAreHonest
<1>. QED  BY <1>1, AlwaysLibraryInv, PTL

(* The state of every part has its type, with the relations the types      *)
(* state: an open stream has a handler the provider knows, an index names  *)
(* providers of the container only, an open pull request has its branch.   *)
THEOREM LibraryIsTyped == MCSpec => []LibraryTypeOK
<1>1. StreamsInv => StreamsTypeOK
  BY StreamsAssumption DEF StreamsInv, StreamTypes, Generators, StreamsTypeOK
<1>2. CutInv /\ CutBounds => CutTypeOK
  BY DEF CutInv, CutTypes, CutBounds, Cuts, CutTypeOK
<1>3. ReleaseInv => ReleaseTypeOK
  BY DEF ReleaseInv, ReleaseTypes, Drafted, Statuses, ReleaseTypeOK
<1>4. UvInv => UvTypeOK
  BY DEF UvInv, UvTypes
<1>5. LibraryInv => LibraryTypeOK
  BY <1>1, <1>2, <1>3, <1>4, ProvidersFollow, RunnerFollows DEF LibraryInv, LibraryTypeOK
<1>. QED  BY <1>5, AlwaysLibraryInv, PTL
===============================================================================
