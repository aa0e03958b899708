------------------------------- MODULE MCLibrary -------------------------------
(***************************************************************************)
(* The parts around the core that do not meet: stream dispatch, the        *)
(* service providers, the cut of a release and its publication, the runner *)
(* of the examples and the uv pin.  A behavior is of one of them, chosen   *)
(* at the start.                                                           *)
(***************************************************************************)
EXTENDS Streams, Providers, ReleaseCut, Release, ExamplesRunner, UvPin, TLC

VARIABLE part  \* the part that runs

Running(name, action, others) == part = name /\ action /\ UNCHANGED <<part, others>>

\* The choices a part leaves to its initial state are made only in behaviors
\* of that part.
MCInit ==
  /\ part \in {"streams", "providers", "cut", "release", "runner", "uv"}
  /\ StreamsInit /\ ProvidersInit /\ CutInit /\ ReleaseInit /\ RunnerInit /\ UvInit
  /\ part # "streams" => handlerClass = 1 /\ instances = {1}
  /\ part # "providers" => provider = "services"
  /\ part # "runner" =>
       /\ mode = "contract" /\ present = {} /\ listed = {}
       /\ faults = [e \in ToSet(Names) |-> {}]
  /\ part # "uv" => required = NoPin /\ installed = "0.11.26"

MCNext ==
  \/ Running("streams", StreamsNext, <<providersVars, cutVars, releaseVars, runnerVars, uvVars>>)
  \/ Running("providers", ProvidersNext, <<streamVars, cutVars, releaseVars, runnerVars, uvVars>>)
  \/ Running("cut", CutNext, <<streamVars, providersVars, releaseVars, runnerVars, uvVars>>)
  \/ Running("release", ReleaseNext, <<streamVars, providersVars, cutVars, runnerVars, uvVars>>)
  \/ Running("runner", RunnerNext, <<streamVars, providersVars, cutVars, releaseVars, uvVars>>)
  \/ Running("uv", UvNext, <<streamVars, providersVars, cutVars, releaseVars, runnerVars>>)

\* Only Release claims progress.
MCSpec ==
  /\ MCInit /\ [][MCNext]_<<part, streamVars, providersVars, cutVars, releaseVars, runnerVars, uvVars>>
  /\ ReleaseFairness

\* The types of every module's state (one invariant for the run).
LibraryTypeOK ==
  /\ StreamsTypeOK /\ ProvidersTypeOK /\ CutTypeOK
  /\ ReleaseTypeOK /\ RunnerTypeOK /\ UvTypeOK

\* The scripts leave behind what they say: the pins of pyproject.toml agree
\* (update_uv.py) and the exit code of run_examples.py is true.
ScriptsAreHonest == PinsAgree /\ ExitCodeIsHonest

-----------------------------------------------------------------------------
\* Three providers, the last of which only composes; sources that make what
\* they declare, one that makes a subclass of it, one without an annotation
\* and a coroutine function.
MCContainer == <<"first", "second", "composer">>
MCSubclass == {<<t, t>> : t \in Types} \cup {<<"derived", "base">>}
MCTypeOf == [x \in Instances |-> IF x = "z" THEN "other" ELSE "base"]
MCDeclares == [s \in Sources |->
  CASE s \in {"makesBase", "annotatedBase"} -> "base" [] s = "makesDerived" -> "derived"
    [] s = "coroutine" -> "other" [] OTHER -> Unknown]
MCMakes == [s \in Sources |->
  CASE s \in {"makesDerived", "annotatedBase"} -> "derived" [] s = "coroutine" -> Awaitable
    [] OTHER -> "base"]
MCOwnSource == [p \in ToSet(MCContainer) |-> IF p = "second" THEN "makesDerived" ELSE "makesBase"]
MCStandIns == [p \in ToSet(MCContainer) |->
  IF p = "composer" THEN {"makesBase", "makesDerived"} ELSE Sources]

\* An example, its twin, and one that stands at their position.
MCNames == <<"010-basic", "010-basic-sync", "010-events">>
MCPosition == [n \in ToSet(Names) |-> 10]
MCAsyncName == [n \in ToSet(Names) |-> IF n = "010-basic-sync" THEN "010-basic" ELSE n]
MCContractOrder ==
  <<"files", "unreadable", "invalid", "dependencies", "requirement", "dev", "source">>
\* One example starts with one fault, or a second one breaks a rule as well.
MCCheckouts ==
  {[e \in ToSet(Names) |-> IF e = broken THEN found ELSE {}] :
     broken \in ToSet(Names), found \in {{}} \cup {{f} : f \in ToSet(ContractOrder)}}
  \cup {[e \in ToSet(Names) |-> IF e = "010-basic" THEN {"requirement"} ELSE {f}] : f \in Raising}

\* Three releases of two minors, a prerelease and what is no version.
MCMinorOf == [v \in UvVersions \ {"latest"} |-> IF v \in {"0.11.26", "0.11.30"} THEN 11 ELSE 12]
===============================================================================
