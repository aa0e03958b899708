------------------------------- MODULE Release -------------------------------
(***************************************************************************)
(* The release workflow (.github/workflows/release.yml, tag-release.yml)   *)
(* and scripts/wait_for_index.py.  Each version tag has a run of its own;  *)
(* runs of different tags overlap.  A job may fail at any point, a publish *)
(* job after its upload too, and failed jobs may be run again.  What an    *)
(* index accepted it keeps, serves later, and never accepts again.         *)
(***************************************************************************)
EXTENDS Integers, FiniteSets, Sequences, SequencesExt

CONSTANTS
  MaxTag,    \* version tags 1 .. MaxTag, in version order
  Attempts,  \* wait_for_index.py --attempts
  MaxReruns  \* bound on the re-runs of failed jobs

ASSUME ReleaseAssumption == MaxTag \in Nat /\ Attempts \in Nat \ {0} /\ MaxReruns \in Nat

Versions == 1 .. MaxTag
Jobs == {"validate", "build", "install", "examplesWheel", "publishTest", "examplesTest",
         "publishPyPI", "examplesPyPI", "createRelease"}
Indexes == {"TestPyPI", "PyPI"}

(* The needs of each job.                                                  *)
Needs_NoExamples(j) ==
  CASE j = "validate"      -> {}
    [] j = "build"         -> {"validate"}
    [] j \in {"install", "examplesWheel"} -> {"build"}
    [] j = "publishTest"   -> {"validate", "build", "install", "examplesWheel"}
    [] j = "examplesTest"  -> {"publishTest"}
    [] j = "publishPyPI"   -> {"publishTest"}
    [] j = "examplesPyPI"  -> {"publishPyPI"}
    [] j = "createRelease" -> {"examplesPyPI"}
JobNeeds(j) ==
  CASE j = "validate"      -> {}
    [] j = "build"         -> {"validate"}
    [] j \in {"install", "examplesWheel"} -> {"build"}
    [] j = "publishTest"   -> {"validate", "build", "install", "examplesWheel"}
    [] j = "examplesTest"  -> {"publishTest"}
    [] j = "publishPyPI"   -> {"examplesTest"}
    [] j = "examplesPyPI"  -> {"publishPyPI"}
    [] j = "createRelease" -> {"examplesPyPI"}

PublishesTo(j) == IF j = "publishTest" THEN "TestPyPI" ELSE "PyPI"
TestsFrom(j) == IF j = "examplesTest" THEN "TestPyPI" ELSE "PyPI"
Checks == {"validate", "build", "install", "examplesWheel"}
Publishes == {"publishTest", "publishPyPI"}
IndexTests == {"examplesTest", "examplesPyPI"}

VARIABLES
  tags,      \* the tags pushed so far: 1 .. tags
  job,       \* tag -> job -> "waiting", "served" (its index wait ended), "noted"
             \* (its release notes are written), "passed" or "failed"
  uploads,   \* index -> version -> the uploads it accepted
  served,    \* the <<index, version>> that resolve
  attempt,   \* tag -> job -> failed probes of wait_for_index so far
  released,  \* the published GitHub Releases, in order of publication
  notes,     \* version -> the versions whose changes its release notes describe
  reruns

releaseVars == <<tags, job, uploads, served, attempt, released, notes, reruns>>

ReleaseInit ==
  /\ tags = 0 /\ reruns = 0 /\ served = {} /\ released = <<>>
  /\ job = [v \in Versions |-> [j \in Jobs |-> "waiting"]]
  /\ uploads = [index \in Indexes |-> [v \in Versions |-> 0]]
  /\ attempt = [v \in Versions |-> [j \in IndexTests |-> 0]]
  /\ notes = [v \in Versions |-> {}]

(* tag-release.yml, on a merge into stable.                                *)
PushTag ==
  /\ tags < MaxTag /\ tags' = tags + 1
  /\ UNCHANGED <<job, uploads, served, attempt, released, notes, reruns>>

Ready(v, j) == v <= tags /\ job[v][j] = "waiting" /\ \A n \in JobNeeds(j) : job[v][n] = "passed"
JobEnds(v, j, verdict) == job' = [job EXCEPT ![v][j] = verdict]

CheckJob(v, j) ==
  /\ j \in Checks /\ Ready(v, j)
  /\ \E verdict \in {"passed", "failed"} : JobEnds(v, j, verdict)
  /\ UNCHANGED <<tags, uploads, served, attempt, released, notes, reruns>>

(* The upload, refused when the index has the version already; the job can *)
(* still fail once the index has accepted it.                              *)
Accepts(index, v) == uploads[index][v] = 0

PublishJob(v, j) ==
  /\ j \in Publishes /\ Ready(v, j)
  /\ \/ JobEnds(v, j, "failed") /\ UNCHANGED uploads
     \/ /\ Accepts(PublishesTo(j), v)
        /\ uploads' = [uploads EXCEPT ![PublishesTo(j)][v] = @ + 1]
        /\ \E verdict \in {"passed", "failed"} : JobEnds(v, j, verdict)
  /\ UNCHANGED <<tags, served, attempt, released, notes, reruns>>

IndexServes(index, v) ==
  /\ uploads[index][v] > 0 /\ <<index, v>> \notin served
  /\ served' = served \cup {<<index, v>>}
  /\ UNCHANGED <<tags, job, uploads, attempt, released, notes, reruns>>

(* wait_for_index.py: a probe succeeds at once or is tried again, until    *)
(* the attempts are used up.                                               *)
GivesUp_OneMore(v, j) == attempt[v][j] = Attempts
GivesUp(v, j) == attempt[v][j] + 1 = Attempts

Probe_Unlimited(v, j) ==
  /\ j \in IndexTests /\ Ready(v, j) /\ <<TestsFrom(j), v>> \in served
  /\ JobEnds(v, j, "served")
  /\ UNCHANGED <<tags, uploads, served, attempt, released, notes, reruns>>
Probe(v, j) ==
  /\ j \in IndexTests /\ Ready(v, j)
  /\ IF <<TestsFrom(j), v>> \in served THEN JobEnds(v, j, "served") /\ attempt' = [attempt EXCEPT ![v][j] = 0]
     ELSE IF GivesUp(v, j) THEN JobEnds(v, j, "failed") /\ attempt' = [attempt EXCEPT ![v][j] = 0]
     ELSE attempt' = [attempt EXCEPT ![v][j] = @ + 1] /\ UNCHANGED job
  /\ UNCHANGED <<tags, uploads, served, released, notes, reruns>>

(* run_examples.py against the version the index serves.                   *)
RunSuite(v, j) ==
  /\ j \in IndexTests /\ job[v][j] = "served"
  /\ \E verdict \in {"passed", "failed"} : JobEnds(v, j, verdict)
  /\ UNCHANGED <<tags, uploads, served, attempt, released, notes, reruns>>

(* The notes start after the last published Release, whatever tags burned  *)
(* or overtook each other in between.                                      *)
NotesBase_LastTag(v) == v - 1
NotesBase(v) == IF released = <<>> THEN 0 ELSE released[Len(released)]

(* Release notes are generated in one step of the job, and the Release is  *)
(* created in a later one: the job of another tag may come in between.     *)
DraftNotes(v) ==
  /\ Ready(v, "createRelease")
  /\ \/ JobEnds(v, "createRelease", "failed") /\ UNCHANGED notes
     \/ /\ JobEnds(v, "createRelease", "noted")
        /\ notes' = [notes EXCEPT ![v] = NotesBase(v) + 1 .. v]
  /\ UNCHANGED <<tags, uploads, served, attempt, released, reruns>>

CreateRelease(v) ==
  /\ job[v]["createRelease"] = "noted"
  /\ \/ JobEnds(v, "createRelease", "failed") /\ UNCHANGED released
     \/ JobEnds(v, "createRelease", "passed") /\ released' = Append(released, v)
  /\ UNCHANGED <<tags, uploads, served, attempt, notes, reruns>>

(* Run the failed jobs of a tag again.                                     *)
Rerun(v) ==
  /\ reruns < MaxReruns /\ \E j \in Jobs : job[v][j] = "failed"
  /\ job' = [job EXCEPT ![v] = [j \in Jobs |-> IF @[j] = "failed" THEN "waiting" ELSE @[j]]]
  /\ reruns' = reruns + 1
  /\ UNCHANGED <<tags, uploads, served, attempt, released, notes>>

JobStep(v, j) == CheckJob(v, j) \/ PublishJob(v, j) \/ Probe(v, j) \/ RunSuite(v, j)

ReleaseNext ==
  \/ PushTag
  \/ \E v \in Versions :
       \/ \E j \in Jobs : JobStep(v, j)
       \/ \E index \in Indexes : IndexServes(index, v)
       \/ DraftNotes(v) \/ CreateRelease(v) \/ Rerun(v)

(* GitHub starts every job whose needs have passed.                        *)
RunStep(v) == DraftNotes(v) \/ CreateRelease(v) \/ \E j \in Jobs : JobStep(v, j)
ReleaseFairness == \A v \in Versions : WF_releaseVars(RunStep(v))
ReleaseSpec == ReleaseInit /\ [][ReleaseNext]_releaseVars /\ ReleaseFairness

-----------------------------------------------------------------------------
ReleaseTypeOK ==
  /\ tags \in 0 .. MaxTag /\ reruns \in 0 .. MaxReruns
  /\ job \in [Versions -> [Jobs -> {"waiting", "served", "noted", "passed", "failed"}]]
  /\ attempt \in [Versions -> [IndexTests -> 0 .. Attempts - 1]]
  /\ Cardinality(ToSet(released)) = Len(released)

(* PyPI, from which nothing can be taken back, has a version only after    *)
(* the examples passed against the wheel and against what TestPyPI served; *)
(* no index was made to take a version twice, however jobs were re-run.    *)
OnlyProvenVersionsOnPyPI ==
  /\ \A v \in Versions : uploads["PyPI"][v] > 0 =>
       /\ job[v]["examplesWheel"] = "passed" /\ job[v]["examplesTest"] = "passed"
       /\ <<"TestPyPI", v>> \in served
  /\ \A index \in Indexes, v \in Versions : uploads[index][v] <= 1

(* No change is missing from the release notes: what went into a released  *)
(* version is described by its Release or by one before it, tags that      *)
(* burned on the way included (the workflow's comment tells of v0.7.0).    *)
NotesCoverEverything ==
  \A v \in ToSet(released) : 1 .. v \subseteq UNION {notes[w] : w \in ToSet(released)}

(* Both of these, whatever fails and is run again (release.yml).           *)
ReleasesAreSound == OnlyProvenVersionsOnPyPI /\ NotesCoverEverything

(* The run of a pushed tag comes to rest: no job waits for ever, not even  *)
(* on an index that never serves the version (wait_for_index.py 48-67).    *)
JobsEnd ==
  \A v \in Versions : v <= tags ~> \A j \in Jobs : ~Ready(v, j) /\ job[v][j] \notin {"served", "noted"}
===============================================================================
