------------------------------ MODULE ReleaseCut ------------------------------
(***************************************************************************)
(* How a release comes to be: .github/workflows/prepare-release.yml        *)
(* assesses what main changed since the last tag                           *)
(* (scripts/release_impact.py), cuts a branch and opens a pull request;    *)
(* tag-release.yml tags what is merged and deletes the branch of what is   *)
(* closed.  Commits land, pull requests are closed and merged, and the     *)
(* jobs these events start run, between any two steps of a dispatch.       *)
(***************************************************************************)
EXTENDS Integers, Sequences, FiniteSets

CONSTANTS
  CommitKinds,  \* of "fix", "feat", "tooling", "marked", "drop", "restore", "resign"
  MaxCommits,   \* bound on the commits of main
  MaxCuts       \* bound on the dispatches

ASSUME CutAssumption == MaxCommits \in Nat /\ MaxCuts \in Nat

VARIABLES
  main,      \* the kinds of the commits on main since the first release
  tagged,    \* the version tags: [version |-> <<minor, patch>>, cut |-> commits it contains,
             \*   judged |-> what its assessment saw when it called it a patch]
  dispatch,  \* the run of prepare-release: [pc, head, version, judged]
  branches,  \* the cut branches: [version, cut, judged]
  open,      \* versions with an open release pull request
  closing,   \* versions whose pull request closed unmerged, cleanup to come
  merging,   \* merged cuts, tag to come: [version, cut, judged]
  cuts       \* dispatches so far

cutVars == <<main, tagged, dispatch, branches, open, closing, merging, cuts>>

FirstRelease == [version |-> <<1, 0>>, cut |-> 0, judged |-> {}]
NoDispatch == [pc |-> "idle", head |-> 0, version |-> <<0, 0>>, judged |-> {}]

CutInit ==
  /\ main = <<>> /\ tagged = {FirstRelease} /\ dispatch = NoDispatch
  /\ branches = {} /\ open = {} /\ closing = {} /\ merging = {} /\ cuts = 0

MergeCommit(k) ==
  /\ Len(main) < MaxCommits /\ main' = Append(main, k)
  /\ UNCHANGED <<tagged, dispatch, branches, open, closing, merging, cuts>>

-----------------------------------------------------------------------------
(* release_impact.py.                                                      *)
Higher(v, w) == v[1] > w[1] \/ (v[1] = w[1] /\ v[2] > w[2])
LastTag == CHOOSE t \in tagged : \A u \in tagged : ~Higher(u.version, t.version)

CommitsSince(base, head) == {main[i] : i \in base + 1 .. head}

(* "drop" takes a name out of __all__ and "restore" puts it back.          *)
Exported(n) ==
  LET moves == {i \in 1 .. n : main[i] \in {"drop", "restore"}}
  IN  moves = {} \/ \E i \in moves : main[i] = "restore" /\ \A j \in moves : j <= i
RemovedExport(base, head) == Exported(base) /\ ~Exported(head)

(* griffe: a signature that changed, whatever the commit calls itself.     *)
BreakingChange(base, head) == "resign" \in CommitsSince(base, head)

(* What an assessment that saw this much reads as a break.                 *)
Breaks(base, head, seen) ==
  \/ "marks" \in seen /\ "marked" \in CommitsSince(base, head)
  \/ "exports" \in seen /\ RemovedExport(base, head)
  \/ "signatures" \in seen /\ BreakingChange(base, head)

(* The log of the commits is read or the script ends (run_git), but nobody *)
(* asks whether griffe succeeded: one that failed printed no finding and   *)
(* reads as no break.  An __init__.py that git does not show is one        *)
(* without exports (file_at_rev): none can be removed when it is the older *)
(* of the two, all are when it is the newer.                               *)
Sights == {{"marks"} \cup more : more \in SUBSET {"exports", "signatures"}}

(* A "feat" to the tooling never reaches the package.                      *)
Assess(base, head, seen, newerLost) ==
  IF Breaks(base, head, seen) \/ newerLost \/ "feat" \in CommitsSince(base, head)
  THEN "minor" ELSE "patch"

-----------------------------------------------------------------------------
(* prepare-release.yml.  Everything up to the version is read from the     *)
(* clone the run starts with.  A version that has a tag is burned.         *)
Burned(v) == \E t \in tagged : t.version = v

NextVersion(base, bump) ==
  LET minor == IF bump = "minor" THEN base[1] + 1 ELSE base[1]
      first == IF bump = "minor" THEN 0 ELSE base[2] + 1
  IN  <<minor, CHOOSE p \in first .. first + MaxCuts :
                 ~Burned(<<minor, p>>) /\ \A q \in first .. p - 1 : Burned(<<minor, q>>)>>

(* A bump the maintainer asked for by hand overrides the assessment, which *)
(* then has judged nothing.                                                *)
Prepare(input, seen, newerLost) ==
  /\ dispatch.pc = "idle" /\ cuts < MaxCuts
  /\ newerLost => "exports" \notin seen
  /\ LET head == Len(main)
         bump == IF input = "auto" THEN Assess(LastTag.cut, head, seen, newerLost) ELSE input
     IN  dispatch' = [pc |-> "assessed", head |-> head, version |-> NextVersion(LastTag.version, bump),
                      judged |-> IF input = "auto" /\ bump = "patch" THEN seen ELSE {}]
  /\ cuts' = cuts + 1
  /\ UNCHANGED <<main, tagged, branches, open, closing, merging>>

At(pc, next) == dispatch.pc = pc /\ dispatch' = [dispatch EXCEPT !.pc = next]

Superseded_Lower == {v \in open : Higher(dispatch.version, v)}
Superseded == open \ {dispatch.version}
ClosePRs ==
  /\ At("assessed", "superseded")
  /\ open' = open \ Superseded /\ closing' = closing \cup Superseded
  /\ UNCHANGED <<main, tagged, branches, merging, cuts>>

Without(v) == {b \in branches : b.version # v}
CutHead_Latest == Len(main)
CutHead == dispatch.head
PushCut ==
  /\ At("superseded", "pushed")
  /\ branches' = Without(dispatch.version)
                   \cup {[version |-> dispatch.version, cut |-> CutHead, judged |-> dispatch.judged]}
  /\ UNCHANGED <<main, tagged, open, closing, merging, cuts>>

(* gh pr create needs the branch, and fails without it.                    *)
OpenPR ==
  /\ At("pushed", "idle")
  /\ open' = open \cup {b.version : b \in branches \ Without(dispatch.version)}
  /\ UNCHANGED <<main, tagged, branches, closing, merging, cuts>>

(* Any step of the run may fail.                                           *)
DispatchFails ==
  /\ dispatch.pc # "idle" /\ dispatch' = [dispatch EXCEPT !.pc = "idle"]
  /\ UNCHANGED <<main, tagged, branches, open, closing, merging, cuts>>

-----------------------------------------------------------------------------
(* The maintainer, and tag-release.yml.                                    *)
ClosePR(v) ==
  /\ v \in open /\ open' = open \ {v} /\ closing' = closing \cup {v}
  /\ UNCHANGED <<main, tagged, dispatch, branches, merging, cuts>>

(* The branch is deleted by its name: one pushed again in the meantime     *)
(* goes too, and its pull request with it.                                 *)
CleanUp(v) ==
  /\ v \in closing /\ closing' = closing \ {v}
  /\ branches' = Without(v) /\ open' = open \ {v}
  /\ UNCHANGED <<main, tagged, dispatch, merging, cuts>>

MergePR(v) ==
  /\ v \in open /\ open' = open \ {v}
  /\ merging' = merging \cup (branches \ Without(v)) /\ branches' = Without(v)
  /\ UNCHANGED <<main, tagged, dispatch, closing, cuts>>

(* The creation of a tag there already is fails.                           *)
TagRelease(m) ==
  /\ m \in merging /\ merging' = merging \ {m}
  /\ tagged' = IF Burned(m.version) THEN tagged ELSE tagged \cup {m}
  /\ UNCHANGED <<main, dispatch, branches, open, closing, cuts>>

CutNext ==
  \/ \E k \in CommitKinds : MergeCommit(k)
  \/ \E input \in {"auto", "patch", "minor"}, seen \in Sights, newerLost \in BOOLEAN :
       Prepare(input, seen, newerLost)
  \/ ClosePRs \/ PushCut \/ OpenPR \/ DispatchFails
  \/ \E v \in open : ClosePR(v) \/ MergePR(v)
  \/ \E v \in closing : CleanUp(v)
  \/ \E m \in merging : TagRelease(m)
CutSpec == CutInit /\ [][CutNext]_cutVars

-----------------------------------------------------------------------------
CutTypeOK ==
  /\ Len(main) \in 0 .. MaxCommits /\ cuts \in 0 .. MaxCuts
  /\ dispatch.pc \in {"idle", "assessed", "superseded", "pushed"} /\ dispatch.head \in 0 .. Len(main)
  /\ \A b \in branches \cup tagged \cup merging : b.cut \in 0 .. Len(main)
  /\ open \subseteq {b.version : b \in branches}

(* OPERATIONS.md 97-99: a patch breaks nothing.  Whatever landed while it  *)
(* was prepared, a version that was called a patch carries no commit       *)
(* marked as breaking since the tag below it, keeps that tag's exports if  *)
(* the assessment could read them, and its signatures if griffe ran.       *)
Predecessor(t) ==
  CHOOSE u \in tagged :
    Higher(t.version, u.version)
    /\ \A w \in tagged : Higher(t.version, w.version) => ~Higher(w.version, u.version)
PatchKeepsAPI ==
  \A t \in tagged :
    t.version[2] > 0 =>
      LET before == Predecessor(t).cut
      IN  /\ "marks" \in t.judged => "marked" \notin CommitsSince(before, t.cut)
          /\ "exports" \in t.judged => (Exported(before) => Exported(t.cut))
          /\ "signatures" \in t.judged => "resign" \notin CommitsSince(before, t.cut)

(* There is one release to review: a dispatch leaves no pull request but   *)
(* its own open, and one that fails half-way leaves no second one.         *)
OneReleaseToReview == \A v, w \in open : v = w

(* Both of these, whatever lands, closes and fails between the steps of a  *)
(* dispatch (prepare-release.yml).                                         *)
CutsAreSound == PatchKeepsAPI /\ OneReleaseToReview
===============================================================================
