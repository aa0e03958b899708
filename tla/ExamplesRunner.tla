---------------------------- MODULE ExamplesRunner ----------------------------
(***************************************************************************)
(* scripts/run_examples.py: every example is checked against the release   *)
(* contract, then each in turn is copied, re-pinned to the release under   *)
(* test and run.  The checkout may be edited while the suite runs, every uv*)
(* command may fail, and what nobody catches ends the script.              *)
(***************************************************************************)
EXTENDS Selection, Integers, SequencesExt, FiniteSets

CONSTANTS
  Names,         \* example directories, in sorted order
  Position,      \* name -> its three digits
  AsyncName,     \* name -> name without a -sync suffix
  ContractOrder, \* what check_contract can meet, in the order of its checks
  Checkouts,     \* the faults of the examples, in each checkout to start from
  MaxEdits       \* bound on the edits of the checkout

(* What is wrong with an example: pyproject.toml is not there or no text    *)
(* ("unreadable") or no TOML ("invalid"), its dependencies or its dev group *)
(* are nothing to iterate over ("dependencies", "dev"), the source line of  *)
(* pymediate is not there exactly once ("source"); the others break a rule. *)
Raising == {"unreadable", "dependencies", "dev"}
ASSUME RunnerAssumption ==
  /\ Names \in Seq(ToSet(Names)) /\ IsInjective(Names)
  /\ Raising \cup {"invalid", "source"} \subseteq ToSet(ContractOrder) /\ MaxEdits \in Nat
  /\ Checkouts \subseteq [ToSet(Names) -> SUBSET ToSet(ContractOrder)]

VARIABLES
  mode,     \* "wheel", "version", "contract" or "repository"
  present,  \* the examples there are
  listed,   \* those the gallery, the workspace and the devcontainers all list
  faults,   \* example -> what is wrong with it
  step,     \* "start", "next", "checked", "copied", "pinned", "resolved", "synced" or "exited"
  current,  \* how many of the examples have been begun
  results,  \* their results so far
  tested,   \* the examples that were synced against the release
  exitCode, \* of the script; -1 while it runs, 99 for an uncaught exception
  raised,   \* what that came from: "contract", "quality", "copy", "pin", "os"; or "no"
  edits,    \* edits of the checkout so far
  checked   \* how many of them the current example's last contract check saw

runnerVars == <<mode, present, listed, faults, step, current, results, tested, exitCode, raised, edits, checked>>

RunnerInit ==
  /\ mode \in {"wheel", "version", "contract", "repository"}
  /\ present \in SUBSET ToSet(Names) /\ listed \in {present, present \ {Names[1]}}
  /\ faults \in Checkouts /\ step = "start" /\ current = 0 /\ results = <<>> /\ tested = {}
  /\ exitCode = -1 /\ raised = "no" /\ edits = 0 /\ checked = 0

discover_examples == Selected(Names, present)

(* The first thing wrong, in the order of the checks, is reported or raises.*)
CheckContract(e) ==
  IF faults[e] = {} THEN "none"
  ELSE LET first == CHOOSE i \in DOMAIN ContractOrder :
                      /\ ContractOrder[i] \in faults[e]
                      /\ \A j \in 1 .. i - 1 : ContractOrder[j] \notin faults[e]
       IN IF ContractOrder[first] \in Raising THEN "raises" ELSE "violation"

(* What the names, and the lists of them, have to satisfy.                 *)
NamesAt(e) == {f \in present : Position[f] = Position[e]}
Unpaired_TwoSuffice(e) == AsyncName[e] \notin present \/ Cardinality(NamesAt(e)) > 2
Unpaired(e) ==
  \/ AsyncName[e] \notin present
  \/ Cardinality(NamesAt(e)) > 2 \/ \E f \in NamesAt(e) : AsyncName[f] # AsyncName[e]
CheckRepositoryQuality == listed = present /\ ~\E e \in present : Unpaired(e)

Exit(code) == step' = "exited" /\ exitCode' = code /\ UNCHANGED raised
Raise(where) == step' = "exited" /\ exitCode' = 99 /\ raised' = where

(* main, up to the first example.  Every example is checked before the     *)
(* first violation is printed.                                             *)
Main ==
  /\ step = "start"
  /\ \/ mode = "wheel" /\ Exit(2)
     \/ present = {} /\ Exit(1)
     \/ (\E e \in present : CheckContract(e) = "raises") /\ Raise("contract")
     \/ /\ \E e \in present : CheckContract(e) = "violation"
        /\ ~\E e \in present : CheckContract(e) = "raises"
        /\ Exit(1)
     \/ /\ present # {} /\ \A e \in present : CheckContract(e) = "none"
        /\ CASE mode = "contract"   -> Exit(0)
             [] mode = "repository" ->
                  Raise("quality") \/ Exit(IF CheckRepositoryQuality THEN 0 ELSE 1)
             [] OTHER -> step' = "next" /\ UNCHANGED <<exitCode, raised>>
  /\ UNCHANGED <<mode, present, listed, faults, current, results, tested, edits, checked>>

(* Somebody edits an example of the checkout.                              *)
EditExample(e, fault) ==
  /\ edits < MaxEdits /\ e \in present /\ exitCode = -1
  /\ faults' = [faults EXCEPT ![e] = IF fault \in @ THEN @ \ {fault} ELSE @ \cup {fault}]
  /\ edits' = edits + 1
  /\ UNCHANGED <<mode, present, listed, step, current, results, tested, exitCode, raised, checked>>

-----------------------------------------------------------------------------
Example == discover_examples[current]
Result(ok) == results' = Append(results, ok) /\ step' = "next"
Go(label) == step' = label /\ UNCHANGED results

(* run_example checks the contract again ...                               *)
BeginExample_Trusting ==
  /\ step = "next" /\ current < Cardinality(present) /\ Len(results) = current
  /\ current' = current + 1 /\ checked' = edits /\ Go("checked")
  /\ UNCHANGED <<mode, present, listed, faults, tested, exitCode, raised, edits>>
BeginExample ==
  /\ step = "next" /\ current < Cardinality(present) /\ Len(results) = current
  /\ current' = current + 1 /\ checked' = edits
  /\ LET contract == CheckContract(discover_examples[current + 1]) IN
       IF contract = "raises" THEN Raise("contract") /\ UNCHANGED results
       ELSE /\ IF contract = "none" THEN Go("checked") ELSE Result(FALSE)
            /\ UNCHANGED <<exitCode, raised>>
  /\ UNCHANGED <<mode, present, listed, faults, tested, edits>>

(* ... and copies it; without exactly one source line to strip, or nothing *)
(* to read it from, that raises what nobody catches.                       *)
CopyExample ==
  /\ step = "checked"
  /\ IF faults[Example] \cap {"unreadable", "source"} = {}
     THEN Go("copied") /\ UNCHANGED <<exitCode, raised>>
     ELSE Raise("copy") /\ UNCHANGED results
  /\ UNCHANGED <<mode, present, listed, faults, current, tested, edits, checked>>

(* uv add, and in version mode the staging index made explicit.  Version   *)
(* mode reads the extras from the checkout once more, not from the copy.   *)
Pin ==
  /\ step = "copied"
  /\ IF mode = "version" /\ faults[Example] \cap {"unreadable", "invalid", "dependencies"} # {}
     THEN Raise("pin") /\ UNCHANGED results
     ELSE /\ Result(FALSE) \/ Go(IF mode = "wheel" THEN "resolved" ELSE "pinned")
          /\ UNCHANGED <<exitCode, raised>>
  /\ UNCHANGED <<mode, present, listed, faults, current, tested, edits, checked>>

MakeStagingIndexExplicit ==
  /\ step = "pinned" /\ (Result(FALSE) \/ Go("resolved"))
  /\ UNCHANGED <<mode, present, listed, faults, current, tested, exitCode, raised, edits, checked>>

Sync ==
  /\ step = "resolved" /\ (Result(FALSE) \/ Go("synced"))
  /\ tested' = tested \cup {Example}
  /\ UNCHANGED <<mode, present, listed, faults, current, exitCode, raised, edits, checked>>

Pytest ==
  /\ step = "synced" /\ (Result(FALSE) \/ Result(TRUE))
  /\ UNCHANGED <<mode, present, listed, faults, current, tested, exitCode, raised, edits, checked>>

(* Of a disk that is full or a uv that is not installed.                   *)
OSFails ==
  /\ step \notin {"start", "exited"} /\ Raise("os")
  /\ UNCHANGED <<mode, present, listed, faults, current, results, tested, edits, checked>>

Verdict_Last == IF Last(results) THEN 0 ELSE 1
Verdict == IF \A i \in DOMAIN results : results[i] THEN 0 ELSE 1
Report ==
  /\ step = "next" /\ Len(results) = Cardinality(present) /\ Exit(Verdict)
  /\ UNCHANGED <<mode, present, listed, faults, current, results, tested, edits, checked>>

RunnerStep ==
  \/ Main \/ BeginExample \/ CopyExample \/ Pin \/ MakeStagingIndexExplicit \/ Sync \/ Pytest
  \/ OSFails \/ Report
RunnerNext ==
  \/ RunnerStep
  \/ \E e \in ToSet(Names), fault \in ToSet(ContractOrder) : EditExample(e, fault)
RunnerSpec == RunnerInit /\ [][RunnerNext]_runnerVars

-----------------------------------------------------------------------------
RunnerTypeOK ==
  /\ present \subseteq ToSet(Names) /\ current \in 0 .. Cardinality(present)
  /\ Len(results) \in {current, current - 1} /\ exitCode \in {-1, 0, 1, 2, 99}
  /\ (step = "exited" <=> exitCode # -1) /\ (raised = "no" <=> exitCode # 99)

(* The contract guards what comes after it: unless somebody edits between  *)
(* the check of an example and its copy, or its pin, neither of these      *)
(* raises, and the check itself raises half-way through a suite only after *)
(* an edit, main having made it of every example first.                    *)
RaisesOnlyOnRacingEdit ==
  /\ raised \in {"copy", "pin"} => checked < edits
  /\ raised = "contract" /\ current > 0 => edits > 0

(* Success of a suite means every example there is was synced against the  *)
(* release and passed, however many edits and failures came in between.    *)
ZeroMeansAllPassed ==
  exitCode = 0 /\ mode \in {"wheel", "version"} =>
    /\ results = [i \in 1 .. Cardinality(present) |-> TRUE] /\ present # {}
    /\ tested = present

(* A repository that passes has at each position one example, or one and   *)
(* its synchronous twin.                                                   *)
PassMeansPaired ==
  exitCode = 0 /\ mode = "repository" =>
    \A e, f \in present : Position[e] = Position[f] => AsyncName[e] = AsyncName[f]

(* The exit code of run_examples.py means what it says: all of the above.  *)
ExitCodeIsHonest == RaisesOnlyOnRacingEdit /\ ZeroMeansAllPassed /\ PassMeansPaired
===============================================================================
