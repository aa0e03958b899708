--------------------------------- MODULE UvPin ---------------------------------
(***************************************************************************)
(* scripts/update_uv.py: pyproject.toml pins uv in [tool.uv] and, apart    *)
(* from it, uv_build in [build-system].  The script writes the file twice, *)
(* then updates the installed uv; it may be killed between any two of      *)
(* these, it raises before the second write when the target is no version, *)
(* and it skips both writes when the first pin is the target's.            *)
(***************************************************************************)
EXTENDS Integers

CONSTANTS
  UvVersions,  \* what the script is given for a version
  UvNumeric,   \* those of digits and dots only
  MinorOf,     \* the minor number, of those that have one
  NoPin        \* a pin pyproject.toml does not have

ASSUME UvAssumption ==
  /\ UvNumeric \subseteq UvVersions /\ NoPin \notin UvVersions
  /\ DOMAIN MinorOf \subseteq UvVersions /\ MinorOf \in [DOMAIN MinorOf -> Nat]

VARIABLES
  required,   \* required-version of [tool.uv]
  buildFrom,  \* the lower bound of uv_build in [build-system]
  buildTo,    \* its upper bound, a minor
  installed,  \* the uv on the machine
  bumping,    \* the run: [pc, target, selfUpdate]
  torn        \* the last run that wrote was "killed" between its writes or gave up
              \* on an "unparsable" target there; or "no"

uvVars == <<required, buildFrom, buildTo, installed, bumping, torn>>

Parsable == DOMAIN MinorOf
next_minor_ceiling(v) == MinorOf[v] + 1
NoBump == [pc |-> "idle", target |-> NoPin, selfUpdate |-> FALSE]

UvInit ==
  /\ required \in (UvNumeric \cap Parsable) \cup {NoPin} /\ installed \in Parsable
  /\ \/ buildFrom = NoPin /\ buildTo = 0
     \/ required # NoPin /\ buildFrom = required /\ buildTo = next_minor_ceiling(required)
  /\ bumping = NoBump /\ torn = "no"

BumpTo(pc) == bumping' = [bumping EXCEPT !.pc = pc]
AfterPins == IF bumping.selfUpdate THEN "pinned" ELSE "idle"

(* main: the current pin is read, then compared with the target.           *)
StartBump(v, selfUpdate) ==
  /\ bumping.pc = "idle"
  /\ bumping' = [pc |-> IF required # v THEN "writing" ELSE IF selfUpdate THEN "pinned" ELSE "idle",
                 target |-> v, selfUpdate |-> selfUpdate]
  /\ UNCHANGED <<required, buildFrom, buildTo, installed, torn>>

set_pinned_version ==
  /\ bumping.pc = "writing" /\ BumpTo("half")
  /\ required' = bumping.target
  /\ UNCHANGED <<buildFrom, buildTo, installed, torn>>

(* A requirement that is not there, or not of digits and dots, is not      *)
(* found and not rewritten; that it would have to be computed from a       *)
(* target without a minor number ends the run.                             *)
Rewrites_OtherMinor ==
  buildFrom \in UvNumeric /\ (bumping.target \in Parsable => buildTo # next_minor_ceiling(bumping.target))
Rewrites == buildFrom \in UvNumeric
set_build_backend_version ==
  /\ bumping.pc = "half"
  /\ IF Rewrites /\ bumping.target \notin Parsable
     THEN BumpTo("idle") /\ torn' = "unparsable" /\ UNCHANGED <<buildFrom, buildTo>>
     ELSE /\ BumpTo(AfterPins) /\ torn' = "no"
          /\ IF Rewrites
             THEN buildFrom' = bumping.target /\ buildTo' = next_minor_ceiling(bumping.target)
             ELSE UNCHANGED <<buildFrom, buildTo>>
  /\ UNCHANGED <<required, installed>>

(* uv self update, which may fail: the pins stay.                          *)
SelfUpdate ==
  /\ bumping.pc = "pinned" /\ BumpTo("idle")
  /\ installed' \in {installed} \cup ({bumping.target} \cap Parsable)
  /\ UNCHANGED <<required, buildFrom, buildTo, torn>>

KillBump ==
  /\ bumping.pc # "idle" /\ BumpTo("idle")
  /\ torn' = IF bumping.pc = "half" THEN "killed" ELSE torn
  /\ UNCHANGED <<required, buildFrom, buildTo, installed>>

UvNext ==
  \/ \E v \in UvVersions, selfUpdate \in BOOLEAN : StartBump(v, selfUpdate)
  \/ set_pinned_version \/ set_build_backend_version \/ SelfUpdate \/ KillBump
UvSpec == UvInit /\ [][UvNext]_uvVars

-----------------------------------------------------------------------------
UvTypeOK ==
  /\ required \in UvVersions \cup {NoPin} /\ buildFrom \in Parsable \cup {NoPin}
  /\ installed \in Parsable /\ bumping.pc \in {"idle", "writing", "half", "pinned"}

(* The two pins are of one release train (pyproject.toml is their single   *)
(* source of truth), except within a run and after one that ended between  *)
(* its writes, killed or for a target that is no version; a later bump to  *)
(* another version mends that.  A uv_build once pinned to a prerelease is  *)
(* out of the script's sight.                                              *)
PinsAgree ==
  buildFrom \in UvNumeric /\ torn = "no" /\ bumping.pc # "half" =>
    buildFrom = required /\ buildTo = next_minor_ceiling(required)
===============================================================================
