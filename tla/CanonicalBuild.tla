--------------------------- MODULE CanonicalBuild ---------------------------
(***************************************************************************)
(* Which ELF and vkey a set of zkvm sources is said to have.  A successor  *)
(* designation is derived from what its author's bundle reports            *)
(* (scripts/lib/sp1-designation.ts); the canonical build, on two runners   *)
(* with a vkey recomputed on a third (sp1-canonical/canonical-build.sh,    *)
(* scripts/lib/sp1-canonical-build.ts), has to reproduce it before its     *)
(* pull request passes the gate (sp1-canonical/ci-gate.mjs).               *)
(*                                                                         *)
(* The first designation is right, and the gate is required.  A machine    *)
(* that is out of order builds and recomputes anything, but says which     *)
(* machine it is; the driver and the workflow run as they are written.     *)
(* A set of sources is what the trees and the manifest name alike.         *)
(***************************************************************************)
EXTENDS Naturals, Sequences, SequencesExt, FiniteSets

CONSTANTS
    Subject, First,     \* zkvm sources, and those of the first designation
    LockOf,             \* the guest lockfile among them
    Machine, OutOfOrder,
    Runner,             \* the labels of the workflow's two runners
    MaxDesignations

VARIABLES
    main,               \* [subject, designations]: what is merged
    branch,             \* the same of a pull request, and whether an input changed
    builds,             \* Runner -> what the driver recorded there, if it ran
    recompute,          \* what the third runner found, if it ran
    jobs                \* the results of the workflow's jobs

vars == <<main, branch, builds, recompute, jobs>>

\* An ELF and a vkey are named for the sources they belong to.
Value == Subject \cup {"off"}
Output == [elf : Value, vkey : Value]
OutputOf(s) == [elf |-> s, vkey |-> s]

\* sp1-build builds the guest unlocked: a lockfile that moves is another program.
Built(m, s, locked) ==
    IF m \in OutOfOrder THEN Output
    ELSE {IF locked THEN OutputOf(s) ELSE [elf |-> "off", vkey |-> "off"]}

VkeyOf(m, elf) == IF m \in OutOfOrder THEN Value ELSE {elf}

Job == {"build", "recompute", "compare"}
Waiting == [j \in Job |-> "waiting"]

-----------------------------------------------------------------------------
(* Designations *)

latestDesignation(set) == Last(set)

\* One subject, one identity, and one vkey for an ELF.
designationSetErrors(set) ==
    \E i, j \in DOMAIN set :
        i < j /\ \/ set[i].subject = set[j].subject
                 \/ set[i].output.vkey = set[j].output.vkey
                 \/ set[i].output.elf = set[j].output.elf

\* Whether a bundle designates a successor: new sources, two hosts by their names
\* that report one output and the lockfile of these sources, an identity nobody
\* has.  What they built is not in the bundle.
designatesSuccessor(set, claimed, built, output) ==
    /\ \A d \in ToSet(set) : d.subject # claimed /\ d.output.vkey # output.vkey
    /\ LockOf[built] = LockOf[claimed]

\* A designation is generated, and the newest is of the sources at HEAD.
validateDesignationsInRepo(tree) ==
    /\ ~ designationSetErrors(tree.designations)
    /\ latestDesignation(tree.designations).subject = tree.subject

-----------------------------------------------------------------------------
(* The canonical build's verdict *)

Ran == {r \in Runner : builds[r] # {}}
AllBuilds == UNION {builds[r] : r \in Runner}

\* Slip: hosts are told apart by the labels they were given.
Labels == Ran

machineOf == {b.machine : b \in AllBuilds}

IdentityDrift(d) ==
    \/ \E b \in AllBuilds : b.output # d.output
    \/ \E r \in recompute : r.elf = d.output.elf /\ r.vkey # d.output.vkey

ProcedureDrift(d) ==
    \/ \E b \in AllBuilds : b.subject # d.subject \/ ~ b.locked
    \/ \E r \in recompute : \A b \in AllBuilds : b.output.elf # r.elf

Incomplete(d) == \A r \in recompute : r.elf # d.output.elf

canonicalBuildVerdict(d) ==
    CASE IdentityDrift(d) -> "PROGRAM_IDENTITY_DRIFT"
      [] ProcedureDrift(d) -> "PROCEDURE_DRIFT"
      [] Incomplete(d) -> "INCOMPLETE"
      [] Cardinality(machineOf) < 2 -> "INSUFFICIENT_HOSTS"
      [] OTHER -> "REPRODUCED"

\* What is missing for the gate to pass.
gateProblems ==
    {j \in Job :
        \/ branch.touched /\ jobs[j] # "success"
        \/ ~ branch.touched /\ jobs[j] \notin {"success", "skipped"}}

-----------------------------------------------------------------------------

Init ==
    /\ main = [subject |-> First,
               designations |-> <<[subject |-> First, output |-> OutputOf(First)]>>]
    /\ branch = [subject |-> main.subject, designations |-> main.designations,
                 touched |-> FALSE]
    /\ builds = [r \in Runner |-> {}]
    /\ recompute = {}
    /\ jobs = Waiting

\* Every commit of the pull request has a workflow run of its own.
Restart ==
    /\ builds' = [r \in Runner |-> {}]
    /\ recompute' = {}
    /\ jobs' = Waiting

editSources(s) ==
    /\ branch.subject # s
    /\ branch' = [branch EXCEPT !.subject = s, !.touched = TRUE]
    /\ Restart
    /\ UNCHANGED main

\* generate-sp1-designation.ts --successor: the builds are the author's.
generateSuccessor(claimed) ==
    /\ Len(branch.designations) < MaxDesignations
    /\ ~ designationSetErrors(branch.designations)
    /\ \E built \in Subject, m, tool \in Machine : \E output \in Built(m, built, TRUE) :
          /\ designatesSuccessor(branch.designations, claimed, built, output)
          /\ output.vkey \in VkeyOf(tool, output.elf)
          /\ branch' = [branch EXCEPT
                !.designations = Append(@, [subject |-> claimed, output |-> output]),
                !.touched = TRUE]
    /\ Restart
    /\ UNCHANGED main

\* Nothing to rebuild: the build job passes with nothing in it.
nothingToRebuild ==
    /\ ~ branch.touched /\ jobs = Waiting
    /\ jobs' = [build |-> "success", recompute |-> "skipped", compare |-> "skipped"]
    /\ UNCHANGED <<main, branch, builds, recompute>>

\* canonical-build.sh at the branch's HEAD.  A run that fails is run again alone.
canonicalBuild(r) ==
    /\ branch.touched /\ jobs["build"] \in {"waiting", "failure"} /\ builds[r] = {}
    /\ \E m \in Machine, locked \in BOOLEAN : \E output \in Built(m, branch.subject, locked) :
          builds' = [builds EXCEPT ![r] =
              {[machine |-> m, subject |-> branch.subject, locked |-> locked,
                output |-> output]}]
    /\ jobs' = [jobs EXCEPT !["build"] = IF \A q \in Runner : builds'[q] # {}
                                          THEN "success" ELSE "waiting"]
    /\ UNCHANGED <<main, branch, recompute>>

\* A container that fails, an output that is missing, a timeout: the jobs that
\* need it are skipped.
buildFails ==
    /\ branch.touched /\ jobs["build"] = "waiting"
    /\ jobs' = [build |-> "failure", recompute |-> "skipped", compare |-> "skipped"]
    /\ UNCHANGED <<main, branch, builds, recompute>>

\* One machine recomputes the vkey of every build's ELF.
recomputeVkeys ==
    /\ branch.touched /\ jobs["build"] = "success" /\ jobs["recompute"] # "success"
    /\ \/ \E m \in Machine :
             \E vkey \in [{b.output.elf : b \in AllBuilds} -> Value] :
                /\ \A elf \in DOMAIN vkey : vkey[elf] \in VkeyOf(m, elf)
                /\ recompute' = {[elf |-> elf, vkey |-> vkey[elf]] : elf \in DOMAIN vkey}
          /\ jobs' = [jobs EXCEPT !["recompute"] = "success", !["compare"] = "waiting"]
       \/ /\ jobs' = [jobs EXCEPT !["recompute"] = "failure", !["compare"] = "skipped"]
          /\ UNCHANGED recompute
    /\ UNCHANGED <<main, branch, builds>>

compare ==
    /\ branch.touched /\ jobs["recompute"] = "success" /\ jobs["compare"] = "waiting"
    /\ jobs' = [jobs EXCEPT !["compare"] =
          IF canonicalBuildVerdict(latestDesignation(branch.designations)) = "REPRODUCED"
          THEN "success" ELSE "failure"]
    /\ UNCHANGED <<main, branch, builds, recompute>>

\* The pull request is merged, or given up for another one.
merge ==
    /\ gateProblems = {}
    /\ validateDesignationsInRepo(branch)
    /\ main' = [subject |-> branch.subject, designations |-> branch.designations]
    /\ branch' = [branch EXCEPT !.touched = FALSE]
    /\ Restart

close ==
    /\ branch' = [subject |-> main.subject, designations |-> main.designations,
                  touched |-> FALSE]
    /\ Restart
    /\ UNCHANGED main

Next ==
    \/ \E s \in Subject : editSources(s) \/ generateSuccessor(s)
    \/ \E r \in Runner : canonicalBuild(r)
    \/ nothingToRebuild \/ buildFails \/ recomputeVkeys \/ compare \/ merge \/ close

Spec == Init /\ [][Next]_vars

-----------------------------------------------------------------------------

TypeOK ==
    /\ \A tree \in {main, branch} :
          /\ tree.subject \in Subject
          /\ tree.designations \in Seq([subject : Subject, output : Output])
    /\ jobs \in [Job -> {"waiting", "success", "failure", "skipped"}]

\* The newest designation on main is what its sources build, although its bundle
\* never said what the author's hosts built, and one machine of all that took
\* part may be out of order (sp1-canonical-build.ts:18-20, sp1-designation.ts:13).
LatestIsOfItsSubject ==
    LET d == latestDesignation(main.designations) IN
    /\ d.subject = main.subject
    /\ d.output = OutputOf(d.subject)
=============================================================================
