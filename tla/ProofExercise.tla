---------------------------- MODULE ProofExercise ----------------------------
(***************************************************************************)
(* The evidence of a proof exercise (scripts/lib/sp1-proof-exercise.ts): a *)
(* run of the prover is measured, its proof verified, and a record derived *)
(* from the two observations, each committed before the next is made; and  *)
(* the directory of records is judged, at every commit, by the code and    *)
(* the evidence of that commit.                                            *)
(*                                                                         *)
(* A run's observation is known by its number, which stands for its bytes  *)
(* and for the digest its files are named after.  What a commit holds      *)
(* beside these files is a version of each of the things a run is bound    *)
(* to.  Git is external: two branches, true merges and squashed ones.      *)
(***************************************************************************)
EXTENDS GitHistory

CONSTANTS
    Label,          \* the machine of each run, which its files are named after
    Flaw,           \* what may be wrong with a run: "egress", "gate" or its "proof"
    Lanes,          \* which of the things a run is bound to are ever changed
    MaxRuns

VARIABLES runs      \* the runs made: what was measured of each

vars == <<runs, history>>

None == "none"

FlawAssumption == Flaw \subseteq {"egress", "gate", "proof"}

-----------------------------------------------------------------------------
(* What is committed *)

\* The tools a run of either generation and a verification are made with, the
\* archive record, and the source tree of the proving host.
Bound == {"run", "attributed", "verification", "archive", "host"}
Tool(generation) == IF generation = "v1" THEN "run" ELSE "attributed"
Designated == 1
Accepted == {1, 2}                      \* of an archive; 0 is refused
VersionsOf(b) == IF b = "archive" THEN {0} \cup Accepted ELSE {1, 2}

\* The v1 slot's names carry no token, those of a v2 exercise its run's.
V1 == 0
Slots == {V1} \cup 1..MaxRuns
generationOf(slot) == IF slot = V1 THEN "v1" ELSE "v2"

\* A slot holds one record, and of observations one of each machine.
Name(file) ==
    <<file.kind, file.slot, IF file.kind = "record" THEN None ELSE Label[file.run]>>

Of(kind, tree) == {f \in tree.files : f.kind = kind}
At(slot, kind, tree) == {f \in Of(kind, tree) : f.slot = slot}

-----------------------------------------------------------------------------
(* History *)

\* The observations a tree's records were derived from, by name.
derivedObservationAt(tree) ==
    {f \in tree.files : \E r \in Of("record", tree) :
        Name(f) \in {Name(r.verification),
                    <<"run", r.verification.slotOfRun, Label[r.run]>>}}

\* On no edge was a record withdrawn or edited, nor an observation of one.
exerciseHistoryErrors(n) ==
    \E m \in ancestors[n] \cup {n} : \E p \in parentsOf(m) :
        ~ Of("record", Tree(p)) \cup derivedObservationAt(Tree(p)) \subseteq Tree(m).files

-----------------------------------------------------------------------------
(* What two observations derive *)

\* A probe got through, or some target was not probed before and after the run.
probeErrors(o) == o.flaw = "egress"

\* The run was not the gate's, or its times and memory are not those of one.
measurementErrors(o) == probeErrors(o) \/ o.flaw = "gate"

\* What both generations are held to: the designated host, the archive record as committed,
\* and nothing wrong in what was measured.
sharedErrors(o, tree) ==
    o.host # Designated \/ o.archive # tree.archive \/ measurementErrors(o)

runObservationErrors(o, tree) == o.tool # tree.run \/ sharedErrors(o, tree)

attributedRunObservationErrors(o, tree) == o.tool # tree.attributed \/ sharedErrors(o, tree)

\* The verification is by the tool as committed, of this run's file, and the designated
\* verifier took the proof and refused its tampered copy.
verificationObservationErrors(v, file, tree) ==
    \/ v.tool # tree.verification
    \/ <<v.run, v.slotOfRun>> # <<file.run, file.slot>>
    \/ ~ v.accepted

exerciseErrors(file, v, tree) ==
    \/ IF runs[file.run].generation = "v2"
       THEN attributedRunObservationErrors(runs[file.run], tree)
       ELSE runObservationErrors(runs[file.run], tree)
    \/ verificationObservationErrors(v, file, tree)

\* The text of a record: the two observations it names, and the archive record.
deriveExerciseRecord(file, v, tree) ==
    [kind |-> "record", slot |-> file.slot, run |-> file.run, verification |-> v,
     archive |-> tree.archive]

-----------------------------------------------------------------------------
(* The directory *)

MAX_RECORDS == 1

\* Slip: what the contract admits is one record, of whatever generation.
OneOfAll(generation, tree) == Of("record", tree)

\* The v1 slot has one name; v2 has one for every exercise.
Held(generation, tree) == {r \in Of("record", tree) : generationOf(r.slot) = generation}

\* Each record has one run and one verification, and there are not too many.
exerciseDirectoryErrors(tree) ==
    \/ \E r \in Of("record", tree) :
          \/ Cardinality(At(r.slot, "run", tree)) # 1
          \/ Cardinality(At(r.slot, "verification", tree)) # 1
    \/ \E generation \in {"v1", "v2"} : Cardinality(Held(generation, tree)) > MAX_RECORDS

\* The exercises with observations and no record.
Pending(tree) == {f.slot : f \in tree.files} \ {r.slot : r \in Of("record", tree)}

unrecordedExerciseErrors(tree) == Pending(tree) # {}

\* The files of a slot are of the generation the slot is for, and named after the run.
Misnamed(file) ==
    \/ runs[file.run].generation # generationOf(file.slot)
    \/ file.slot \notin {V1, file.run}

\* Slip: what the run's commit holds is not looked at.
SourceTaken(o, tree) == FALSE

\* The commit of the run holds what the run is bound to.
commitContentErrors(o, tree) ==
    LET source == Tree(o.commit) IN
    \/ source.host # Designated
    \/ source.archive # tree.archive
    \/ source[Tool(o.generation)] # tree[Tool(o.generation)]

\* One exercise on its own, at commit n.
judgeExercise(record, n) ==
    \E file \in At(record.slot, "run", Tree(n)), v \in At(record.slot, "verification", Tree(n)) :
        /\ ~ Misnamed(file)
        /\ ~ exerciseErrors(file, v, Tree(n))
        /\ record = deriveExerciseRecord(file, v, Tree(n))
        /\ inHistory(runs[file.run].commit, n)
        /\ ~ commitContentErrors(runs[file.run], Tree(n))

duplicateProofErrors(tree) ==
    \E r, s \in Of("record", tree) : r # s /\ runs[r.run].proof = runs[s.run].proof

\* Why the directory at commit n is refused; one good record never stands for a bad one.
\* The working tree is a clean checkout.
productionExerciseErrors(n) ==
    \/ exerciseHistoryErrors(n)
    \/ /\ Of("record", Tree(n)) # {}
       /\ \/ exerciseDirectoryErrors(Tree(n))
          \/ unrecordedExerciseErrors(Tree(n))
          \/ Tree(n).archive \notin Accepted
          \/ \E r \in Of("record", Tree(n)) : ~ judgeExercise(r, n)
          \/ duplicateProofErrors(Tree(n))

exerciseEvidenceState(n) ==
    IF productionExerciseErrors(n) THEN "REFUSED"
    ELSE IF Of("record", Tree(n)) = {} THEN "NO_RECORD" ELSE "ACCEPTED"

-----------------------------------------------------------------------------
(* Steps; each is made in a clean checkout of the branch and committed to it *)

\* Files replace what is there under their names.
With(tree, file) ==
    [tree EXCEPT !.files = {f \in @ : Name(f) # Name(file)} \cup {file}]

\* The commit is read when the run starts, the digest of the tool when it ends, hours
\* later; an edit made meanwhile is committed with the observation.  What was measured is
\* written down, flawed or not.  The prover may make a proof again.
measure(b, generation, flaw, proof, tool) ==
    LET n == Len(runs) + 1
        tree == Tree(head[b]) IN
    /\ n <= MaxRuns
    /\ tree.archive \in Accepted
    /\ proof \in 1..n
    /\ tool = tree[Tool(generation)] \/ Tool(generation) \in Lanes
    /\ runs' = Append(runs,
                 [generation |-> generation, commit |-> head[b], tool |-> tool,
                  host |-> tree.host, archive |-> tree.archive, flaw |-> flaw,
                  proof |-> proof])
    /\ commit(b, With([tree EXCEPT ![Tool(generation)] = tool],
                      [kind |-> "run", slot |-> IF generation = "v1" THEN V1 ELSE n,
                       run |-> n]))

\* The designated verifier's answer.
checksAccept(o) == o.flaw # "proof"

verificationObservationFor(file, tree) ==
    [kind |-> "verification", slot |-> file.slot, run |-> file.run,
     slotOfRun |-> file.slot, tool |-> tree.verification,
     accepted |-> checksAccept(runs[file.run])]

\* The verifier is asked about the proof of a committed run, and its answer written down
\* with the run's path and committed under the run's slot.
verify(b, file) ==
    /\ file \in Of("run", Tree(head[b]))
    /\ commit(b, With(Tree(head[b]), verificationObservationFor(file, Tree(head[b]))))
    /\ UNCHANGED runs

\* The record of the one exercise without one; neither the history nor the commit of the
\* run is looked at before it is written.
derivePendingExerciseRecord(b, file, v) ==
    LET tree == Tree(head[b]) IN
    /\ tree.archive \in Accepted
    /\ ~ exerciseDirectoryErrors(tree)
    /\ Pending(tree) = {file.slot}
    /\ At(file.slot, "run", tree) = {file} /\ At(file.slot, "verification", tree) = {v}
    /\ Cardinality(Held(generationOf(file.slot), tree)) < MAX_RECORDS
    /\ ~ Misnamed(file)
    /\ ~ exerciseErrors(file, v, tree)
    /\ commit(b, With(tree, deriveExerciseRecord(file, v, tree)))
    /\ UNCHANGED runs

\* A lane changes a tool, the archive record or the host, or puts it back.
edit(b, what, version) ==
    LET tree == Tree(head[b]) IN
    /\ what \in Lanes /\ version \in VersionsOf(what) \ {tree[what]}
    /\ commit(b, [tree EXCEPT ![what] = version])
    /\ UNCHANGED runs

\* A file is dropped, or an observation put under another slot's name.
remove(b, file) ==
    /\ file \in Tree(head[b]).files
    /\ commit(b, [Tree(head[b]) EXCEPT !.files = @ \ {file}])
    /\ UNCHANGED runs

rename(b, file, slot) ==
    LET tree == Tree(head[b]) IN
    /\ file \in tree.files /\ file.kind # "record" /\ slot # file.slot
    /\ commit(b, With([tree EXCEPT !.files = @ \ {file}], [file EXCEPT !.slot = slot]))
    /\ UNCHANGED runs

MergedFiles(base, ours, theirs) ==
    (ours \cap theirs) \cup (ours \ base) \cup (theirs \ base)

Merged(m, n) ==
    LET base == Tree(mergeBase(m, n)) IN
    [what \in Bound \cup {"files"} |->
        IF what = "files" THEN MergedFiles(base.files, Tree(m).files, Tree(n).files)
        ELSE ThreeWay(base[what], Tree(m)[what], Tree(n)[what])]

SameName(files) == \E f, g \in files : f # g /\ Name(f) = Name(g)

merge(into, from, squashed) ==
    /\ ~ SameName(Merged(head[into], head[from]).files)
    /\ mergeCommit(into, from, squashed, Merged(head[into], head[from]))
    /\ UNCHANGED runs

-----------------------------------------------------------------------------

Fresh == [what \in Bound \cup {"files"} |-> IF what = "files" THEN {} ELSE 1]

\* An exercise, committed on top of a commit file by file.
RunAt1(generation, n) ==
    [generation |-> generation, commit |-> 1, tool |-> 1, host |-> Designated,
     archive |-> 1, flaw |-> None, proof |-> n]

Steps(slot, n) ==
    LET run == [kind |-> "run", slot |-> slot, run |-> n]
        v == [kind |-> "verification", slot |-> slot, run |-> n, slotOfRun |-> slot,
              tool |-> 1, accepted |-> TRUE]
    IN <<run, v, deriveExerciseRecord(run, v, Fresh)>>

Grown(slot, n, last) ==
    [i \in 1..last |-> [Fresh EXCEPT !.files = {Steps(slot, n)[j] : j \in 1..i}]]

Recorded == Linear(<<Fresh>> \o Grown(V1, 1, 3))

\* A v2 exercise that was measured and verified on a branch from before the v1 record.
Verified ==
    Recorded \o [i \in 1..2 |-> [parents |-> <<IF i = 1 THEN 1 ELSE 5>>,
                                 tree |-> Grown(2, 2, 2)[i]]]

\* Nothing but the tools; a v1 record on main; or a v2 exercise on a branch beside it.
Init ==
    /\ made = 0
    /\ \/ /\ runs = <<>> /\ commits = Linear(<<Fresh>>)
          /\ head = [b \in Branch |-> 1]
       \/ /\ runs = <<RunAt1("v1", 1)>> /\ commits = Recorded
          /\ head = [b \in Branch |-> 4]
       \/ /\ runs = <<RunAt1("v1", 1), RunAt1("v2", 2)>> /\ commits = Verified
          /\ head = [b \in Branch |-> IF b = "main" THEN 4 ELSE 6]

Next ==
    \/ LET b == "pr" IN
       \/ \E generation \in {"v1", "v2"}, flaw \in {None} \cup Flaw, proof \in 1..MaxRuns,
             tool \in {1, 2} :
             measure(b, generation, flaw, proof, tool)
       \/ \E file \in Of("run", Tree(head[b])) : verify(b, file)
       \/ \E file \in Of("run", Tree(head[b])), v \in Of("verification", Tree(head[b])) :
             derivePendingExerciseRecord(b, file, v)
       \/ \E what \in Bound, version \in {0, 1, 2} : edit(b, what, version)
       \/ \E file \in Tree(head[b]).files :
             remove(b, file) \/ \E slot \in Slots : rename(b, file, slot)
    \/ merge("main", "pr", FALSE) \/ merge("main", "pr", TRUE) \/ merge("pr", "main", FALSE)
    \/ newBranch /\ UNCHANGED runs

Spec == Init /\ [][Next]_vars

-----------------------------------------------------------------------------
(* Properties *)

\* An accepted directory is of exercises that took place: each record's run was made, with
\* nothing wrong in it, by the very tool that the commit that accepts it holds, in a
\* checkout of a commit behind it with the same archive record and the designated host;
\* its proof was accepted; no two are of one proof; and no record any commit behind held
\* is missing or changed (sp1-proof-exercise.ts:1617-1628).
AcceptedTookPlace ==
    \A b \in Branch :
        LET tree == Tree(head[b]) IN
        exerciseEvidenceState(head[b]) = "ACCEPTED" =>
            /\ \A r \in Of("record", tree) :
                  LET o == runs[r.run] IN
                  /\ o.flaw = None /\ r.verification.accepted
                  /\ generationOf(r.slot) = o.generation
                  /\ inHistory(o.commit, head[b])
                  /\ Tree(o.commit)[Tool(o.generation)] = tree[Tool(o.generation)]
                  /\ Tree(o.commit).archive = tree.archive
                  /\ Tree(o.commit).host = Designated
            /\ \A r, s \in Of("record", tree) :
                  r # s => r.run # s.run /\ runs[r.run].proof # runs[s.run].proof
            /\ \A n \in ancestors[head[b]] : Of("record", Tree(n)) \subseteq tree.files

\* Two accepted directories that rest on the same tools and the same archive make one
\* accepted directory when their branches are merged, unless one slot too many is taken, a
\* proof is recorded twice, or one side had dropped, unrecorded, an observation that the
\* other derived a record from: neither side's records stand in the other's way
\* (sp1-proof-exercise.ts:14-20).
AcceptedMerge ==
    [][ \A b, c \in Branch :
          (/\ merge(b, c, FALSE)
           /\ \A d \in Branch : exerciseEvidenceState(head[d]) = "ACCEPTED"
           /\ \A d \in Branch :
                 derivedObservationAt(Tree(head[d])) \cap Tree(mergeBase(head[b], head[c])).files
                     \subseteq Tree(head[b]).files \cap Tree(head[c]).files
           /\ \A what \in Bound \ {"host"} : Tree(head[b])[what] = Tree(head[c])[what]
           /\ \A r, s \in Of("record", Merged(head[b], head[c])) : r.slot = V1 \/ s.slot \in {V1, r.slot}
           /\ ~ duplicateProofErrors(Merged(head[b], head[c])))
          => exerciseEvidenceState(head[b])' = "ACCEPTED" ]_vars
=============================================================================
