---------------------------- MODULE CircuitRoot ----------------------------
(***************************************************************************)
(* The directory SP1 reads its Groth16 circuit from, and the processes at  *)
(* work in it: installers (scripts/lib/sp1-circuit-install.ts), prove      *)
(* gates with the host each of them runs (scripts/lib/sp1-prove-gate.ts),  *)
(* and the user who owns it.  <root> holds <root>/<version>, the staging   *)
(* directories of installers, and whatever else is put there.              *)
(*                                                                         *)
(* A tree or an archive is known by what it is next to the record: exactly *)
(* its members, other bytes under the same names and lengths, or more than *)
(* them.  What the user does with the permissions of a locked root is left *)
(* out, as sp1-prove-gate.ts:30 leaves it out.                             *)
(***************************************************************************)
EXTENDS Naturals, FiniteSets

CONSTANTS Installer, Gate, MaxChanges

VARIABLES
    archive,        \* the local archive file
    tree,           \* <root>/<version>
    staging,        \* Installer -> its staging directory
    others,         \* <root> holds another entry
    writable,       \* <root>'s mode: its write bits
    installer,      \* Installer -> where it is
    gate,           \* Gate -> where it is
    host,           \* Gate -> the host it runs
    changes         \* what the user did so far

vars == <<archive, tree, staging, others, writable, installer, gate, host, changes>>

Absent == "absent"
Record == "record"
Archives == {Record, "altered", "hostile"}
Trees == {Record, "altered", "extra"}

Stages == {"start", "measured", "inspected", "staged", "extracted", "verified", "renaming"}
Steps == {"idle", "prepared", "moded", "locked", "identified", "running", "ended", "checked"}

NoHost == [read |-> {}, fetched |-> FALSE, foreign |-> FALSE, status |-> "none"]

-----------------------------------------------------------------------------
(* What is read of the root *)

\* The root holds the version's directory, and it is exactly the record.
verifyInstalledCircuit ==
    /\ ~ others /\ \A i \in Installer : staging[i] = Absent
    /\ tree = Record

\* Slip: a tree of the same bytes is the same installation.
AnyIdentity(g) == TRUE

\* Inodes, links and times are those taken under the lock: nothing changed in the
\* root or under it since.
installationIdentity(g) == gate[g].same

\* Whatever changes an entry, a mode or a time is another identity to every gate.
Touched(G) == [g \in Gate |-> [G[g] EXCEPT !.same = FALSE]]

-----------------------------------------------------------------------------
(* Installing *)

At(i, stage) == installer[i] = stage
Goes(i, stage) == installer' = [installer EXCEPT ![i] = stage]

\* A failure removes the staging directory, which a locked root does not allow.
Fails(i) ==
    /\ Goes(i, "refused")
    /\ IF staging[i] # Absent /\ writable
       THEN staging' = [staging EXCEPT ![i] = Absent] /\ gate' = Touched(gate)
       ELSE UNCHANGED <<staging, gate>>

RootUnchanged == UNCHANGED <<tree, others, writable, host, archive, changes>>

\* The first pass: nothing at the target, and the archive is the record's.
measure(i) ==
    /\ At(i, "start")
    /\ IF tree = Absent /\ archive = Record
       THEN Goes(i, "measured") /\ UNCHANGED <<staging, gate>>
       ELSE Fails(i)
    /\ RootUnchanged

\* The pass that parses refuses the archive's entries, or finds that it is no longer
\* the archive measured.
inspect(i) ==
    /\ At(i, "measured")
    /\ IF archive = Record
       THEN Goes(i, "inspected") /\ UNCHANGED <<staging, gate>>
       ELSE Fails(i)
    /\ RootUnchanged

mkdtemp(i) ==
    /\ At(i, "inspected")
    /\ IF writable
       THEN /\ Goes(i, "staged")
            /\ staging' = [staging EXCEPT ![i] = "empty"]
            /\ gate' = Touched(gate)
       ELSE Fails(i)
    /\ RootUnchanged

\* Each member is created exclusively: one that was planted under its name, or
\* entries the parser refuses, end it.
extract(i) ==
    /\ At(i, "staged")
    /\ IF archive # "hostile"
       THEN /\ Goes(i, "extracted")
            /\ staging' = [staging EXCEPT ![i] = IF @ = "empty" THEN archive ELSE @]
            /\ gate' = Touched(gate)
       ELSE Fails(i)
    /\ RootUnchanged

\* The bytes extracted were the bytes authenticated, and the tree on the disk is
\* exactly the record.
Staged(i) == staging[i] = Record

verifyTree(i) ==
    /\ At(i, "extracted")
    /\ IF Staged(i) THEN Goes(i, "verified") /\ UNCHANGED <<staging, gate>> ELSE Fails(i)
    /\ RootUnchanged

\* The target has not appeared.
lookAgain(i) ==
    /\ At(i, "verified")
    /\ IF tree = Absent THEN Goes(i, "renaming") /\ UNCHANGED <<staging, gate>> ELSE Fails(i)
    /\ RootUnchanged

\* rename(2) replaces no directory that holds anything.
rename(i) ==
    /\ At(i, "renaming")
    /\ IF tree = Absent /\ writable
       THEN /\ Goes(i, "installed")
            /\ tree' = staging[i]
            /\ staging' = [staging EXCEPT ![i] = Absent]
            /\ gate' = Touched(gate)
       ELSE Fails(i) /\ UNCHANGED tree
    /\ UNCHANGED <<others, writable, host, archive, changes>>

-----------------------------------------------------------------------------
(* Proving through the gate *)

AtGate(g, step) == gate[g].pc = step
GateGoes(g, step) == gate' = [gate EXCEPT ![g].pc = step]
Elsewhere == UNCHANGED <<archive, tree, staging, others, installer, changes>>

\* The record, the environment, the executable and the image are judged first; what
\* they are is not told apart.
prepare(g) ==
    /\ AtGate(g, "idle")
    /\ \/ verifyInstalledCircuit /\ GateGoes(g, "prepared")
       \/ GateGoes(g, "refused")
    /\ Elsewhere /\ UNCHANGED <<writable, host>>

\* The guard remembers the root's mode, and takes its write bits.
readMode(g) ==
    /\ AtGate(g, "prepared")
    /\ \/ gate' = [gate EXCEPT ![g].pc = "moded", ![g].mode = writable]
       \/ GateGoes(g, "refused")
    /\ Elsewhere /\ UNCHANGED <<writable, host>>

lock(g) ==
    /\ AtGate(g, "moded")
    /\ writable' = FALSE
    /\ gate' = [Touched(gate) EXCEPT ![g].pc = "locked"]
    /\ Elsewhere /\ UNCHANGED host

\* Verified again under the lock, the installation is identified.
identify(g) ==
    /\ AtGate(g, "locked")
    /\ gate' = IF verifyInstalledCircuit
               THEN [gate EXCEPT ![g].pc = "identified", ![g].same = TRUE]
               ELSE [gate EXCEPT ![g].pc = "checked"]
    /\ Elsewhere /\ UNCHANGED <<writable, host>>

\* The host may be one built for another circuit version.
spawn(g) ==
    /\ AtGate(g, "identified")
    /\ GateGoes(g, "running")
    /\ \E foreign \in BOOLEAN : host' = [host EXCEPT ![g] = [NoHost EXCEPT !.foreign = foreign]]
    /\ Elsewhere /\ UNCHANGED writable

\* SP1 reads its version's directory, now one file and now another; one that is
\* absent it downloads, where the root lets it.
hostReads(g) ==
    LET there == IF host[g].foreign THEN others ELSE tree # Absent IN
    /\ AtGate(g, "running") /\ host[g].status = "none"
    /\ IF there
       THEN /\ host' = [host EXCEPT ![g].read = @ \cup {IF host[g].foreign THEN "extra" ELSE tree}]
            /\ UNCHANGED <<tree, others, gate>>
       ELSE IF ~ writable
       THEN host' = [host EXCEPT ![g].status = "failed"] /\ UNCHANGED <<tree, others, gate>>
       ELSE /\ host' = [host EXCEPT ![g].fetched = TRUE]
            /\ IF host[g].foreign THEN others' = TRUE /\ UNCHANGED tree
               ELSE tree' = Record /\ UNCHANGED others
            /\ gate' = Touched(gate)
    /\ UNCHANGED <<archive, staging, writable, installer, changes>>

\* It proves from what it read, or fails.
hostEnds(g) ==
    /\ AtGate(g, "running")
    /\ \E status \in {"proved", "failed"} :
          /\ status = "proved" => host[g].read # {} /\ host[g].status # "failed"
          /\ host' = [host EXCEPT ![g].status = status]
    /\ GateGoes(g, "ended")
    /\ Elsewhere /\ UNCHANGED writable

\* The same bytes at the same inodes, whatever the host did.
verifyAfter(g) ==
    /\ AtGate(g, "ended")
    /\ gate' = [gate EXCEPT ![g].pc = "checked",
                            ![g].same = verifyInstalledCircuit /\ installationIdentity(g)]
    /\ Elsewhere /\ UNCHANGED <<writable, host>>

\* The mode remembered comes back; then the proof is looked at.
release(g) ==
    /\ AtGate(g, "checked")
    /\ writable' = gate[g].mode
    /\ gate' = [Touched(gate) EXCEPT
                  ![g].pc = IF gate[g].same /\ host[g].status = "proved" THEN "output" ELSE "refused"]
    /\ Elsewhere /\ UNCHANGED host

-----------------------------------------------------------------------------
(* The user, and kills *)

Change == changes < MaxChanges /\ changes' = changes + 1

\* The archive file is replaced, between two passes over it.
replaceArchive ==
    /\ Change /\ \E content \in Archives \ {archive} : archive' = content
    /\ UNCHANGED <<tree, staging, others, writable, installer, gate, host>>

\* A file appears in a staging directory, before the tree in it is verified.
plant(i) ==
    /\ Change /\ installer[i] \in {"staged", "extracted"}
    /\ staging' = [staging EXCEPT ![i] = "extra"]
    /\ gate' = Touched(gate)
    /\ UNCHANGED <<archive, tree, others, writable, installer, host>>

\* The version's directory is moved away, or one is put there.
moveTree ==
    /\ Change /\ writable
    /\ \E content \in (Trees \cup {Absent}) \ {tree} : tree' = content
    /\ gate' = Touched(gate)
    /\ UNCHANGED <<archive, staging, others, writable, installer, host>>

\* Another entry of the root comes or goes: that of another version, or a staging
\* directory that was left.
moveOthers ==
    /\ Change /\ writable
    /\ \/ others' = ~ others /\ UNCHANGED staging
       \/ \E i \in Installer :
             /\ installer[i] \in {"refused", "killed"} /\ staging[i] # Absent
             /\ staging' = [staging EXCEPT ![i] = Absent]
             /\ UNCHANGED others
    /\ gate' = Touched(gate)
    /\ UNCHANGED <<archive, tree, writable, installer, host>>

killInstaller(i) ==
    /\ Change /\ installer[i] \in Stages
    /\ Goes(i, "killed")
    /\ UNCHANGED <<archive, tree, staging, others, writable, gate, host>>

\* Nothing releases the lock then.
killGate(g) ==
    /\ Change /\ gate[g].pc \in Steps
    /\ GateGoes(g, "killed")
    /\ UNCHANGED <<archive, tree, staging, others, writable, installer, host>>

-----------------------------------------------------------------------------

Init ==
    /\ archive \in Archives
    /\ tree \in {Absent, Record, "altered"}
    /\ staging = [i \in Installer |-> Absent]
    /\ others = FALSE
    /\ writable = TRUE
    /\ installer = [i \in Installer |-> "start"]
    /\ gate = [g \in Gate |-> [pc |-> "idle", mode |-> TRUE, same |-> FALSE]]
    /\ host = [g \in Gate |-> NoHost]
    /\ changes = 0

Install(i) ==
    measure(i) \/ inspect(i) \/ mkdtemp(i) \/ extract(i) \/ verifyTree(i) \/ lookAgain(i) \/ rename(i)

Prove(g) ==
    \/ prepare(g) \/ readMode(g) \/ lock(g) \/ identify(g) \/ spawn(g)
    \/ hostReads(g) \/ hostEnds(g) \/ verifyAfter(g) \/ release(g)

Next ==
    \/ \E i \in Installer : Install(i) \/ plant(i) \/ killInstaller(i)
    \/ \E g \in Gate : Prove(g) \/ killGate(g)
    \/ replaceArchive \/ moveTree \/ moveOthers

Spec == Init /\ [][Next]_vars

-----------------------------------------------------------------------------
(* Properties *)

\* The gate's promise (sp1-prove-gate.ts:26): a proof that is put out was made by a
\* host that read the record's bytes and nothing else, and that downloaded nothing,
\* however many gates, installers and moves of the user ran beside it.
ProofIsOfTheRecord ==
    \A g \in Gate :
        gate[g].pc = "output" => host[g].read = {Record} /\ ~ host[g].fetched

\* "is locked read-only for the whole run" (sp1-prove-gate.ts:21): while a gate's
\* host runs nothing can be added to the root.
LockedForTheRun == \A g \in Gate : gate[g].pc = "running" => ~ writable
=============================================================================
