--------------------------- MODULE HostAdvisories ---------------------------
(***************************************************************************)
(* The RustSec advisory record of zkvm/host                                *)
(* (scripts/lib/sp1-host-advisories.ts): what is measured of the committed *)
(* lockfiles, the record derived from the measurement and the claims, the  *)
(* offline verdict, and the networked job that compares a fresh            *)
(* measurement with the record.  RustSec, the crates.io index and the      *)
(* repository change beside all of them, while a measurement runs too.     *)
(*                                                                         *)
(* Two lockfiles stand for the four: the designated host's and that of a   *)
(* harness that ships with nothing.  Crate p is locked in two versions and *)
(* has one advisory, which is a vulnerability or informational, and hits   *)
(* either version or both; q, which only another feature compiles, may be  *)
(* yanked.  One feature fact, one source fact and one assumption stand for *)
(* the catalog.                                                            *)
(***************************************************************************)
EXTENDS Naturals, FiniteSets

CONSTANT MaxChanges     \* changes of the world and of the repository

VARIABLES
    rustsec,        \* the advisory: its kind, and the versions it hits
    yanked,         \* the crates.io index marks q yanked
    patched,        \* a compatible release of p is patched
    head, disk,     \* zkvm/host as committed and in the working tree
    harness,        \* the packages the harness locks
    archives,       \* WalletWall has circuit archives
    tool,           \* the measurement script with its catalog
    superseded,     \* a designation succeeds the one assessed
    claims,         \* the reviewed claims
    observation, record,    \* as committed
    run,            \* the measurement that runs
    changes

world == <<rustsec, yanked, patched>>
repository == <<head, disk, harness, archives, tool, superseded, claims>>
vars == <<world, repository, observation, record, run, changes>>

None == "none"
Missing == [tree |-> None]

-----------------------------------------------------------------------------
(* What there is to measure *)

Designated == "designated"
Trees == {Designated, "bumped", "refeatured"}

Lock(tree) == IF tree = "bumped" THEN {"p2", "q1"} ELSE {"p1", "p2", "q1"}
Compiled(tree) == IF tree = "refeatured" THEN Lock(tree) ELSE Lock(tree) \ {"q1"}
Crate(package) == IF package = "q1" THEN "q" ELSE "p"

Evidence == {"assumption", "feature", "source"}

\* What `cargo tree` says of the features, and what the pinned crates' bytes hold
\* that the catalog's patterns look for.
FactsOf(tree, version) ==
    (IF tree = "refeatured" THEN {} ELSE {"feature"})
      \cup (IF tree = "bumped" \/ version = 2 THEN {} ELSE {"source"})

Assumptions == IF archives THEN {} ELSE {"assumption"}

NotIn == [kind |-> None, hits |-> {}]
Rustsec ==
    {NotIn} \cup [kind : {"vulnerability", "unmaintained"}, hits : SUBSET {"p1", "p2"} \ {{}}]

\* The measured findings of one lockfile: cargo-audit's, and the yanked releases.
measuredFindingsOf(lockfile, locked, obs) ==
    [lockfile : {lockfile}, kind : {obs.rustsec.kind}, id : {"A"},
     package : obs.rustsec.hits \cap locked, advisory : {obs.rustsec.hits}]
      \cup
    [lockfile : {lockfile}, kind : {"yanked"}, id : {None},
     package : IF obs.yanked THEN {"q1"} \cap locked ELSE {}, advisory : {{}}]

-----------------------------------------------------------------------------
(* The record *)

\* A claim is for the findings of one advisory in one lockfile, whatever the version.
Claims ==
    [lockfile : {"host"}, kind : {"vulnerability"}, id : {"A"}, crate : {"p"},
     reach : {"CONDITIONAL"}, requires : {{"feature", "assumption"}, {"source"}, {"assumption"}}]
      \cup
    [lockfile : {"host", "harness"}, kind : {"vulnerability"}, id : {"A"}, crate : {"p"},
     reach : {"REACHABLE"}, requires : {{}}]

claimFor(f) ==
    {c \in claims : c.lockfile = f.lockfile /\ c.kind = f.kind /\ c.id = f.id
                      /\ c.crate = Crate(f.package)}

\* Static checks: one claim for a finding, and a judgment rests on something measured.
catalogSound ==
    /\ \A c, d \in claims : c.lockfile = d.lockfile => c = d
    /\ \A c \in claims : c.reach = "CONDITIONAL" => c.requires \cap {"feature", "source"} # {}

compiledIn(f, obs) ==
    IF f.lockfile = "host" THEN f.package \in Compiled(obs.tree) ELSE TRUE

lockfileOnly(f, obs) == f.kind = "yanked" \/ obs.patched

\* What the claim and the evidence support.
reachability(f, obs, holding) ==
    IF claimFor(f) # {}
    THEN LET c == CHOOSE d \in claimFor(f) : TRUE IN
         IF c.requires \subseteq holding /\ compiledIn(f, obs) THEN c.reach ELSE "UNSUPPORTED"
    ELSE IF ~ compiledIn(f, obs) THEN "NOT_COMPILED"
    ELSE IF f.kind # "vulnerability" THEN "NO_KNOWN_DEFECT" ELSE "UNASSESSED"

bucketOf(f, obs, reach) ==
    IF reach \in {"UNASSESSED", "UNSUPPORTED"} THEN "UNASSESSED"
    ELSE IF f.lockfile # "host" THEN "NOT_REACHABLE"
    ELSE IF f.kind = "vulnerability" /\ reach = "REACHABLE" THEN "MUST_FIX"
    ELSE IF /\ compiledIn(f, obs)
            /\ \/ reach = "CONDITIONAL"
               \/ f.kind # "unmaintained" /\ lockfileOnly(f, obs)
    THEN "SHOULD_FIX" ELSE "NOT_REACHABLE"

\* The findings with their judgment.
deriveFindings(obs, holding) ==
    {[finding |-> f, compiled |-> compiledIn(f, obs), fix |-> lockfileOnly(f, obs),
      reach |-> reachability(f, obs, holding),
      bucket |-> bucketOf(f, obs, reachability(f, obs, holding))] :
        f \in measuredFindingsOf("host", Lock(obs.tree), obs)
                \cup measuredFindingsOf("harness", obs.harness, obs)}

\* Facts are the observation's, assumptions the repository's.
evidenceResults(obs) == FactsOf(obs.tree, obs.tool) \cup Assumptions

deriveRecord ==
    [tree |-> head, files |-> disk, observation |-> observation, archives |-> archives,
     evidence |-> evidenceResults(observation),
     findings |-> deriveFindings(observation, evidenceResults(observation))]

-----------------------------------------------------------------------------
(* The offline verdict *)

\* Slip: the observation is taken whatever script and catalog made it.
AnyTool == Lock(disk) = Lock(observation.tree)

\* The host lockfile is the one measured, by the script and the catalog as committed.
observationCurrent == Lock(disk) = Lock(observation.tree) /\ observation.tool = tool

subjectCurrent == ~ superseded /\ head = Designated /\ disk = Designated

harnessCurrent == harness = observation.harness

companionLocked ==
    \A r \in deriveRecord.findings :
        r.finding.lockfile = "harness" => r.finding.package \in harness

\* The subject or what was measured moved: reassess.
stale ==
    \/ ~ observationCurrent \/ ~ subjectCurrent
    \/ /\ Lock(disk) = Lock(observation.tree)
       /\ \/ deriveRecord.evidence # Evidence
          \/ \E r \in deriveRecord.findings : r.reach = "UNSUPPORTED"
          \/ ~ companionLocked
          \/ record.tree # None
               /\ <<record.tree, record.files, record.archives>> # <<head, disk, archives>>

claimsMeetFindings ==
    \A c \in claims :
        c.lockfile = "host" \/ harnessCurrent
          => \E r \in deriveRecord.findings : c \in claimFor(r.finding)

\* The record is not, finding by finding and byte for byte, what the evidence derives.
recordDrift == record # deriveRecord

\* The record or the catalog is wrong as it stands.
invalid ==
    \/ ~ catalogSound
    \/ /\ Lock(disk) = Lock(observation.tree)
       /\ \/ \E r \in deriveRecord.findings : r.reach = "UNASSESSED"
          \/ ~ claimsMeetFindings
          \/ \E r \in deriveRecord.findings : r.bucket = "MUST_FIX"
          \/ recordDrift

evaluateHostAdvisories ==
    IF observation = Missing THEN "RECORD_INVALID"
    ELSE IF stale THEN "REASSESSMENT_REQUIRED"
    ELSE IF invalid THEN "RECORD_INVALID"
    ELSE "ASSESSMENT_VALID"

-----------------------------------------------------------------------------
(* The networked job's comparison *)

identOf(f) == <<f.lockfile, f.kind, f.id, f.package>>

\* Slip: what RustSec says of a finding is not compared.
AdvisoryNotCompared(r, l) == r.compiled = l.compiled /\ r.fix = l.fix

\* The advisory's fields, what the tree says and whether a fix is at hand.
sameFacts(r, l) ==
    /\ r.finding.advisory = l.finding.advisory
    /\ r.compiled = l.compiled
    /\ r.fix = l.fix

\* Another finding of the same advisory in the same lockfile.
covers(f, g) ==
    f.id # None /\ f.id = g.id /\ f.lockfile = g.lockfile /\ Crate(f.package) = Crate(g.package)

\* What makes the job red: LOCKFILE_DRIFT, one of the assessed findings that changed its
\* facts, its kind or its version, a new finding, or evidence that is not what it was.
securityDrift(live) ==
    LET want == record.findings
        got == deriveFindings(live, {}) IN
    \/ Lock(record.observation.tree) # Lock(live.tree) \/ record.observation.harness # live.harness
    \/ \E r \in want, l \in got : identOf(r.finding) = identOf(l.finding) /\ ~ sameFacts(r, l)
    \/ \E r \in want, l \in got :
          /\ \A m \in got : identOf(m.finding) # identOf(r.finding)
          /\ covers(r.finding, l.finding)
    \/ \E l \in got :
          \A r \in want : identOf(r.finding) # identOf(l.finding) /\ ~ covers(r.finding, l.finding)
    \/ record.evidence \ {"assumption"} # FactsOf(live.tree, live.tool)

disappeared(live) ==
    \E r \in record.findings :
        \A l \in deriveFindings(live, {}) : identOf(l.finding) # identOf(r.finding)

rustsecDrift(live) ==
    IF securityDrift(live) THEN "SECURITY_DRIFT"
    ELSE IF disappeared(live) THEN "RECORD_CLEANUP_REQUIRED"
    ELSE "MATCH"

-----------------------------------------------------------------------------
(* Measuring *)

Idle == [step |-> "idle"]

\* The advisory database is a clean checkout, fetched before.
fetchDatabase ==
    /\ run = Idle
    /\ \E live \in BOOLEAN :
          /\ live => record.tree # None
          /\ run' = [step |-> "fetched", live |-> live, rustsec |-> rustsec]
    /\ UNCHANGED <<world, repository, observation, record, changes>>

\* HEAD's tree is exported, the working tree being HEAD's; then the index is read.
readIndex ==
    /\ run.step = "fetched"
    /\ run' = IF disk # head THEN Idle
              ELSE [step |-> "indexed", live |-> run.live, rustsec |-> run.rustsec, tree |-> head,
                    yanked |-> yanked]
    /\ UNCHANGED <<world, repository, observation, record, changes>>

\* The audits read the database that was fetched, the update probes the index again.
\* The script is digested last.
audit ==
    /\ run.step = "indexed"
    /\ run' = [step |-> "measured", live |-> run.live,
               obs |-> [tree |-> run.tree, harness |-> harness, tool |-> tool,
                        rustsec |-> run.rustsec, yanked |-> run.yanked, patched |-> patched]]
    /\ UNCHANGED <<world, repository, observation, record, changes>>

\* The workstation's measurement is committed; the job's is compared, and kept nowhere.
finish ==
    /\ run.step = "measured"
    /\ observation' = IF run.live THEN observation ELSE run.obs
    /\ run' = Idle
    /\ UNCHANGED <<world, repository, record, changes>>

\* An index or a tool that does not answer: nothing is measured, which is not clean.
failMeasurement ==
    /\ run # Idle /\ run' = Idle
    /\ UNCHANGED <<world, repository, observation, record, changes>>

\* npm run sp1:host-advisories writes the record even when it does not validate yet;
\* findings that the lockfile does not pin derive none.
generate ==
    /\ run = Idle
    /\ observation # Missing /\ Lock(disk) = Lock(observation.tree)
    /\ record' = deriveRecord
    /\ UNCHANGED <<world, repository, observation, run, changes>>

-----------------------------------------------------------------------------
(* Changes *)

Change == changes < MaxChanges /\ changes' = changes + 1

worldChanges ==
    /\ Change
    /\ \/ /\ \E entry \in Rustsec \ {rustsec} : rustsec' = entry
          /\ UNCHANGED <<yanked, patched>>
       \/ yanked' = ~ yanked /\ UNCHANGED <<rustsec, patched>>
       \/ patched' = ~ patched /\ UNCHANGED <<rustsec, yanked>>
    /\ UNCHANGED <<repository, observation, record, run>>

\* The job works in a checkout of its own: the repository it compares with stands still
\* while it runs.
RepositoryMoves == Change /\ (run # Idle => ~ run.live)

editHost ==
    /\ RepositoryMoves
    /\ \/ \E tree \in Trees \ {disk} : disk' = tree /\ UNCHANGED head
       \/ head' = disk /\ head # disk /\ UNCHANGED disk
    /\ UNCHANGED <<world, harness, archives, tool, superseded, claims, observation, record, run>>

editElsewhere ==
    /\ RepositoryMoves
    /\ \/ /\ \E locked \in {{"p1"}, {"q1"}} \ {harness} : harness' = locked
          /\ UNCHANGED <<archives, tool, superseded>>
       \/ archives' = ~ archives /\ UNCHANGED <<harness, tool, superseded>>
       \/ tool' = 3 - tool /\ UNCHANGED <<harness, archives, superseded>>
       \/ superseded' = TRUE /\ ~ superseded /\ UNCHANGED <<harness, archives, tool>>
    /\ UNCHANGED <<world, head, disk, claims, observation, record, run>>

editClaims ==
    /\ RepositoryMoves
    /\ \E c \in Claims : claims' = IF c \in claims THEN claims \ {c} ELSE claims \cup {c}
    /\ UNCHANGED <<world, head, disk, harness, archives, tool, superseded, observation, record, run>>

\* A hand edit leaves a finding out, or rewrites its judgment.
editRecord ==
    /\ RepositoryMoves /\ record.tree # None
    /\ \E r \in record.findings, reach \in {"NOT_COMPILED", "CONDITIONAL"} :
          record' = [record EXCEPT !.findings =
                       (@ \ {r}) \cup (IF reach = r.reach THEN {} ELSE {[r EXCEPT !.reach = reach]})]
    /\ UNCHANGED <<world, repository, observation, run>>

-----------------------------------------------------------------------------

Init ==
    /\ rustsec \in {NotIn, [kind |-> "vulnerability", hits |-> {"p1"}],
                    [kind |-> "unmaintained", hits |-> {"p1", "p2"}]}
    /\ yanked = FALSE /\ patched = FALSE
    /\ head = Designated /\ disk = Designated
    /\ harness = {"q1"} /\ archives = FALSE /\ tool = 1 /\ superseded = FALSE
    /\ claims = {c \in Claims : rustsec.kind = "vulnerability" /\ c.requires = {"source"}}
    /\ observation = Missing /\ record = Missing
    /\ run = Idle /\ changes = 0

Next ==
    \/ fetchDatabase \/ readIndex \/ audit \/ finish \/ failMeasurement \/ generate
    \/ worldChanges \/ editHost \/ editElsewhere \/ editClaims \/ editRecord

Spec == Init /\ [][Next]_vars

-----------------------------------------------------------------------------
(* Properties *)

\* "ASSESSMENT_VALID says the record is what today's designated subject and evidence
\* derive" (sp1-host-advisories.ts:20): of a valid record, every package the committed
\* host locks that the measured database reports is in it; what is compiled and
\* vulnerable rests on evidence that holds in the repository as it is now.
ValidRestsOnToday ==
    evaluateHostAdvisories = "ASSESSMENT_VALID" =>
        \A package \in observation.rustsec.hits \cap Lock(head) :
            /\ \E r \in record.findings :
                  /\ r.finding.package = package /\ r.finding.lockfile = "host"
                  /\ r.finding.kind = observation.rustsec.kind
                  /\ r.compiled = (package \in Compiled(head))
            /\ observation.rustsec.kind = "vulnerability" /\ package \in Compiled(head) =>
                  \E c \in claims : /\ c.lockfile = "host" /\ c.crate = Crate(package)
                                    /\ c.requires \subseteq FactsOf(head, tool) \cup Assumptions
                                    /\ c.requires \cap {"feature", "source"} # {}

Judged(findings) == {<<identOf(r.finding), r.reach, r.bucket>> : r \in findings}

\* The job that finds nothing to report leaves nothing to reassess: when a valid record
\* matches a fresh measurement, deriving the record from that measurement would judge
\* the same findings the same way.
MatchLeavesNothing ==
    (/\ run # Idle /\ run.step = "measured" /\ run.live
     /\ evaluateHostAdvisories = "ASSESSMENT_VALID"
     /\ rustsecDrift(run.obs) = "MATCH")
    => Judged(deriveFindings(run.obs, evidenceResults(run.obs))) = Judged(record.findings)
=============================================================================
