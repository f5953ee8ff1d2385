-------------------------- MODULE ArchiveAcquisition --------------------------
(***************************************************************************)
(* How WalletWall comes to an archive of the proving circuit               *)
(* (scripts/lib/sp1-circuit-acquisition.ts): the upstream archive is       *)
(* acquired and measured on two hosts, copies of it are put at mirrors and *)
(* read back, one record is derived from what was observed, and the status *)
(* of proving follows from what is committed                               *)
(* (sp1-proving-availability.ts, sp1-circuit-tooling.ts).                  *)
(*                                                                         *)
(* Upstream may serve another archive, the registry may move its tag, a    *)
(* download may end early or come between two passes, and people copy,     *)
(* remove and edit what is in the working tree.  An archive stands for its *)
(* bytes, its members and its census; files of one kind are told apart by  *)
(* what they hold.  An exercise is only known by the record it proved      *)
(* from: the rest of it is ProofExercise's.                                *)
(***************************************************************************)
EXTENDS Integers, FiniteSets

CONSTANTS
    Location,       \* how the places of mirrors are spelled
    Objects,        \* the objects of the mirror's providers
    Identity,       \* the object that a location names, None if it is none of a mirror's
    Start,          \* from where the work is followed: some of Stages
    MaxSteps,       \* of the world and the people
    MaxMade         \* observations, besides those there are to start with

VARIABLES
    upstream,       \* the archive that upstream serves
    tag,            \* the image index that the tag of the registry resolves to
    stored,         \* the archive in each object
    copy,           \* on each host, the download with the digests taken of it
    tree,           \* the working tree
    head,           \* what is committed
    published,      \* the exercises that were ever committed
    made,           \* the observations that were made, as they were made
    steps

None == "none"

world == <<upstream, tag, stored, copy>>
vars == <<upstream, tag, stored, copy, tree, head, published, made, steps>>

ACQUISITION_HOSTS == {"developer-workstation", "github-hosted-runner"}
MIN_MIRRORS == 2

\* The one in the committed census, another that is as well formed, and a download that
\* ended early.
Censused == "censused"
Archive == {Censused, "another"}
Download == Archive \cup {"part"}

\* Whether the inspector takes it.
inspects(a) == a \in Archive

Index == {"x", "y"}
Version == {1, 2}

-----------------------------------------------------------------------------
(* The working tree *)

\* obs are the acquisition observations by the host their file is of, each in a set that is
\* empty while there is none; record and availability likewise.
Empty ==
    [obs |-> [h \in ACQUISITION_HOSTS |-> {}], mirrors |-> {}, record |-> {},
     availability |-> {}, exercises |-> {}, measures |-> 1, rereads |-> 1, designation |-> 1,
     local |-> FALSE]

\* A record is the one file that is named after the circuit; evidence counts as committed.
uncommittedEvidence(t) ==
    t.record # head.record \/ t.obs # head.obs \/ t.mirrors # head.mirrors

observations(t) == UNION {t.obs[h] : h \in ACQUISITION_HOSTS}

-----------------------------------------------------------------------------
(* What two hosts observed, and the mirrors *)

gnarkErrors(o) == o.crossCheck \notin {None, o.index}

\* The identity lines carry the marker of the host that the observation says it is of.
lacksMarker(o) == o.machine # o.host

acquisitionObservationErrors(o, t) ==
    \/ o.script # t.measures \/ o.designation # t.designation
    \/ o.archive # Censused \/ o.census # Censused \/ o.digests # o.archive
    \/ ~ o.inspected
    \/ gnarkErrors(o) \/ lacksMarker(o)

\* Slip: mirrors are distinct when their locations are.
AsSpelled(m) == m.location

\* The object a mirror's location names.
mirrorIdentity(m) == Identity[m.location]

\* It was read from the object its location names, and held the archive.
mirrorObservationErrors(m, t) ==
    \/ m.script # t.rereads
    \/ Identity[m.location] = None
    \/ m.object # Identity[m.location]
    \/ m.archive # Censused \/ m.expected # Censused

hostsAgree(o, p) == o.index = p.index

\* Nothing that two machines cannot have in common.
independent(o, p) == o.host # p.host /\ o.at # p.at /\ o.machine # p.machine

acquisitionErrors(t) ==
    \/ \E h \in ACQUISITION_HOSTS : t.obs[h] = {}
    \/ \E o \in observations(t) : acquisitionObservationErrors(o, t)
    \/ {o.host : o \in observations(t)} # ACQUISITION_HOSTS
    \/ \E g, h \in ACQUISITION_HOSTS : g # h /\
          \E o \in t.obs[g], p \in t.obs[h] : ~ independent(o, p) \/ ~ hostsAgree(o, p)
    \/ Cardinality(t.mirrors) < MIN_MIRRORS
    \/ \E m \in t.mirrors : mirrorObservationErrors(m, t)
    \/ \E m, n \in t.mirrors : m # n /\ mirrorIdentity(m) = mirrorIdentity(n)

deriveArchiveRecord(t) ==
    LET obs == observations(t)
        first == CHOOSE o \in obs : o.host = "developer-workstation"
    IN [designation |-> t.designation, archive |-> first.archive,
        acquisitions |-> {[host |-> o.host, at |-> o.at, archive |-> o.archive] : o \in obs},
        index |-> first.index,
        mirrors |-> {[location |-> m.location, archive |-> m.archive] : m \in t.mirrors}]

\* The validator of a record, whoever wrote it.
archiveRecordErrors(r, t) ==
    \/ r.designation # t.designation \/ ~ inspects(r.archive)
    \/ Cardinality({a.host : a \in r.acquisitions}) < 2
    \/ \E a, b \in r.acquisitions : a # b /\ a.host = b.host
    \/ \E a \in r.acquisitions : a.archive # r.archive
    \/ Cardinality({m.location : m \in r.mirrors}) < MIN_MIRRORS
    \/ \E m \in r.mirrors : m.archive # r.archive

-----------------------------------------------------------------------------
(* What the tree holds, judged *)

\* Each file of an observation is of the host it is named after.
misfiled(t) == \E h \in ACQUISITION_HOSTS : \E o \in t.obs[h] : o.host # h

archiveAccepted(t) ==
    /\ t.record # {}
    /\ ~ misfiled(t) /\ ~ acquisitionErrors(t)
    /\ ~ archiveRecordErrors(deriveArchiveRecord(t), t)
    /\ t.record = {deriveArchiveRecord(t)}
    /\ ~ uncommittedEvidence(t)

archiveEvidenceState(t) ==
    IF t.record = {} THEN "NO_RECORD" ELSE IF archiveAccepted(t) THEN "ACCEPTED" ELSE "REFUSED"

\* No exercise was ever withdrawn, and each one proved from the accepted record.
exerciseEvidenceState(t) ==
    IF \/ ~ published \subseteq t.exercises
       \/ t.exercises # {} /\ archiveEvidenceState(t) # "ACCEPTED"
       \/ \E x \in t.exercises : {x} # t.record
    THEN "REFUSED"
    ELSE IF t.exercises = {} THEN "NO_RECORD" ELSE "ACCEPTED"

Evidence(t) == <<archiveEvidenceState(t), exerciseEvidenceState(t)>>

\* Slip: an exercise that is refused is as good as none.
RefusedIsNone(t) ==
    CASE Evidence(t) = <<"ACCEPTED", "ACCEPTED">> -> "SELF_HOSTED_PATH_EXERCISED"
      [] archiveEvidenceState(t) = "ACCEPTED" /\ exerciseEvidenceState(t) # "ACCEPTED" ->
            "ARCHIVED_VERIFIED_UNEXERCISED"
      [] Evidence(t) = <<"NO_RECORD", "NO_RECORD">> -> "OWNER_DOWNLOAD_REQUIRED"
      [] OTHER -> None

\* None where there is no deriving any.
provingAvailabilityStatus(t) ==
    CASE Evidence(t) = <<"ACCEPTED", "ACCEPTED">> -> "SELF_HOSTED_PATH_EXERCISED"
      [] Evidence(t) = <<"ACCEPTED", "NO_RECORD">> -> "ARCHIVED_VERIFIED_UNEXERCISED"
      [] Evidence(t) = <<"NO_RECORD", "NO_RECORD">> ->
            IF t.local THEN "LOCAL_COPY_NOT_ARCHIVED" ELSE "OWNER_DOWNLOAD_REQUIRED"
      [] OTHER -> None

deriveProvingAvailability(t) ==
    [status |-> provingAvailabilityStatus(t), designation |-> t.designation,
     record |-> t.record, exercises |-> t.exercises]

provingAvailabilityErrors(t) ==
    provingAvailabilityStatus(t) = None \/ t.availability # {deriveProvingAvailability(t)}

\* The archive and the designation name one circuit in what is committed.
committedProductionAnchor ==
    /\ tree.availability = head.availability /\ tree.designation = head.designation
    /\ \E a \in tree.availability : a.designation = tree.designation

\* The state of the tooling, whose self-test passes; None if none can be derived.
toolingState(t) ==
    CASE Evidence(t) = <<"NO_RECORD", "NO_RECORD">> -> "TOOLING_READY_NO_ARTIFACT"
      [] Evidence(t) = <<"ACCEPTED", "NO_RECORD">> -> "ARCHIVED_VERIFIED_UNEXERCISED"
      [] Evidence(t) = <<"ACCEPTED", "ACCEPTED">> -> "SELF_HOSTED_PATH_EXERCISED"
      [] OTHER -> None

availabilityStatusesFor(state) ==
    CASE state = "TOOLING_READY_NO_ARTIFACT" -> {"OWNER_DOWNLOAD_REQUIRED", "LOCAL_COPY_NOT_ARCHIVED"}
      [] state = None -> {}
      [] OTHER -> {state}

-----------------------------------------------------------------------------
(* The world *)

step == steps < MaxSteps /\ steps' = steps + 1
work == steps' = steps

upstreamChanges ==
    /\ step /\ upstream' \in Archive \ {upstream}
    /\ UNCHANGED <<tag, stored, copy, tree, head, published, made>>

tagMoves ==
    /\ step /\ tag' \in Index \ {tag}
    /\ UNCHANGED <<upstream, stored, copy, tree, head, published, made>>

\* The download, whole or in part, and the digests and the index taken of it; or a
\* download over it, with those of the one before.
download(h, a) ==
    /\ a \in {upstream, "part"}
    /\ IF copy[h].archive = None /\ a = upstream THEN work ELSE step
    /\ copy' = [copy EXCEPT ![h] = [archive |-> a, digests |-> a, index |-> tag]]
    /\ UNCHANGED <<upstream, tag, stored, tree, head, published, made>>

downloadOver(h, a) ==
    /\ step /\ a \in {upstream, "part"} /\ a # copy[h].archive /\ copy[h].archive # None
    /\ copy' = [copy EXCEPT ![h].archive = a]
    /\ UNCHANGED <<upstream, tag, stored, tree, head, published, made>>

\* A copy is put at a mirror, or something takes its place there.
store(o, a) ==
    /\ step /\ a # stored[o]
    /\ a \in {copy[h].archive : h \in ACQUISITION_HOSTS} \cup {None}
    /\ stored' = [stored EXCEPT ![o] = a]
    /\ UNCHANGED <<upstream, tag, copy, tree, head, published, made>>

-----------------------------------------------------------------------------
(* The scripts *)

\* Those there are to start with are of before.
now == Cardinality({o \in made : o.at >= 0})

edit(t) == tree' = t /\ t # tree /\ UNCHANGED <<world, head, published>>

\* One host's measurement: the inspection, the census in a pass of its own, before which the
\* copy may be another, and the tag; not written over an observation that is there.
measureAcquisition(h, later, crossChecked) ==
    /\ work /\ committedProductionAnchor /\ copy[h].archive # None
    /\ now < MaxMade
    /\ later \in {copy[h].archive, upstream}
    /\ LET inspected == inspects(copy[h].archive)
           observation ==
              [host |-> h, machine |-> h, at |-> now, script |-> tree.measures,
               designation |-> tree.designation, digests |-> copy[h].digests,
               archive |-> IF inspected THEN copy[h].archive ELSE later,
               inspected |-> inspected, census |-> later, index |-> tag,
               crossCheck |-> IF crossChecked THEN copy[h].index ELSE None]
       IN /\ tree.obs[h] = {}
          /\ tree' = [tree EXCEPT !.obs[h] = {observation}]
          /\ made' = made \cup {observation}
    /\ copy' = [copy EXCEPT ![h].archive = later]
    /\ UNCHANGED <<upstream, tag, stored, head, published>>

\* A mirror is read back, at a URL that may be another object's, or upstream's.
measureMirror(l, o, expected) ==
    /\ work /\ now < MaxMade
    /\ LET served == IF o = "upstream" THEN upstream ELSE stored[o]
           observation ==
              [location |-> l, object |-> o, archive |-> served, expected |-> expected,
               script |-> tree.rereads, at |-> now]
       IN /\ served # None /\ expected \in {served, Censused}
          /\ edit([tree EXCEPT !.mirrors = @ \cup {observation}])
          /\ made' = made \cup {observation}

\* The record is written once.
generateArchiveRecord ==
    /\ work /\ committedProductionAnchor
    /\ tree.record = {} /\ ~ acquisitionErrors(tree)
    /\ ~ archiveRecordErrors(deriveArchiveRecord(tree), tree)
    /\ edit([tree EXCEPT !.record = {deriveArchiveRecord(tree)}]) /\ UNCHANGED made

generateProvingAvailability ==
    /\ work /\ provingAvailabilityStatus(tree) # None
    /\ edit([tree EXCEPT !.availability = {deriveProvingAvailability(tree)}]) /\ UNCHANGED made

\* A proof is made from the record, where the record and its evidence are accepted.
exercise ==
    /\ work /\ committedProductionAnchor /\ archiveEvidenceState(tree) = "ACCEPTED"
    /\ edit([tree EXCEPT !.exercises = @ \cup tree.record]) /\ UNCHANGED made

-----------------------------------------------------------------------------
(* The people *)

commit ==
    /\ work /\ head # tree /\ head' = tree /\ published' = published \cup tree.exercises
    /\ UNCHANGED <<world, tree, made>>

changeScripts(script) ==
    step /\ edit([tree EXCEPT ![script] = 3 - @]) /\ UNCHANGED made

designate == step /\ edit([tree EXCEPT !.designation = 3 - @]) /\ UNCHANGED made

findLocalCopy == step /\ edit([tree EXCEPT !.local = ~ @]) /\ UNCHANGED made

\* One host's observation is copied to the other's file, with or without its label.
copyObservation(h, g, relabelled) ==
    /\ step /\ g # h /\ tree.obs[h] # {}
    /\ edit([tree EXCEPT !.obs[g] =
                {[o EXCEPT !.host = IF relabelled THEN g ELSE o.host] : o \in tree.obs[h]}])
    /\ UNCHANGED made

withdraw(h) == step /\ edit([tree EXCEPT !.obs[h] = {}]) /\ UNCHANGED made
withdrawMirror(m) == step /\ edit([tree EXCEPT !.mirrors = @ \ {m}]) /\ UNCHANGED made
withdrawRecord == step /\ edit([tree EXCEPT !.record = {}]) /\ UNCHANGED made
withdrawExercise(x) == step /\ edit([tree EXCEPT !.exercises = @ \ {x}]) /\ UNCHANGED made
repin(i) ==
    step /\ edit([tree EXCEPT !.record = {[r EXCEPT !.index = i] : r \in @}]) /\ UNCHANGED made

-----------------------------------------------------------------------------

Taken(h, t) ==
    [host |-> h, machine |-> h, at |-> t, script |-> 1, designation |-> 1,
     digests |-> Censused, archive |-> Censused, inspected |-> TRUE, census |-> Censused,
     index |-> "x", crossCheck |-> "x"]
Reread(l, t) ==
    [location |-> l, object |-> Identity[l], archive |-> Censused, expected |-> Censused,
     script |-> 1, at |-> t]

\* Nothing was done yet; two hosts have measured, and objects hold the archive; a mirror of
\* each object was read, and one host has measured; the record is committed; and it was
\* exercised.
Stages == {"designated", "acquired", "mirrored", "recorded", "exercised"}

\* Every object has a place.
MirrorAssumption ==
    /\ Start \subseteq Stages
    /\ IsFiniteSet(Objects) /\ None \notin Objects /\ "upstream" \notin Objects
    /\ Identity \in [Location -> Objects \cup {None}]
    /\ \A o \in Objects : \E l \in Location : Identity[l] = o


Measured ==
    [Empty EXCEPT
        !.obs = [h \in ACQUISITION_HOSTS |-> {Taken(h, IF h = "developer-workstation" THEN -1 ELSE -2)}]]
Mirrored ==
    [Measured EXCEPT
        !.mirrors = {Reread(CHOOSE l \in Location : Identity[l] = o, -3) : o \in Objects}]
Recorded == [Mirrored EXCEPT !.record = {deriveArchiveRecord(Mirrored)}]
Exercised == [Recorded EXCEPT !.exercises = Recorded.record]

Holds(t, status) ==
    [t EXCEPT !.availability =
        {[status |-> status, designation |-> 1, record |-> t.record, exercises |-> t.exercises]}]

Of(stage) ==
    CASE stage = "designated" -> Holds(Empty, "OWNER_DOWNLOAD_REQUIRED")
      [] stage = "acquired" ->
            [Holds(Empty, "OWNER_DOWNLOAD_REQUIRED") EXCEPT !.obs = Measured.obs]
      [] stage = "mirrored" ->
            [Holds(Empty, "OWNER_DOWNLOAD_REQUIRED") EXCEPT
                !.obs = [Measured.obs EXCEPT !["github-hosted-runner"] = {}],
                !.mirrors = Mirrored.mirrors]
      [] stage = "recorded" -> Holds(Recorded, "ARCHIVED_VERIFIED_UNEXERCISED")
      [] stage = "exercised" -> Holds(Exercised, "SELF_HOSTED_PATH_EXERCISED")

Init ==
    /\ \E stage \in Start :
          /\ tree = Of(stage) /\ head = tree
          /\ copy = [h \in ACQUISITION_HOSTS |->
                        IF stage = "designated"
                        THEN [archive |-> None, digests |-> None, index |-> None]
                        ELSE [archive |-> Censused, digests |-> Censused, index |-> "x"]]
          /\ stored = [o \in Objects |-> IF stage = "designated" THEN None ELSE Censused]
    /\ upstream = Censused /\ tag = "x" /\ steps = 0
    /\ published = tree.exercises
    /\ made = observations(tree) \cup tree.mirrors

Next ==
    \/ upstreamChanges \/ tagMoves
    \/ \E h \in ACQUISITION_HOSTS :
          \/ \E a \in Download : download(h, a) \/ downloadOver(h, a)
          \/ \E later \in Download, crossChecked \in BOOLEAN :
                measureAcquisition(h, later, crossChecked)
          \/ \E g \in ACQUISITION_HOSTS, relabelled \in BOOLEAN : copyObservation(h, g, relabelled)
          \/ withdraw(h)
    \/ \E o \in Objects, a \in Download \cup {None} : store(o, a)
    \/ \E l \in Location, o \in Objects \cup {"upstream"}, expected \in Archive :
          measureMirror(l, o, expected)
    \/ generateArchiveRecord \/ generateProvingAvailability \/ exercise \/ commit
    \/ \E script \in {"measures", "rereads"} : changeScripts(script)
    \/ designate \/ findLocalCopy \/ withdrawRecord
    \/ \E m \in tree.mirrors : withdrawMirror(m)
    \/ \E x \in tree.exercises : withdrawExercise(x)
    \/ \E i \in Index : repin(i)

Spec == Init /\ [][Next]_vars

-----------------------------------------------------------------------------
(* Properties *)

\* Where the status that is committed and validates says that there is an archive, each of
\* the two hosts had the archive of the census, at a time of its own, found the one image the
\* record pins behind the tag, and the archive was read back from two objects, none of them
\* upstream's (sp1-proving-availability.ts:490-497).
ArchivedIsHeld ==
    (~ provingAvailabilityErrors(tree)
     /\ provingAvailabilityStatus(tree) \in {"ARCHIVED_VERIFIED_UNEXERCISED", "SELF_HOSTED_PATH_EXERCISED"})
    => \A r \in tree.record :
          /\ \A h \in ACQUISITION_HOSTS : \E o \in observations(tree) \cap made :
                /\ o.machine = h /\ o.inspected /\ o.census = Censused /\ o.archive = r.archive
                /\ o.index = r.index
          /\ Cardinality({o \in Objects :
                \E m \in tree.mirrors \cap made : m.object = o /\ m.archive = r.archive}) >= MIN_MIRRORS

\* A status that validates is that of the tooling's state, so that neither of the two is
\* taken for more than the other; and none that validates hides an exercise that was
\* published, or shows one of an archive that is not the recorded one
\* (sp1-circuit-tooling.ts:831).
StatusIsOfState ==
    ~ provingAvailabilityErrors(tree) =>
        /\ provingAvailabilityStatus(tree) \in availabilityStatusesFor(toolingState(tree))
        /\ published \subseteq tree.exercises
        /\ \A a \in tree.availability : \A x \in a.exercises : {x} = tree.record
=============================================================================
