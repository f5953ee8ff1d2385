--------------------------- MODULE EvidenceProofs ---------------------------
(***************************************************************************)
(* What the evidence of a proof rests on, proved for every value of the    *)
(* constants of module MCEvidence: each part's invariant is one of the     *)
(* sum, whose steps are steps of one part and change nothing of the others.*)
(***************************************************************************)
EXTENDS MCEvidence, FiniteSetTheorems, SequenceTheorems, TLAPS

all == <<part, exercise, receipt, inspection, acquisition, history, circuit, rebuild>>

-----------------------------------------------------------------------------
(* Append-only history *)

\* One log of facts is a prefix of another.
LEMMA PrefixReflexive ==
    ASSUME NEW F, NEW s \in Seq(F)
    PROVE  IsPrefix(s, s)
  BY DEF IsPrefix

LEMMA PrefixTransitive ==
    ASSUME NEW F, NEW s \in Seq(F), NEW t \in Seq(F), NEW u \in Seq(F),
           IsPrefix(s, t), IsPrefix(t, u)
    PROVE  IsPrefix(s, u)
<1>1. /\ Len(s) \in Nat /\ Len(t) \in Nat /\ Len(u) \in Nat
      /\ Len(s) <= Len(t) /\ Len(t) <= Len(u)
  BY DEF IsPrefix
<1>2. SubSeq(s, 1, Len(s)) = SubSeq(u, 1, Len(s))
  <2>1. SubSeq(s, 1, Len(s)) = SubSeq(t, 1, Len(s))
    BY DEF IsPrefix
  <2>2. \A i \in 1..Len(t) : t[i] = u[i]
    <3> SUFFICES ASSUME NEW i \in 1..Len(t)
                 PROVE  t[i] = u[i]
      OBVIOUS
    <3>1. SubSeq(t, 1, Len(t)) = SubSeq(u, 1, Len(t))
      BY DEF IsPrefix
    <3>2. SubSeq(t, 1, Len(t))[i] = t[i] /\ SubSeq(u, 1, Len(t))[i] = u[i]
      BY <1>1
    <3> QED  BY <3>1, <3>2
  <2>3. SubSeq(t, 1, Len(s)) = SubSeq(u, 1, Len(s))
    BY <1>1, <2>2
  <2> QED  BY <2>1, <2>3
<1> QED  BY <1>1, <1>2 DEF IsPrefix

Rels == {"registry", "records", "observations"}
FactLog == Seq(PublishedFact)

LEMMA RegistriesTyped ==
    ASSUME NEW r \in History!Registries
    PROVE  /\ \A o \in r : o.facts \in FactLog
           /\ r # {} => \E o \in r : r = {o}
<1>1. ASSUME NEW log \in History!Logs
      PROVE  log \in FactLog
  <2>1. CASE log = << >>
    BY <2>1 DEF FactLog
  <2>2. ASSUME NEW f \in PublishedFact, log = <<f>>
        PROVE  log \in FactLog
    BY <2>2 DEF FactLog
  <2>3. CASE log \in PublishedFact \X PublishedFact
    <3>1. PICK f \in PublishedFact, g \in PublishedFact : log = <<f, g>>
      BY <2>3
    <3>2. <<f, g>> \in Seq(PublishedFact)
      OBVIOUS
    <3> QED  BY <3>1, <3>2 DEF FactLog
  <2> QED  BY <2>1, <2>2, <2>3 DEF History!Logs
<1>2. CASE r = {}
  BY <1>2
<1>3. CASE r = History!V1
  <2>1. << >> \in FactLog
    BY DEF FactLog
  <2> QED  BY <1>3, <2>1 DEF History!V1
<1>4. ASSUME NEW log \in History!Logs, r = {[schema |-> "v2", facts |-> log]}
      PROVE  /\ \A o \in r : o.facts \in FactLog
             /\ \E o \in r : r = {o}
  BY <1>1, <1>4
<1> QED  BY <1>2, <1>3, <1>4 DEF History!Registries, History!Absent

\* A record that was kept, or is the same, holds what was published before.
LEMMA KeptHolds ==
    ASSUME aRels \subseteq Rels,
           NEW a \in History!Trees, NEW b \in History!Trees,
           \A rel \in aRels :
              a[rel] = History!Absent \/ a[rel] = b[rel] \/ History!kept(rel, a, b)
    PROVE  History!Holds(a, b)
<1>0. \A rel \in Rels \ aRels : a[rel] = {}
  BY DEF History!Trees, Rels, History!Objects, History!Absent
<1>1. \A o \in a.registry : \E d \in b.registry : History!IsPrefix(o.facts, d.facts)
  <2> SUFFICES ASSUME NEW o \in a.registry
               PROVE  \E d \in b.registry : History!IsPrefix(o.facts, d.facts)
    OBVIOUS
  <2>1. a.registry \in History!Registries /\ b.registry \in History!Registries
    BY DEF History!Trees, History!Registries, History!Absent
  <2>2. o.facts \in FactLog /\ \A d \in b.registry : d.facts \in FactLog
    BY <2>1, RegistriesTyped
  <2>3. "registry" \in aRels
    BY <1>0 DEF Rels
  <2>4. CASE a.registry = b.registry
    BY <2>2, <2>4, PrefixReflexive DEF FactLog, History!IsPrefix, IsPrefix
  <2>5. CASE History!registryExtends(a.registry, b.registry)
    <3>1. CASE a.registry = History!V1 /\ b.registry # History!Absent
      <4>1. o.facts = << >>
        BY <3>1 DEF History!V1
      <4>2. PICK d \in b.registry : TRUE
        BY <3>1 DEF History!Absent
      <4>3. History!IsPrefix(<< >>, d.facts)
        BY <2>2 DEF FactLog, History!IsPrefix
      <4> QED  BY <4>1, <4>2, <4>3
    <3>2. CASE \E p \in a.registry, n \in b.registry : History!IsPrefix(p.facts, n.facts)
      BY <2>1, <3>2, RegistriesTyped
    <3> QED  BY <2>5, <3>1, <3>2 DEF History!registryExtends, History!Absent
  <2> QED  BY <2>3, <2>4, <2>5 DEF History!kept, History!Absent
<1>2. a.records \subseteq b.records
  BY <1>0 DEF Rels, History!kept, History!Absent
<1>3. \A f \in a.observations : f[1] \in a.records => f \in b.observations
  BY <1>0 DEF Rels, History!kept, History!Absent, History!derivedObservationAt
<1> QED  BY <1>1, <1>2, <1>3 DEF History!Holds

LEMMA HoldsTransitive ==
    ASSUME NEW a \in History!Trees, NEW b \in History!Trees, NEW c \in History!Trees,
           History!Holds(a, b), History!Holds(b, c)
    PROVE  History!Holds(a, c)
<1>1. \A o \in a.registry : \E d \in c.registry : History!IsPrefix(o.facts, d.facts)
  <2> SUFFICES ASSUME NEW o \in a.registry
               PROVE  \E d \in c.registry : History!IsPrefix(o.facts, d.facts)
    OBVIOUS
  <2>1. PICK d \in b.registry : History!IsPrefix(o.facts, d.facts)
    BY DEF History!Holds
  <2>2. PICK e \in c.registry : History!IsPrefix(d.facts, e.facts)
    BY DEF History!Holds
  <2>3. /\ a.registry \in History!Registries /\ b.registry \in History!Registries
        /\ c.registry \in History!Registries
    BY DEF History!Trees, History!Registries, History!Absent
  <2>4. o.facts \in FactLog /\ d.facts \in FactLog /\ e.facts \in FactLog
    BY <2>3, RegistriesTyped
  <2> QED
    BY <2>1, <2>2, <2>4, PrefixTransitive DEF FactLog, History!IsPrefix, IsPrefix
<1> QED  BY <1>1 DEF History!Holds

Commit == [parents : SUBSET Nat, tree : History!Trees, behind : SUBSET Nat]

HistoryTyped ==
    /\ aRels \subseteq Rels
    /\ aCommits \in Seq(Commit)
    /\ \A n \in DOMAIN aCommits :
          /\ aCommits[n].behind \subseteq 1..(n - 1)
          /\ aCommits[n].behind = aCommits[n].parents \cup History!Behind(aCommits[n].parents)

\* Where all edges behind a commit are clean, it holds what each of them published.
HistoryInv ==
    /\ HistoryTyped
    /\ \A n \in DOMAIN aCommits :
          History!edgesClean(n) =>
             \A m \in aCommits[n].behind :
                History!Holds(aCommits[m].tree, aCommits[n].tree)

LEMMA CommitTyped ==
    ASSUME HistoryTyped, NEW n \in DOMAIN aCommits
    PROVE  aCommits[n].tree \in History!Trees
<1>1. aCommits[n] \in Commit
  BY DEF HistoryTyped
<1>2. \A c \in Commit : c.tree \in History!Trees
  BY DEF Commit
<1> QED  BY <1>1, <1>2

\* The walk at a commit looks at what is behind it.
LEMMA CleanBehind ==
    ASSUME HistoryTyped, NEW n \in DOMAIN aCommits, History!edgesClean(n),
           NEW p \in aCommits[n].parents
    PROVE  p \in DOMAIN aCommits /\ p < n /\ History!edgesClean(p)
<1>1. p \in aCommits[n].behind /\ n \in Nat /\ p \in Nat /\ p < n /\ p \in DOMAIN aCommits
  BY DEF HistoryTyped
<1>2. aCommits[p].behind \cup {p} \subseteq aCommits[n].behind
  BY <1>1 DEF HistoryTyped, History!Behind
<1> QED  BY <1>1, <1>2 DEF History!edgesClean

\* An edge that is clean keeps what the parent published.
LEMMA EdgeHolds ==
    ASSUME HistoryTyped, NEW n \in DOMAIN aCommits, History!edgesClean(n),
           NEW p \in aCommits[n].parents
    PROVE  History!Holds(aCommits[p].tree, aCommits[n].tree)
<1>1. p \in DOMAIN aCommits
  BY CleanBehind
<1>2. aCommits[p].tree \in History!Trees /\ aCommits[n].tree \in History!Trees
  BY <1>1, CommitTyped
<1>3. \A rel \in aRels :
         \/ aCommits[p].tree[rel] = History!Absent
         \/ aCommits[p].tree[rel] = aCommits[n].tree[rel]
         \/ History!kept(rel, aCommits[p].tree, aCommits[n].tree)
  BY DEF History!edgesClean, History!EdgesKept, History!Holding, History!Object
<1> QED  BY <1>2, <1>3, KeptHolds DEF HistoryTyped

\* So that, from parent to parent, all that is behind a clean commit is kept.
BehindKept ==
    \A n \in DOMAIN aCommits :
       /\ History!edgesClean(n)
       /\ \A p \in DOMAIN aCommits :
             p < n /\ History!edgesClean(p) =>
                \A m \in aCommits[p].behind : History!Holds(aCommits[m].tree, aCommits[p].tree)
       => \A m \in aCommits[n].behind : History!Holds(aCommits[m].tree, aCommits[n].tree)

LEMMA BehindHolds == HistoryTyped => BehindKept
<1> SUFFICES
       ASSUME HistoryTyped, NEW n \in DOMAIN aCommits, History!edgesClean(n),
              \A p \in DOMAIN aCommits :
                 p < n /\ History!edgesClean(p) =>
                    \A m \in aCommits[p].behind : History!Holds(aCommits[m].tree, aCommits[p].tree),
              NEW m \in aCommits[n].behind
       PROVE  History!Holds(aCommits[m].tree, aCommits[n].tree)
  BY DEF BehindKept
<1>1. CASE m \in aCommits[n].parents
  BY <1>1, EdgeHolds
<1>2. ASSUME NEW p \in aCommits[n].parents, m \in aCommits[p].behind
      PROVE  History!Holds(aCommits[m].tree, aCommits[n].tree)
  <2>1. p \in DOMAIN aCommits /\ p < n /\ History!edgesClean(p)
    BY CleanBehind
  <2>2. History!Holds(aCommits[m].tree, aCommits[p].tree)
    BY <1>2, <2>1
  <2>3. History!Holds(aCommits[p].tree, aCommits[n].tree)
    BY EdgeHolds
  <2>4. m \in DOMAIN aCommits
    BY <1>2, <2>1 DEF HistoryTyped
  <2>5. /\ aCommits[m].tree \in History!Trees /\ aCommits[p].tree \in History!Trees
        /\ aCommits[n].tree \in History!Trees
    BY <2>1, <2>4, CommitTyped
  <2> QED  BY <2>2, <2>3, <2>5, HoldsTransitive
<1> QED  BY <1>1, <1>2 DEF HistoryTyped, History!Behind

LEMMA HistoryStart == History!Init => HistoryInv
<1> SUFFICES ASSUME History!Init
             PROVE  HistoryInv
  OBVIOUS
<1>1. aRels \subseteq Rels
  BY DEF History!Init, Rels
<1>2. aCommits = << >> /\ DOMAIN aCommits = {} /\ aCommits \in Seq(Commit)
  BY DEF History!Init
<1> QED  BY <1>1, <1>2 DEF HistoryInv, HistoryTyped

LEMMA CommitKeepsOlder ==
    ASSUME HistoryTyped, NEW parents \in SUBSET (DOMAIN aCommits),
           NEW tree \in History!Trees, History!commit(parents, tree)
    PROVE  /\ HistoryTyped'
           /\ DOMAIN aCommits' = 1..(Len(aCommits) + 1)
           /\ \A i \in DOMAIN aCommits :
                 aCommits'[i] = aCommits[i] /\ History!edgesClean(i)' = History!edgesClean(i)
<1> DEFINE n == Len(aCommits) + 1
           new == [parents |-> parents, tree |-> tree,
                   behind |-> parents \cup History!Behind(parents)]
<1>1. aCommits \in Seq(Commit) /\ aCommits' = Append(aCommits, new) /\ aRels' = aRels
  BY DEF HistoryTyped, History!commit
<1>2. Len(aCommits) \in Nat /\ DOMAIN aCommits = 1..Len(aCommits)
  BY <1>1
<1>3. History!Behind(parents) \subseteq 1..(n - 1)
  <2> SUFFICES ASSUME NEW p \in parents, NEW m \in aCommits[p].behind
               PROVE  m \in 1..(n - 1)
    BY DEF History!Behind
  <2>1. m \in 1..(p - 1) /\ p \in 1..Len(aCommits)
    BY <1>2 DEF HistoryTyped
  <2> QED  BY <1>2, <2>1
<1>4. new \in Commit
  BY <1>2, <1>3 DEF Commit
<1>5. Commit' = Commit
  BY <1>1 DEF Commit, History!Trees
<1> HIDE DEF new
<1>6. /\ aCommits' \in Seq(Commit) /\ DOMAIN aCommits' = 1..n
      /\ \A i \in DOMAIN aCommits : aCommits'[i] = aCommits[i]
      /\ aCommits'[n] = new
  BY <1>1, <1>2, <1>4
<1> HIDE DEF n
<1>7. ASSUME NEW P \in SUBSET (DOMAIN aCommits)
      PROVE  UNION {aCommits'[p].behind : p \in P} = UNION {aCommits[p].behind : p \in P}
  <2>1. \A p \in P : aCommits'[p].behind = aCommits[p].behind
    BY <1>6
  <2> QED  BY <2>1
<1>8. ASSUME NEW i \in DOMAIN aCommits'
      PROVE  /\ aCommits'[i].behind \subseteq 1..(i - 1)
             /\ aCommits'[i].behind = aCommits'[i].parents
                     \cup UNION {aCommits'[p].behind : p \in aCommits'[i].parents}
  <2>1. CASE i = n
    <3>1. /\ aCommits'[i].parents = parents
          /\ aCommits'[i].behind = parents \cup History!Behind(parents)
      BY <1>6, <2>1 DEF new
    <3>2. parents \subseteq 1..(n - 1)
      BY <1>2 DEF n
    <3> QED  BY <1>3, <1>7, <2>1, <3>1, <3>2 DEF History!Behind
  <2>2. CASE i \in DOMAIN aCommits
    <3>1. aCommits[i].parents \subseteq aCommits[i].behind
      BY <2>2 DEF HistoryTyped
    <3>2. aCommits[i].behind \subseteq DOMAIN aCommits
      BY <1>2, <2>2 DEF HistoryTyped
    <3>3. UNION {aCommits'[p].behind : p \in aCommits[i].parents} = History!Behind(aCommits[i].parents)
      BY <1>7, <3>1, <3>2 DEF History!Behind
    <3> QED  BY <1>6, <2>2, <3>3 DEF HistoryTyped
  <2> QED  BY <1>2, <1>6, <2>1, <2>2 DEF n
<1>9. HistoryTyped'
  BY <1>1, <1>5, <1>6, <1>8 DEF HistoryTyped, History!Behind
<1>10. ASSUME NEW i \in DOMAIN aCommits
       PROVE  History!edgesClean(i)' = History!edgesClean(i)
  <2>1. ASSUME NEW k \in DOMAIN aCommits, NEW rel \in aRels
        PROVE  History!EdgesKept(k, rel)' = History!EdgesKept(k, rel)
    <3>1. aCommits[k].parents \subseteq DOMAIN aCommits
      BY <1>2 DEF HistoryTyped
    <3> QED
      BY <1>6, <3>1 DEF History!EdgesKept, History!Holding, History!Object
  <2>2. aCommits[i].behind \cup {i} \subseteq DOMAIN aCommits /\ aCommits'[i] = aCommits[i]
    BY <1>2, <1>6 DEF HistoryTyped
  <2> QED  BY <1>1, <2>1, <2>2 DEF History!edgesClean
<1> QED  BY <1>6, <1>9, <1>10 DEF n

LEMMA HistoryStep == HistoryInv /\ [History!Next]_history => HistoryInv'
<1> SUFFICES ASSUME HistoryInv, [History!Next]_history
             PROVE  HistoryInv'
  OBVIOUS
<1>1. CASE UNCHANGED history
  <2>1. aRels' = aRels /\ aCommits' = aCommits
    BY <1>1 DEF history
  <2>2. HistoryTyped'
    BY <2>1 DEF HistoryInv, HistoryTyped, Commit, History!Trees, History!Behind
  <2>3. \A n \in DOMAIN aCommits : History!edgesClean(n)' = History!edgesClean(n)
    <3> SUFFICES ASSUME NEW n \in DOMAIN aCommits
                 PROVE  History!edgesClean(n)' = History!edgesClean(n)
      OBVIOUS
    <3>1. \A k, rel : History!EdgesKept(k, rel)' = History!EdgesKept(k, rel)
      BY <2>1 DEF History!EdgesKept, History!Holding, History!Object
    <3> QED  BY <2>1, <3>1 DEF History!edgesClean
  <2> QED  BY <2>1, <2>2, <2>3 DEF HistoryInv
<1>2. CASE History!Next
  <2>1. PICK parents \in SUBSET (DOMAIN aCommits), tree \in History!Trees :
           History!commit(parents, tree)
    BY <1>2 DEF History!Next
  <2>2. /\ HistoryTyped' /\ DOMAIN aCommits' = 1..(Len(aCommits) + 1)
        /\ \A i \in DOMAIN aCommits :
              aCommits'[i] = aCommits[i] /\ History!edgesClean(i)' = History!edgesClean(i)
    BY <2>1, CommitKeepsOlder DEF HistoryInv
  <2>3. DOMAIN aCommits = 1..Len(aCommits) /\ Len(aCommits) \in Nat
    BY DEF HistoryInv, HistoryTyped
  <2>4. ASSUME NEW i \in DOMAIN aCommits, History!edgesClean(i)', NEW m \in aCommits'[i].behind
        PROVE  History!Holds(aCommits'[m].tree, aCommits'[i].tree)
    <3>1. aCommits'[i] = aCommits[i] /\ History!edgesClean(i)
      BY <2>2, <2>4
    <3>2. m \in aCommits[i].behind /\ m \in DOMAIN aCommits
      BY <2>3, <2>4, <3>1 DEF HistoryInv, HistoryTyped
    <3> QED  BY <2>2, <3>1, <3>2 DEF HistoryInv
  <2>5. \A n \in DOMAIN aCommits' : n # Len(aCommits) + 1 => n \in DOMAIN aCommits
    BY <2>2, <2>3
  <2>6. ASSUME NEW n \in DOMAIN aCommits', History!edgesClean(n)', NEW m \in aCommits'[n].behind
        PROVE  History!Holds(aCommits'[m].tree, aCommits'[n].tree)
    <3>1. CASE n \in DOMAIN aCommits
      BY <2>4, <2>6, <3>1
    <3>2. CASE n = Len(aCommits) + 1
      <4>1. \A p \in DOMAIN aCommits' :
               p < n /\ History!edgesClean(p)' =>
                  \A k \in aCommits'[p].behind : History!Holds(aCommits'[k].tree, aCommits'[p].tree)
        BY <2>4, <2>5, <3>2
      <4>2. BehindKept'
        <5>1. HistoryTyped' => BehindKept'
          BY BehindHolds, PTL
        <5> QED  BY <2>2, <5>1
      <4> QED  BY <2>6, <4>1, <4>2 DEF BehindKept
    <3> QED  BY <2>5, <3>1, <3>2
  <2> QED  BY <2>2, <2>6 DEF HistoryInv
<1> QED  BY <1>1, <1>2

\* A clean walk from HEAD, and a working tree that keeps what HEAD has.
LEMMA HistoryShows == HistoryInv => NothingPublishedIsLost
<1> SUFFICES
       ASSUME HistoryInv, Len(aCommits) > 0, History!edgesClean(Len(aCommits)),
              NEW disk \in History!Trees, History!diskClean(Len(aCommits), disk),
              NEW n \in aCommits[Len(aCommits)].behind \cup {Len(aCommits)}
       PROVE  History!Holds(aCommits[n].tree, disk)
  BY DEF NothingPublishedIsLost, History!NothingPublishedIsLost
<1> DEFINE head == Len(aCommits)
<1>1. head \in Nat /\ DOMAIN aCommits = 1..head /\ head \in DOMAIN aCommits
  BY DEF HistoryInv, HistoryTyped
<1>2. aCommits[head].tree \in History!Trees
  BY <1>1, CommitTyped DEF HistoryInv
<1>3. History!Holds(aCommits[head].tree, disk)
  <2>1. \A rel \in aRels :
           \/ aCommits[head].tree[rel] = disk[rel]
           \/ History!kept(rel, aCommits[head].tree, disk)
    BY DEF History!diskClean, History!Object
  <2> QED  BY <1>2, <2>1, KeptHolds DEF HistoryInv, HistoryTyped
<1>4. CASE n \in aCommits[head].behind
  <2>1. n \in DOMAIN aCommits
    BY <1>1, <1>4 DEF HistoryInv, HistoryTyped
  <2>2. aCommits[n].tree \in History!Trees
    BY <2>1, CommitTyped DEF HistoryInv
  <2>3. History!Holds(aCommits[n].tree, aCommits[head].tree)
    BY <1>1, <1>4 DEF HistoryInv
  <2> QED  BY <1>2, <1>3, <2>2, <2>3, HoldsTransitive
<1> QED  BY <1>3, <1>4

\* Walked edge by edge without an error, the history has lost nothing of what it
\* published (append-only-history.ts:6-14): for any facts and observations, and
\* any number of commits, branches and merges.
THEOREM HistoryLosesNothing == Spec => []NothingPublishedIsLost
<1>1. Init => HistoryInv
  BY HistoryStart DEF Init
<1>2. HistoryInv /\ [Next]_all => HistoryInv'
  <2>1. [Next]_all => [History!Next]_history
    BY DEF Next, all, history
  <2> QED  BY <2>1, HistoryStep
<1> QED  BY <1>1, <1>2, HistoryShows, PTL DEF Spec, all

-----------------------------------------------------------------------------
(* Circuit root *)

GateSteps == Circuit!Steps \cup {"output", "refused", "killed"}

GateRecord == [pc : GateSteps, mode : BOOLEAN, same : BOOLEAN]
Contents == {"absent", "record", "altered", "hostile", "extra", "empty"}
HostRecord == [read : SUBSET Contents, fetched : BOOLEAN, foreign : BOOLEAN,
               status : {"none", "proved", "failed"}]

CircuitTyped ==
    /\ cArchive \in Contents /\ cTree \in Contents /\ cStaging \in [Installer -> Contents]
    /\ cGate \in [Gate -> GateRecord] /\ cHost \in [Gate -> HostRecord]

OfTheRecord(g) == cHost[g].read \subseteq {Circuit!Record} /\ ~ cHost[g].fetched

\* As long as the installation is the one a gate identified, it is the record, and
\* the gate's host has read nothing else.
GateSound(g) ==
    /\ cGate[g].pc \in {"identified", "running", "ended"} /\ cGate[g].same =>
          Circuit!verifyInstalledCircuit
    /\ cGate[g].pc \in {"running", "ended", "checked"} /\ cGate[g].same => OfTheRecord(g)
    /\ cGate[g].pc = "locked" => ~ cGate[g].same
    /\ cHost[g].status = "proved" => cHost[g].read # {}
    /\ cGate[g].pc = "output" => cHost[g].read = {Circuit!Record} /\ ~ cHost[g].fetched

CircuitInv == CircuitTyped /\ \A g \in Gate : GateSound(g)

LEMMA CircuitStart == Circuit!Init => CircuitInv
<1> SUFFICES ASSUME Circuit!Init
             PROVE  CircuitInv
  OBVIOUS
<1>1. CircuitTyped
  <2>1. [pc |-> "idle", mode |-> TRUE, same |-> FALSE] \in GateRecord
    BY DEF GateRecord, GateSteps, Circuit!Steps
  <2>2. Circuit!NoHost \in HostRecord
    BY DEF HostRecord, Contents, Circuit!NoHost
  <2> QED
    BY <2>1, <2>2 DEF Circuit!Init, CircuitTyped, Circuit!Archives, Circuit!Absent, Circuit!Record,
       Contents
<1>2. \A g \in Gate : GateSound(g)
  BY DEF Circuit!Init, GateSound, Circuit!NoHost
<1> QED  BY <1>1, <1>2 DEF CircuitInv

\* Nobody leaves another's gate with an identity that is no longer that of the
\* installation.
LEMMA TouchingKeepsSound ==
    ASSUME NEW g \in Gate, GateSound(g), cHost'[g] = cHost[g], cGate'[g].pc = cGate[g].pc,
           \/ ~ cGate'[g].same
           \/ /\ cTree' = cTree /\ cStaging' = cStaging /\ cOthers' = cOthers
              /\ cGate'[g].same => cGate[g].same
    PROVE  GateSound(g)'
<1>1. CASE ~ cGate'[g].same
  BY <1>1 DEF GateSound, OfTheRecord
<1>2. CASE /\ cTree' = cTree /\ cStaging' = cStaging /\ cOthers' = cOthers
           /\ cGate'[g].same => cGate[g].same
  <2>1. Circuit!verifyInstalledCircuit' = Circuit!verifyInstalledCircuit
    BY <1>2 DEF Circuit!verifyInstalledCircuit
  <2> QED  BY <1>2, <2>1 DEF GateSound, OfTheRecord
<1> QED  BY <1>1, <1>2

LEMMA TouchedTyped ==
    ASSUME NEW G \in [Gate -> GateRecord]
    PROVE  /\ Circuit!Touched(G) \in [Gate -> GateRecord]
           /\ \A g \in Gate : Circuit!Touched(G)[g].pc = G[g].pc /\ ~ Circuit!Touched(G)[g].same
<1> SUFFICES ASSUME NEW g \in Gate
             PROVE  /\ [G[g] EXCEPT !.same = FALSE] \in GateRecord
                    /\ [G[g] EXCEPT !.same = FALSE].pc = G[g].pc
                    /\ ~ [G[g] EXCEPT !.same = FALSE].same
  BY DEF Circuit!Touched
<1>1. G[g] \in GateRecord
  OBVIOUS
<1> QED  BY <1>1 DEF GateRecord

\* A step of an installer or the user leaves the gates' hosts alone, and touches
\* every identity if it changes the root.
LEMMA InstallerStep ==
    ASSUME CircuitInv,
           \/ \E i \in Installer : Circuit!Install(i) \/ Circuit!plant(i) \/ Circuit!killInstaller(i)
           \/ Circuit!replaceArchive \/ Circuit!moveTree \/ Circuit!moveOthers
    PROVE  CircuitInv'
<1> DEFINE Effect ==
       /\ cHost' = cHost /\ cArchive' \in Contents /\ cTree' \in Contents
       /\ cStaging' \in [Installer -> Contents]
       /\ \/ cGate' = Circuit!Touched(cGate)
          \/ cGate' = cGate /\ cTree' = cTree /\ cStaging' = cStaging /\ cOthers' = cOthers
<1> USE DEF Circuit!Absent, Circuit!Record, Circuit!RootUnchanged, Contents
<1>0. \A i \in Installer, v \in Contents : [cStaging EXCEPT ![i] = v] \in [Installer -> Contents]
  BY DEF CircuitInv, CircuitTyped
<1>1. ASSUME NEW i \in Installer, Circuit!Fails(i)
      PROVE  /\ cStaging' \in [Installer -> Contents]
             /\ \/ cGate' = Circuit!Touched(cGate)
                \/ cGate' = cGate /\ cStaging' = cStaging
  <2>1. CASE cStaging[i] # Circuit!Absent /\ cWritable
    <3>1. /\ cStaging' = [cStaging EXCEPT ![i] = Circuit!Absent]
          /\ cGate' = Circuit!Touched(cGate)
      BY <1>1, <2>1 DEF Circuit!Fails
    <3> QED  BY <1>0, <3>1
  <2>2. CASE ~ (cStaging[i] # Circuit!Absent /\ cWritable)
    BY <1>1, <2>2 DEF CircuitInv, CircuitTyped, Circuit!Fails
  <2> QED  BY <2>1, <2>2
<1>2. ASSUME NEW i \in Installer, Circuit!Install(i)
      PROVE  Effect
  <2> USE DEF CircuitInv, CircuitTyped
  <2>1. CASE Circuit!measure(i)
    BY <1>1, <2>1 DEF Circuit!measure
  <2>2. CASE Circuit!inspect(i)
    BY <1>1, <2>2 DEF Circuit!inspect
  <2>3. CASE Circuit!mkdtemp(i)
    BY <1>0, <1>1, <2>3 DEF Circuit!mkdtemp
  <2>4. CASE Circuit!extract(i)
    BY <1>1, <2>4 DEF Circuit!extract
  <2>5. CASE Circuit!verifyTree(i)
    BY <1>1, <2>5 DEF Circuit!verifyTree
  <2>6. CASE Circuit!lookAgain(i)
    BY <1>1, <2>6 DEF Circuit!lookAgain
  <2>7. CASE Circuit!rename(i)
    BY <1>1, <2>7 DEF Circuit!rename
  <2> QED  BY <1>2, <2>1, <2>2, <2>3, <2>4, <2>5, <2>6, <2>7 DEF Circuit!Install
<1>3. ASSUME NEW i \in Installer, Circuit!plant(i) \/ Circuit!killInstaller(i)
      PROVE  Effect
  <2>1. CASE Circuit!plant(i)
    BY <1>0, <2>1 DEF CircuitInv, CircuitTyped, Circuit!plant
  <2>2. CASE Circuit!killInstaller(i)
    BY <2>2 DEF CircuitInv, CircuitTyped, Circuit!killInstaller
  <2> QED  BY <1>3, <2>1, <2>2
<1>4. ASSUME Circuit!replaceArchive
      PROVE  Effect
  BY <1>4 DEF CircuitInv, CircuitTyped, Circuit!replaceArchive, Circuit!Archives
<1>5. ASSUME Circuit!moveTree
      PROVE  Effect
  BY <1>5 DEF CircuitInv, CircuitTyped, Circuit!moveTree, Circuit!Trees
<1>6. ASSUME Circuit!moveOthers
      PROVE  Effect
  <2>1. ASSUME UNCHANGED cStaging
        PROVE  Effect
    BY <1>6, <2>1 DEF CircuitInv, CircuitTyped, Circuit!moveOthers
  <2>2. ASSUME NEW i \in Installer, cStaging' = [cStaging EXCEPT ![i] = Circuit!Absent]
        PROVE  Effect
    BY <1>0, <1>6, <2>2 DEF CircuitInv, CircuitTyped, Circuit!moveOthers
  <2> QED  BY <1>6, <2>1, <2>2 DEF Circuit!moveOthers
<1>9. Effect
  BY <1>2, <1>3, <1>4, <1>5, <1>6
<1>10. /\ cGate \in [Gate -> GateRecord] /\ cHost \in [Gate -> HostRecord]
       /\ \A g \in Gate : GateSound(g)
  BY DEF CircuitInv, CircuitTyped
<1>11. CASE cGate' = Circuit!Touched(cGate)
  <2>1. /\ cGate' \in [Gate -> GateRecord]
        /\ \A g \in Gate : cGate'[g].pc = cGate[g].pc /\ ~ cGate'[g].same
    BY <1>10, <1>11, TouchedTyped
  <2>2. CircuitTyped'
    BY <1>9, <1>10, <2>1 DEF CircuitTyped, HostRecord, GateRecord
  <2>3. ASSUME NEW g \in Gate
        PROVE  GateSound(g)'
    BY <1>9, <1>10, <2>1, TouchingKeepsSound
  <2> QED  BY <2>2, <2>3 DEF CircuitInv
<1>12. CASE cGate' = cGate /\ cTree' = cTree /\ cStaging' = cStaging /\ cOthers' = cOthers
  <2>1. CircuitTyped'
    BY <1>9, <1>10, <1>12 DEF CircuitTyped, HostRecord, GateRecord
  <2>2. ASSUME NEW g \in Gate
        PROVE  GateSound(g)'
    BY <1>9, <1>10, <1>12, TouchingKeepsSound
  <2> QED  BY <2>1, <2>2 DEF CircuitInv
<1> QED  BY <1>9, <1>11, <1>12

\* A step of a gate: its own promises, and what it changes for the others.
LEMMA GateStep ==
    ASSUME CircuitInv, NEW g \in Gate, Circuit!Prove(g) \/ Circuit!killGate(g)
    PROVE  CircuitInv'
<1>1. /\ cGate \in [Gate -> GateRecord] /\ cHost \in [Gate -> HostRecord]
      /\ \A h \in Gate : GateSound(h)
      /\ cArchive \in Contents /\ cTree \in Contents /\ cStaging \in [Installer -> Contents]
  BY DEF CircuitInv, CircuitTyped
<1>2. cGate[g] \in GateRecord /\ cHost[g] \in HostRecord /\ GateSound(g)
  BY <1>1
<1> DEFINE Effect ==
       /\ cArchive' = cArchive /\ cStaging' = cStaging /\ cTree' \in Contents
       /\ cGate' \in [Gate -> GateRecord] /\ cHost' \in [Gate -> HostRecord]
       /\ GateSound(g)'
       /\ \A h \in Gate \ {g} :
             /\ cHost'[h] = cHost[h] /\ cGate'[h].pc = cGate[h].pc
             /\ \/ ~ cGate'[h].same
                \/ cTree' = cTree /\ cOthers' = cOthers /\ cGate'[h].same = cGate[h].same
<1>3. ASSUME Effect
      PROVE  CircuitInv'
  <2>1. CircuitTyped'
    BY <1>1, <1>3 DEF CircuitTyped, HostRecord, GateRecord, Contents
  <2>2. ASSUME NEW h \in Gate, h # g
        PROVE  GateSound(h)'
    BY <1>1, <1>3, <2>2, TouchingKeepsSound
  <2> QED  BY <1>3, <2>1, <2>2 DEF CircuitInv
<1> USE DEF Circuit!AtGate, Circuit!GateGoes, Circuit!Elsewhere
<1> HIDE DEF Contents
<1>4. CASE Circuit!killGate(g)
  BY <1>1, <1>2, <1>3, <1>4 DEF Circuit!killGate, GateRecord, GateSteps, GateSound, OfTheRecord
<1>5. CASE Circuit!prepare(g)
  BY <1>1, <1>2, <1>3, <1>5
     DEF Circuit!prepare, GateRecord, GateSteps, Circuit!Steps, GateSound, OfTheRecord
<1>6. CASE Circuit!readMode(g)
  BY <1>1, <1>2, <1>3, <1>6
     DEF Circuit!readMode, GateRecord, GateSteps, Circuit!Steps, GateSound, OfTheRecord
<1>7. CASE Circuit!lock(g)
  <2>1. /\ \A h \in Gate \ {g} : cGate'[h] = Circuit!Touched(cGate)[h]
        /\ cGate'[g] = [Circuit!Touched(cGate)[g] EXCEPT !.pc = "locked"]
        /\ cGate' \in [Gate -> GateRecord]
    BY <1>1, <1>7, TouchedTyped DEF Circuit!lock, GateRecord, GateSteps, Circuit!Steps
  <2>2. cGate'[g].pc = "locked" /\ ~ cGate'[g].same
    BY <1>1, <2>1, TouchedTyped DEF GateRecord
  <2> QED
    BY <1>1, <1>2, <1>3, <1>7, <2>1, <2>2, TouchedTyped DEF Circuit!lock, GateSound, OfTheRecord
<1>8. CASE Circuit!identify(g)
  <2>1. Circuit!verifyInstalledCircuit' = Circuit!verifyInstalledCircuit
    BY <1>8 DEF Circuit!identify, Circuit!verifyInstalledCircuit
  <2>2. CASE Circuit!verifyInstalledCircuit
    BY <1>1, <1>2, <1>3, <1>8, <2>1, <2>2
       DEF Circuit!identify, GateRecord, GateSteps, Circuit!Steps, GateSound, OfTheRecord
  <2>3. CASE ~ Circuit!verifyInstalledCircuit
    BY <1>1, <1>2, <1>3, <1>8, <2>1, <2>3
       DEF Circuit!identify, GateRecord, GateSteps, Circuit!Steps, GateSound, OfTheRecord
  <2> QED  BY <2>2, <2>3
<1>9. CASE Circuit!spawn(g)
  <2>1. PICK foreign \in BOOLEAN :
           cHost' = [cHost EXCEPT ![g] = [Circuit!NoHost EXCEPT !.foreign = foreign]]
    BY <1>9 DEF Circuit!spawn
  <2>2. [Circuit!NoHost EXCEPT !.foreign = foreign] \in HostRecord
    BY DEF HostRecord, Circuit!NoHost
  <2>3. Circuit!verifyInstalledCircuit' = Circuit!verifyInstalledCircuit
    BY <1>9 DEF Circuit!spawn, Circuit!verifyInstalledCircuit
  <2>4. cHost'[g] = [read |-> {}, fetched |-> FALSE, foreign |-> foreign, status |-> "none"]
    BY <1>1, <2>1 DEF Circuit!NoHost
  <2>5. /\ cHost' \in [Gate -> HostRecord]
        /\ \A h \in Gate \ {g} : cHost'[h] = cHost[h]
    BY <1>1, <2>1, <2>2
  <2>6. GateSound(g)'
    BY <1>1, <1>2, <1>9, <2>3, <2>4
       DEF Circuit!spawn, GateRecord, GateSteps, Circuit!Steps, GateSound, OfTheRecord
  <2> QED
    BY <1>1, <1>2, <1>3, <1>9, <2>5, <2>6 DEF Circuit!spawn, GateRecord, GateSteps, Circuit!Steps
<1>10. CASE Circuit!hostReads(g)
  <2>1. CASE IF cHost[g].foreign THEN cOthers ELSE cTree # Circuit!Absent
    <3> DEFINE what == IF cHost[g].foreign THEN "extra" ELSE cTree
    <3>1. /\ cHost' = [cHost EXCEPT ![g].read = @ \cup {what}]
          /\ cTree' = cTree /\ cOthers' = cOthers /\ cGate' = cGate
          /\ cArchive' = cArchive /\ cStaging' = cStaging
      BY <1>10, <2>1 DEF Circuit!hostReads
    <3>2. what \in Contents
      BY <1>1 DEF Contents
    <3>3. cGate[g].same => what = Circuit!Record
      BY <1>2, <1>10, <2>1 DEF Circuit!hostReads, GateSound, Circuit!verifyInstalledCircuit
    <3> HIDE DEF what
    <3>4. cHost' \in [Gate -> HostRecord] /\ \A h \in Gate \ {g} : cHost'[h] = cHost[h]
      BY <1>1, <1>2, <3>1, <3>2 DEF HostRecord
    <3>5. /\ cHost'[g].read = cHost[g].read \cup {what}
          /\ cHost'[g].fetched = cHost[g].fetched /\ cHost'[g].status = cHost[g].status
      BY <1>1, <1>2, <3>1 DEF HostRecord
    <3>6. Circuit!verifyInstalledCircuit' = Circuit!verifyInstalledCircuit
      BY <3>1 DEF Circuit!verifyInstalledCircuit
    <3>7. GateSound(g)'
      BY <1>2, <1>10, <3>1, <3>3, <3>5, <3>6 DEF Circuit!hostReads, GateSound, OfTheRecord
    <3> QED  BY <1>1, <1>3, <3>1, <3>4, <3>7
  <2>2. CASE ~ (IF cHost[g].foreign THEN cOthers ELSE cTree # Circuit!Absent) /\ ~ cWritable
    <3>1. /\ cHost' = [cHost EXCEPT ![g].status = "failed"]
          /\ cTree' = cTree /\ cOthers' = cOthers /\ cGate' = cGate
          /\ cArchive' = cArchive /\ cStaging' = cStaging
      BY <1>10, <2>2 DEF Circuit!hostReads
    <3>2. Circuit!verifyInstalledCircuit' = Circuit!verifyInstalledCircuit
      BY <3>1 DEF Circuit!verifyInstalledCircuit
    <3>3. /\ cHost' \in [Gate -> HostRecord] /\ \A h \in Gate \ {g} : cHost'[h] = cHost[h]
          /\ cHost'[g].read = cHost[g].read /\ cHost'[g].fetched = cHost[g].fetched
          /\ cHost'[g].status = "failed"
      BY <1>1, <1>2, <3>1 DEF HostRecord
    <3>4. GateSound(g)'
      BY <1>2, <3>1, <3>2, <3>3 DEF GateSound, OfTheRecord
    <3> QED  BY <1>1, <1>3, <3>1, <3>3, <3>4
  <2>3. CASE ~ (IF cHost[g].foreign THEN cOthers ELSE cTree # Circuit!Absent) /\ cWritable
    <3>1. /\ cHost' = [cHost EXCEPT ![g].fetched = TRUE]
          /\ cTree' \in Contents /\ cGate' = Circuit!Touched(cGate)
          /\ cArchive' = cArchive /\ cStaging' = cStaging
      BY <1>1, <1>10, <2>3 DEF Circuit!hostReads, Contents, Circuit!Record
    <3>2. /\ cHost' \in [Gate -> HostRecord] /\ \A h \in Gate \ {g} : cHost'[h] = cHost[h]
          /\ cHost'[g].read = cHost[g].read /\ cHost'[g].status = cHost[g].status
      BY <1>1, <1>2, <3>1 DEF HostRecord
    <3>3. /\ cGate' \in [Gate -> GateRecord]
          /\ \A h \in Gate : cGate'[h].pc = cGate[h].pc /\ ~ cGate'[h].same
      BY <1>1, <3>1, TouchedTyped
    <3>4. GateSound(g)'
      BY <1>2, <1>10, <3>2, <3>3 DEF Circuit!hostReads, GateSound, OfTheRecord
    <3> QED  BY <1>1, <1>3, <3>1, <3>2, <3>3, <3>4
  <2> QED  BY <2>1, <2>2, <2>3
<1>11. CASE Circuit!hostEnds(g)
  <2>1. PICK status \in {"proved", "failed"} :
           /\ status = "proved" => cHost[g].read # {}
           /\ cHost' = [cHost EXCEPT ![g].status = status]
    BY <1>11 DEF Circuit!hostEnds
  <2>2. Circuit!verifyInstalledCircuit' = Circuit!verifyInstalledCircuit
    BY <1>11 DEF Circuit!hostEnds, Circuit!verifyInstalledCircuit
  <2>3. cHost' \in [Gate -> HostRecord]
    BY <1>1, <1>2, <2>1 DEF HostRecord
  <2>4. GateSound(g)'
    BY <1>1, <1>2, <1>11, <2>1, <2>2
       DEF Circuit!hostEnds, GateRecord, HostRecord, GateSound, OfTheRecord
  <2> QED
    BY <1>1, <1>2, <1>3, <1>11, <2>1, <2>3, <2>4
       DEF Circuit!hostEnds, GateRecord, GateSteps, Circuit!Steps
<1>12. CASE Circuit!verifyAfter(g)
  <2>1. Circuit!verifyInstalledCircuit' = Circuit!verifyInstalledCircuit
    BY <1>12 DEF Circuit!verifyAfter, Circuit!verifyInstalledCircuit
  <2>2. /\ cGate'[g].pc = "checked"
        /\ cGate'[g].same = (Circuit!verifyInstalledCircuit /\ cGate[g].same)
        /\ cGate' \in [Gate -> GateRecord]
        /\ \A h \in Gate \ {g} : cGate'[h] = cGate[h]
    BY <1>1, <1>2, <1>12
       DEF Circuit!verifyAfter, Circuit!installationIdentity, GateRecord, GateSteps, Circuit!Steps
  <2> QED
    BY <1>1, <1>2, <1>3, <1>12, <2>1, <2>2
       DEF Circuit!verifyAfter, Circuit!installationIdentity, GateSound, OfTheRecord
<1>13. CASE Circuit!release(g)
  <2>1. /\ \A h \in Gate \ {g} : cGate'[h] = Circuit!Touched(cGate)[h]
        /\ cGate' \in [Gate -> GateRecord]
        /\ cGate'[g].pc \in {"output", "refused"}
        /\ cGate'[g].pc = "output" => cGate[g].same /\ cHost[g].status = "proved"
    BY <1>1, <1>13, TouchedTyped DEF Circuit!release, GateRecord, GateSteps
  <2>2. cGate'[g].pc = "output" => cHost[g].read = {Circuit!Record} /\ ~ cHost[g].fetched
    BY <1>2, <1>13, <2>1 DEF Circuit!release, GateSound, OfTheRecord
  <2> QED
    BY <1>1, <1>2, <1>3, <1>13, <2>1, <2>2, TouchedTyped
       DEF Circuit!release, GateSound, OfTheRecord
<1> QED
  BY <1>4, <1>5, <1>6, <1>7, <1>8, <1>9, <1>10, <1>11, <1>12, <1>13 DEF Circuit!Prove

LEMMA CircuitStep == CircuitInv /\ [Circuit!Next]_circuit => CircuitInv'
<1> SUFFICES ASSUME CircuitInv, [Circuit!Next]_circuit
             PROVE  CircuitInv'
  OBVIOUS
<1>1. CASE UNCHANGED circuit
  <2>1. Circuit!verifyInstalledCircuit' = Circuit!verifyInstalledCircuit
    BY <1>1 DEF circuit, Circuit!verifyInstalledCircuit
  <2> QED
    BY <1>1, <2>1 DEF circuit, CircuitInv, CircuitTyped, GateSound, OfTheRecord
<1>2. CASE Circuit!Next
  BY <1>2, InstallerStep, GateStep DEF Circuit!Next
<1> QED  BY <1>1, <1>2

\* What a gate puts out was proved by a host that read the record and nothing else
\* (sp1-prove-gate.ts:26): with any number of gates, installers and changes of the
\* user, although the root itself may be unlocked under a host.
THEOREM GateKeepsItsPromise == Spec => []ProofIsOfTheRecord
<1>1. Init => CircuitInv
  BY CircuitStart DEF Init
<1>2. CircuitInv /\ [Next]_all => CircuitInv'
  <2>1. [Next]_all => [Circuit!Next]_circuit
    BY DEF Next, all, circuit
  <2> QED  BY <2>1, CircuitStep
<1>3. CircuitInv => ProofIsOfTheRecord
  BY DEF CircuitInv, GateSound, ProofIsOfTheRecord, Circuit!ProofIsOfTheRecord
<1> QED  BY <1>1, <1>2, <1>3, PTL DEF Spec, all

-----------------------------------------------------------------------------
(* Canonical build *)

Results == {"waiting", "success", "failure", "skipped"}
Newest == Rebuild!latestDesignation(bBranch.designations)

RebuildTyped ==
    /\ bBranch = [subject |-> bBranch.subject, designations |-> bBranch.designations,
                  touched |-> bBranch.touched]
    /\ bBranch.touched \in BOOLEAN
    /\ bJobs \in [Rebuild!Job -> Results]
    /\ bBuilds = [r \in Runner |-> bBuilds[r]]

\* Every build there is was made of the branch as it stands, a branch where nothing
\* was touched is main, and a comparison that passed is of these builds.
BuildsAreOfTheBranch ==
    \A r \in Runner : \A b \in bBuilds[r] :
       b.subject = bBranch.subject /\ b.output \in Rebuild!Built(b.machine, b.subject, b.locked)
UntouchedIsMain ==
    ~ bBranch.touched =>
       bBranch.subject = bMain.subject /\ bBranch.designations = bMain.designations
RecomputedIsBuilt == bJobs["recompute"] = "success" => bJobs["build"] = "success"
PassedIsReproduced ==
    bBranch.touched /\ bJobs["compare"] = "success" =>
       /\ bJobs["build"] = "success" /\ bJobs["recompute"] = "success"
       /\ Rebuild!canonicalBuildVerdict(Newest) = "REPRODUCED"

RebuildInv ==
    /\ Rebuild!LatestIsOfItsSubject
    /\ RebuildTyped /\ BuildsAreOfTheBranch /\ UntouchedIsMain
    /\ RecomputedIsBuilt /\ PassedIsReproduced

LEMMA OneCardinality == \A S : Rebuild!Cardinality(S) = Cardinality(S)
  BY DEF Rebuild!Cardinality, Cardinality

\* Builds on two machines include one in order, so what both reproduced under the
\* locked lockfile is what the sources build.
LEMMA ReproducedIsRight ==
    ASSUME BuildsAreOfTheBranch, NEW d, Rebuild!canonicalBuildVerdict(d) = "REPRODUCED"
    PROVE  d.output = Rebuild!OutputOf(bBranch.subject)
<1>1. /\ ~ Rebuild!IdentityDrift(d) /\ ~ Rebuild!ProcedureDrift(d)
      /\ ~ (Cardinality(Rebuild!machineOf) < 2)
  BY OneCardinality DEF Rebuild!canonicalBuildVerdict
<1>2. PICK m \in Rebuild!machineOf : m \notin OutOfOrder
  <2> SUFFICES ASSUME Rebuild!machineOf \subseteq OutOfOrder
               PROVE  FALSE
    OBVIOUS
  <2>1. CASE Rebuild!machineOf = {}
    BY <1>1, <2>1, FS_EmptySet
  <2>2. ASSUME NEW m \in Rebuild!machineOf
        PROVE  FALSE
    <3>1. Rebuild!machineOf = {m}
      BY <2>2, OneOutOfOrder
    <3>2. Cardinality({m}) = 1
      BY FS_Singleton
    <3> QED  BY <1>1, <3>1, <3>2
  <2> QED  BY <2>1, <2>2
<1>3. PICK b \in Rebuild!AllBuilds : b.machine = m
  BY <1>2 DEF Rebuild!machineOf
<1>4. b.output = d.output /\ b.locked
  BY <1>1 DEF Rebuild!IdentityDrift, Rebuild!ProcedureDrift
<1>5. b.subject = bBranch.subject /\ b.output \in Rebuild!Built(b.machine, b.subject, b.locked)
  BY DEF BuildsAreOfTheBranch, Rebuild!AllBuilds
<1> QED  BY <1>2, <1>3, <1>4, <1>5 DEF Rebuild!Built

LEMMA RebuildStart == Rebuild!Init => RebuildInv
<1> SUFFICES ASSUME Rebuild!Init
             PROVE  RebuildInv
  OBVIOUS
<1>1. Rebuild!LatestIsOfItsSubject
  BY DEF Rebuild!Init, Rebuild!LatestIsOfItsSubject, Rebuild!latestDesignation,
     Rebuild!Last, Rebuild!OutputOf
<1>2. RebuildTyped
  BY DEF Rebuild!Init, RebuildTyped, Rebuild!Waiting, Rebuild!Job, Results
<1> QED
  BY <1>1, <1>2 DEF Rebuild!Init, RebuildInv, BuildsAreOfTheBranch, UntouchedIsMain,
     RecomputedIsBuilt, PassedIsReproduced, Rebuild!Waiting, Rebuild!Job

\* A branch that changes has no builds, and nothing of it has passed.
LEMMA RestartKeeps ==
    ASSUME RebuildInv, Rebuild!Restart, Rebuild!LatestIsOfItsSubject', UntouchedIsMain',
           bBranch' = [subject |-> bBranch'.subject, designations |-> bBranch'.designations,
                       touched |-> bBranch'.touched],
           bBranch'.touched \in BOOLEAN
    PROVE  RebuildInv'
  BY DEF RebuildInv, RebuildTyped, BuildsAreOfTheBranch, RecomputedIsBuilt,
     PassedIsReproduced, Rebuild!Restart,
     Rebuild!Waiting, Rebuild!Job, Results

\* A step of the workflow leaves the designations alone.
LEMMA JobStep ==
    ASSUME RebuildInv, UNCHANGED <<bMain, bBranch>>, bJobs' \in [Rebuild!Job -> Results],
           bBuilds' = [r \in Runner |-> bBuilds'[r]], BuildsAreOfTheBranch',
           RecomputedIsBuilt', PassedIsReproduced'
    PROVE  RebuildInv'
  BY DEF RebuildInv, RebuildTyped, UntouchedIsMain, Rebuild!LatestIsOfItsSubject

LEMMA RebuildStep == RebuildInv /\ [Rebuild!Next]_rebuild => RebuildInv'
<1> SUFFICES ASSUME RebuildInv, [Rebuild!Next]_rebuild
             PROVE  RebuildInv'
  OBVIOUS
<1>0. /\ Rebuild!LatestIsOfItsSubject /\ RebuildTyped /\ BuildsAreOfTheBranch
      /\ UntouchedIsMain /\ RecomputedIsBuilt /\ PassedIsReproduced
  BY DEF RebuildInv
<1>1. CASE UNCHANGED rebuild
  <2>1. Rebuild!canonicalBuildVerdict(Newest)' = Rebuild!canonicalBuildVerdict(Newest)
    BY <1>1 DEF rebuild, Newest, Rebuild!canonicalBuildVerdict, Rebuild!IdentityDrift,
       Rebuild!ProcedureDrift, Rebuild!Incomplete, Rebuild!machineOf, Rebuild!AllBuilds
  <2> QED
    BY <1>0, <1>1, <2>1 DEF rebuild, RebuildInv, RebuildTyped, BuildsAreOfTheBranch,
       UntouchedIsMain, RecomputedIsBuilt, PassedIsReproduced, Rebuild!LatestIsOfItsSubject
<1>2. ASSUME NEW s \in Sources, Rebuild!editSources(s)
      PROVE  RebuildInv'
  <2>1. Rebuild!LatestIsOfItsSubject'
    BY <1>0, <1>2 DEF Rebuild!editSources, Rebuild!LatestIsOfItsSubject
  <2>2. /\ bBranch' = [subject |-> s, designations |-> bBranch.designations, touched |-> TRUE]
    BY <1>0, <1>2 DEF Rebuild!editSources, RebuildTyped
  <2> QED
    BY <1>2, <2>1, <2>2, RestartKeeps DEF Rebuild!editSources, UntouchedIsMain
<1>3. ASSUME NEW s \in Sources, Rebuild!generateSuccessor(s)
      PROVE  RebuildInv'
  <2>1. Rebuild!LatestIsOfItsSubject'
    BY <1>0, <1>3 DEF Rebuild!generateSuccessor, Rebuild!LatestIsOfItsSubject
  <2>2. PICK output :
           bBranch' = [bBranch EXCEPT !.designations = Append(@, [subject |-> s, output |-> output]),
                                      !.touched = TRUE]
    BY <1>3 DEF Rebuild!generateSuccessor
  <2>3. bBranch' = [subject |-> bBranch.subject,
                    designations |-> Append(bBranch.designations, [subject |-> s, output |-> output]),
                    touched |-> TRUE]
    BY <1>0, <2>2 DEF RebuildTyped
  <2> QED
    BY <1>3, <2>1, <2>3, RestartKeeps DEF Rebuild!generateSuccessor, UntouchedIsMain
<1>4. ASSUME NEW r \in Runner, Rebuild!canonicalBuild(r)
      PROVE  RebuildInv'
  <2>1. PICK m \in Machine, locked \in BOOLEAN :
           \E output \in Rebuild!Built(m, bBranch.subject, locked) :
              bBuilds' = [bBuilds EXCEPT ![r] =
                 {[machine |-> m, subject |-> bBranch.subject, locked |-> locked,
                   output |-> output]}]
    BY <1>4 DEF Rebuild!canonicalBuild
  <2>2. bBuilds' = [q \in Runner |-> bBuilds'[q]] /\ BuildsAreOfTheBranch'
    <3>1. PICK output \in Rebuild!Built(m, bBranch.subject, locked) :
             bBuilds' = [bBuilds EXCEPT ![r] =
                {[machine |-> m, subject |-> bBranch.subject, locked |-> locked,
                  output |-> output]}]
      BY <2>1
    <3> DEFINE new == [machine |-> m, subject |-> bBranch.subject, locked |-> locked,
                       output |-> output]
    <3>2. /\ new.subject = bBranch.subject
          /\ new.output \in Rebuild!Built(new.machine, new.subject, new.locked)
      OBVIOUS
    <3>3. bBuilds' = [bBuilds EXCEPT ![r] = {new}]
      BY <3>1
    <3> HIDE DEF new
    <3>4. /\ bBuilds' = [q \in Runner |-> bBuilds'[q]]
          /\ bBuilds'[r] = {new} /\ \A q \in Runner \ {r} : bBuilds'[q] = bBuilds[q]
      BY <1>0, <3>3 DEF RebuildTyped
    <3>5. bBranch' = bBranch
      BY <1>4 DEF Rebuild!canonicalBuild
    <3>6. \A k, s, l : Rebuild!Built(k, s, l)' = Rebuild!Built(k, s, l)
      BY DEF Rebuild!Built, Rebuild!Output, Rebuild!Value, Rebuild!OutputOf
    <3> QED  BY <1>0, <3>2, <3>4, <3>5, <3>6 DEF BuildsAreOfTheBranch
  <2>3. bJobs' \in [Rebuild!Job -> Results] /\ bJobs'["compare"] = bJobs["compare"]
    BY <1>0, <1>4 DEF RebuildTyped, Rebuild!canonicalBuild, Rebuild!Job, Results
  <2>4. RecomputedIsBuilt' /\ PassedIsReproduced'
    BY <1>0, <1>4, <2>3 DEF RebuildTyped, RecomputedIsBuilt, PassedIsReproduced,
       Rebuild!canonicalBuild, Rebuild!Job
  <2> QED
    BY <1>4, <2>2, <2>3, <2>4, JobStep DEF Rebuild!canonicalBuild
<1>5. CASE Rebuild!nothingToRebuild
  <2>1. bJobs' \in [Rebuild!Job -> Results]
    BY <1>5 DEF Rebuild!nothingToRebuild, Rebuild!Job, Results
  <2> QED
    BY <1>0, <1>5, <2>1, JobStep DEF Rebuild!nothingToRebuild, RebuildTyped,
       BuildsAreOfTheBranch, RecomputedIsBuilt, PassedIsReproduced
<1>6. CASE Rebuild!buildFails
  <2>1. bJobs' \in [Rebuild!Job -> Results]
    BY <1>6 DEF Rebuild!buildFails, Rebuild!Job, Results
  <2> QED
    BY <1>0, <1>6, <2>1, JobStep DEF Rebuild!buildFails, RebuildTyped,
       BuildsAreOfTheBranch, RecomputedIsBuilt, PassedIsReproduced
<1>7. CASE Rebuild!recomputeVkeys
  <2>1. /\ bJobs' \in [Rebuild!Job -> Results] /\ bJobs'["compare"] # "success"
        /\ bJobs'["build"] = "success"
        /\ UNCHANGED <<bMain, bBranch, bBuilds>>
    BY <1>0, <1>7 DEF Rebuild!recomputeVkeys, RebuildTyped, Rebuild!Job, Results
  <2> QED
    BY <1>0, <2>1, JobStep DEF RebuildTyped, BuildsAreOfTheBranch, RecomputedIsBuilt,
       PassedIsReproduced
<1>8. CASE Rebuild!compare
  <2>1. Rebuild!canonicalBuildVerdict(Newest)' = Rebuild!canonicalBuildVerdict(Newest)
    BY <1>8 DEF Rebuild!compare, Newest, Rebuild!canonicalBuildVerdict, Rebuild!IdentityDrift,
       Rebuild!ProcedureDrift, Rebuild!Incomplete, Rebuild!machineOf, Rebuild!AllBuilds
  <2>2. Newest = Rebuild!latestDesignation(bBranch.designations)
    BY DEF Newest
  <2>3. /\ bJobs' \in [Rebuild!Job -> Results]
        /\ bJobs'["build"] = bJobs["build"] /\ bJobs'["recompute"] = "success"
        /\ bJobs'["compare"] = "success" => Rebuild!canonicalBuildVerdict(Newest) = "REPRODUCED"
    BY <1>0, <1>8, <2>2 DEF RebuildTyped, Rebuild!compare, Rebuild!Job, Results
  <2>4. bJobs["build"] = "success"
    BY <1>0, <1>8 DEF Rebuild!compare, RecomputedIsBuilt
  <2>5. RecomputedIsBuilt' /\ PassedIsReproduced'
    BY <2>1, <2>3, <2>4 DEF RecomputedIsBuilt, PassedIsReproduced
  <2> QED
    BY <1>0, <1>8, <2>3, <2>5, JobStep DEF Rebuild!compare, RebuildTyped, BuildsAreOfTheBranch
<1>9. CASE Rebuild!merge
  <2>1. bMain' = [subject |-> bBranch.subject, designations |-> bBranch.designations]
    BY <1>9 DEF Rebuild!merge
  <2>2. bBranch' = [subject |-> bBranch.subject, designations |-> bBranch.designations,
                    touched |-> FALSE]
    BY <1>0, <1>9 DEF Rebuild!merge, RebuildTyped
  <2>3. Newest.subject = bBranch.subject
    BY <1>9 DEF Rebuild!merge, Rebuild!validateDesignationsInRepo, Newest
  <2>4. Newest.output = Rebuild!OutputOf(bBranch.subject)
    <3>1. CASE bBranch.touched
      <4>1. bJobs["compare"] = "success"
        BY <1>9, <3>1 DEF Rebuild!merge, Rebuild!gateProblems, Rebuild!Job
      <4> QED  BY <1>0, <3>1, <4>1, ReproducedIsRight DEF PassedIsReproduced
    <3>2. CASE ~ bBranch.touched
      BY <1>0, <3>2 DEF UntouchedIsMain, Newest, Rebuild!LatestIsOfItsSubject
    <3> QED  BY <3>1, <3>2
  <2>5. Rebuild!latestDesignation(bMain'.designations) = Newest /\ bMain'.subject = bBranch.subject
    BY <2>1 DEF Newest
  <2>6. Rebuild!LatestIsOfItsSubject'
    BY <2>3, <2>4, <2>5 DEF Rebuild!LatestIsOfItsSubject, Rebuild!latestDesignation,
       Rebuild!Last, Rebuild!OutputOf
  <2>7. UntouchedIsMain'
    BY <2>1, <2>2 DEF UntouchedIsMain
  <2>8. /\ bBranch' = [subject |-> bBranch'.subject, designations |-> bBranch'.designations,
                       touched |-> bBranch'.touched]
        /\ bBranch'.touched \in BOOLEAN
    BY <2>2
  <2> QED  BY <1>9, <2>6, <2>7, <2>8, RestartKeeps DEF Rebuild!merge
<1>10. CASE Rebuild!close
  <2>1. Rebuild!LatestIsOfItsSubject'
    BY <1>0, <1>10 DEF Rebuild!close, Rebuild!LatestIsOfItsSubject
  <2> QED
    BY <1>10, <2>1, RestartKeeps DEF Rebuild!close, UntouchedIsMain
<1> QED
  BY <1>1, <1>2, <1>3, <1>4, <1>5, <1>6, <1>7, <1>8, <1>9, <1>10 DEF Rebuild!Next

\* The newest designation on main is of the sources there, and names what they build
\* (sp1-canonical-build.ts:18-20): for any sources, lockfiles, runners and machines,
\* as long as one machine at most is out of order.
THEOREM DesignatedIsBuilt == Spec => []LatestIsOfItsSubject
<1>1. Init => RebuildInv
  BY RebuildStart DEF Init
<1>2. RebuildInv /\ [Next]_all => RebuildInv'
  <2>1. [Next]_all => [Rebuild!Next]_rebuild
    BY DEF Next, all, rebuild
  <2> QED  BY <2>1, RebuildStep
<1>3. RebuildInv => LatestIsOfItsSubject
  BY DEF RebuildInv, LatestIsOfItsSubject
<1> QED  BY <1>1, <1>2, <1>3, PTL DEF Spec, all

-----------------------------------------------------------------------------
(* Acquisition *)

IsObservation(o) ==
    o = [host |-> o.host, machine |-> o.machine, at |-> o.at, script |-> o.script,
         designation |-> o.designation, digests |-> o.digests, archive |-> o.archive,
         inspected |-> o.inspected, census |-> o.census, index |-> o.index,
         crossCheck |-> o.crossCheck]

TreeTyped ==
    /\ qTree = [obs |-> qTree.obs, mirrors |-> qTree.mirrors, record |-> qTree.record,
                availability |-> qTree.availability, exercises |-> qTree.exercises,
                measures |-> qTree.measures, rereads |-> qTree.rereads,
                designation |-> qTree.designation, local |-> qTree.local]
    /\ qTree.obs = [h \in Acquisition!ACQUISITION_HOSTS |-> qTree.obs[h]]
    /\ IsFiniteSet(qTree.mirrors)

\* Whatever host an observation is said to be of, it was made, on its machine.
ObservationsMade ==
    \A h \in Acquisition!ACQUISITION_HOSTS : \A o \in qTree.obs[h] :
        IsObservation(o) /\ [o EXCEPT !.host = o.machine] \in qMade

\* A mirror that is recorded was read.
MirrorsMade ==
    \A m \in qTree.mirrors : 
        /\ m \in qMade /\ m.location \in Location /\ m.object \in MirrorObject \cup {"upstream"}

AcquisitionInv == TreeTyped /\ ObservationsMade /\ MirrorsMade

LEMMA AcquisitionCardinality == \A S : Acquisition!Cardinality(S) = Cardinality(S)
  BY DEF Acquisition!Cardinality, Cardinality

LEMMA ImageIsFinite ==
    ASSUME NEW S, IsFiniteSet(S), NEW f, f = [x \in S |-> f[x]]
    PROVE  IsFiniteSet({f[x] : x \in S})
<1> DEFINE T == {f[x] : x \in S}
<1>1. f \in Surjection(S, T)
  BY DEF Surjection
<1> HIDE DEF T
<1>2. IsFiniteSet(T)
  BY <1>1, FS_Surjection
<1> QED  BY <1>2 DEF T

LEMMA AcquisitionStart == Acquisition!Init => AcquisitionInv
<1> SUFFICES ASSUME Acquisition!Init
             PROVE  AcquisitionInv
  OBVIOUS
<1>1. PICK stage \in FirstStages : qTree = Acquisition!Of(stage)
  BY DEF Acquisition!Init
<1>2. stage \in Acquisition!Stages
  BY <1>1, MirrorsAssumption DEF Acquisition!MirrorAssumption
<1> DEFINE H == Acquisition!ACQUISITION_HOSTS
           None == [h \in H |-> {}]
           Both == [h \in H |-> {Acquisition!Taken(h, IF h = "developer-workstation" THEN -1 ELSE -2)}]
           One == [Both EXCEPT !["github-hosted-runner"] = {}]
           Read == {Acquisition!Reread(CHOOSE l \in Location : ObjectAt[l] = o, -3) : o \in MirrorObject}
<1>3. /\ qTree = [obs |-> qTree.obs, mirrors |-> qTree.mirrors, record |-> qTree.record,
                  availability |-> qTree.availability, exercises |-> qTree.exercises,
                  measures |-> qTree.measures, rereads |-> qTree.rereads,
                  designation |-> qTree.designation, local |-> qTree.local]
      /\ qTree.obs \in {None, Both, One}
      /\ qTree.mirrors \in {{}, Read}
  BY <1>1, <1>2 DEF Acquisition!Of, Acquisition!Stages, Acquisition!Empty, Acquisition!Holds,
     Acquisition!Measured, Acquisition!Mirrored, Acquisition!Recorded, Acquisition!Exercised
<1>4. qTree.obs = [h \in H |-> qTree.obs[h]]
  BY <1>3
<1>5. \A h \in H : qTree.obs[h] \in {{}, Both[h]}
  BY <1>3 DEF Acquisition!ACQUISITION_HOSTS
<1>6. IsFiniteSet(Read)
  <2> DEFINE f == [o \in MirrorObject |-> Acquisition!Reread(CHOOSE l \in Location : ObjectAt[l] = o, -3)]
  <2>1. Read = {f[o] : o \in MirrorObject} /\ f = [o \in MirrorObject |-> f[o]]
    OBVIOUS
  <2>2. IsFiniteSet(MirrorObject)
    BY MirrorsAssumption DEF Acquisition!MirrorAssumption, Acquisition!IsFiniteSet, IsFiniteSet
  <2> HIDE DEF f, Read
  <2>3. IsFiniteSet({f[o] : o \in MirrorObject})
    BY <2>1, <2>2, ImageIsFinite
  <2> QED  BY <2>1, <2>3
<1>7. IsFiniteSet(qTree.mirrors)
  BY <1>3, <1>6, FS_EmptySet
<1>8. ASSUME NEW h \in H, NEW o \in qTree.obs[h]
      PROVE  IsObservation(o) /\ [o EXCEPT !.host = o.machine] \in qMade
  <2>1. o \in Acquisition!observations(qTree)
    BY DEF Acquisition!observations
  <2>2. o \in qMade
    BY <2>1 DEF Acquisition!Init
  <2>3. PICK t : o = Acquisition!Taken(h, t)
    BY <1>5
  <2>4. IsObservation(o) /\ o.host = h /\ o.machine = h
    BY <2>3 DEF Acquisition!Taken, IsObservation
  <2>5. [o EXCEPT !.host = o.machine] = o
    BY <2>4 DEF IsObservation
  <2> QED  BY <2>2, <2>4, <2>5
<1>9. ASSUME NEW m \in qTree.mirrors
      PROVE  m \in qMade /\ m.location \in Location /\ m.object \in MirrorObject \cup {"upstream"}
  <2>1. PICK o \in MirrorObject : m = Acquisition!Reread(CHOOSE l \in Location : ObjectAt[l] = o, -3)
    BY <1>3
  <2>2. LET l == CHOOSE l \in Location : ObjectAt[l] = o
        IN  l \in Location /\ ObjectAt[l] = o
    BY MirrorsAssumption DEF Acquisition!MirrorAssumption
  <2> QED  BY <2>1, <2>2 DEF Acquisition!Init, Acquisition!Reread
<1> QED
  BY <1>3, <1>4, <1>7, <1>8, <1>9 DEF AcquisitionInv, TreeTyped, ObservationsMade, MirrorsMade

\* Where an observation is copied it keeps the machine it was made on.
LEMMA AcquisitionStep == AcquisitionInv /\ Acquisition!Next => AcquisitionInv'
<1> SUFFICES ASSUME AcquisitionInv, Acquisition!Next
             PROVE  AcquisitionInv'
  OBVIOUS
<1> DEFINE H == Acquisition!ACQUISITION_HOSTS
           Kept == qTree' = qTree /\ qMade \subseteq qMade'
           Same == /\ qTree'.obs = qTree.obs /\ qTree'.mirrors = qTree.mirrors
                   /\ qMade \subseteq qMade'
           Whole == qTree' = [obs |-> qTree'.obs, mirrors |-> qTree'.mirrors,
                       record |-> qTree'.record, availability |-> qTree'.availability,
                       exercises |-> qTree'.exercises, measures |-> qTree'.measures,
                       rereads |-> qTree'.rereads, designation |-> qTree'.designation,
                       local |-> qTree'.local]
           OneObs(h) ==
              /\ qTree'.obs = [qTree.obs EXCEPT ![h] = qTree'.obs[h]]
              /\ \A o \in qTree'.obs[h] : IsObservation(o) /\ [o EXCEPT !.host = o.machine] \in qMade'
              /\ qTree'.mirrors = qTree.mirrors /\ qMade \subseteq qMade'
           OneMirror ==
              /\ qTree'.obs = qTree.obs /\ qMade \subseteq qMade'
              /\ \E m : /\ qTree'.mirrors \subseteq qTree.mirrors \cup {m}
                        /\ m \in qMade' /\ m.location \in Location
                        /\ m.object \in MirrorObject \cup {"upstream"}
<1>0. /\ TreeTyped /\ ObservationsMade /\ MirrorsMade
      /\ qTree.obs = [h \in H |-> qTree.obs[h]]
      /\ IsFiniteSet(qTree.mirrors)
  BY DEF AcquisitionInv, TreeTyped
<1>1. CASE Kept
  BY <1>0, <1>1 DEF AcquisitionInv, TreeTyped, ObservationsMade, MirrorsMade
<1>2. CASE Whole /\ Same
  BY <1>0, <1>2 DEF AcquisitionInv, TreeTyped, ObservationsMade, MirrorsMade
<1>3. ASSUME NEW h \in H, Whole, OneObs(h)
      PROVE  AcquisitionInv'
  <2>1. qTree'.obs = [g \in H |-> qTree'.obs[g]]
    BY <1>0, <1>3
  <2>2. \A g \in H : g # h => qTree'.obs[g] = qTree.obs[g]
    BY <1>0, <1>3
  <2>3. ObservationsMade'
    BY <1>0, <1>3, <2>2 DEF ObservationsMade
  <2> QED  BY <1>0, <1>3, <2>1, <2>3 DEF AcquisitionInv, TreeTyped, MirrorsMade
<1>4. CASE Whole /\ OneMirror
  <2>1. PICK m : /\ qTree'.mirrors \subseteq qTree.mirrors \cup {m}
                 /\ m \in qMade' /\ m.location \in Location
                 /\ m.object \in MirrorObject \cup {"upstream"}
    BY <1>4
  <2>2. IsFiniteSet(qTree'.mirrors)
    BY <1>0, <2>1, FS_AddElement, FS_Subset
  <2>3. MirrorsMade'
    BY <1>0, <1>4, <2>1 DEF MirrorsMade
  <2>4. ObservationsMade'
    BY <1>0, <1>4 DEF ObservationsMade
  <2> QED  BY <1>0, <1>4, <2>2, <2>3, <2>4 DEF AcquisitionInv, TreeTyped
<1>5. ASSUME NEW h \in H, NEW o, NEW x,
             qTree' = [qTree EXCEPT !.obs[h] = x], qMade' = qMade \cup o,
             \A p \in x : IsObservation(p) /\ [p EXCEPT !.host = p.machine] \in qMade'
      PROVE  Whole /\ OneObs(h)
  BY <1>0, <1>5 DEF TreeTyped
<1> HIDE DEF Whole
<1> USE DEF Acquisition!edit, Acquisition!step, Acquisition!work
<1>6. CASE Acquisition!upstreamChanges \/ Acquisition!tagMoves \/ Acquisition!commit
  BY <1>1, <1>6 DEF Acquisition!upstreamChanges, Acquisition!tagMoves, Acquisition!commit
<1>7. CASE Acquisition!findLocalCopy \/ Acquisition!designate \/ Acquisition!withdrawRecord
  <2>1. Whole /\ Same
    BY <1>0, <1>7 DEF Whole, TreeTyped, Acquisition!findLocalCopy, Acquisition!designate,
       Acquisition!withdrawRecord
  <2> QED  BY <1>2, <2>1
<1>8. CASE \/ Acquisition!generateArchiveRecord \/ Acquisition!generateProvingAvailability
           \/ Acquisition!exercise
  <2>1. Whole /\ Same
    BY <1>0, <1>8 DEF Whole, TreeTyped, Acquisition!generateArchiveRecord,
       Acquisition!generateProvingAvailability, Acquisition!exercise
  <2> QED  BY <1>2, <2>1
<1>9. ASSUME NEW script \in {"measures", "rereads"}, Acquisition!changeScripts(script)
      PROVE  AcquisitionInv'
  <2>1. Whole /\ Same
    BY <1>0, <1>9 DEF Whole, TreeTyped, Acquisition!changeScripts
  <2> QED  BY <1>2, <2>1
<1>10. ASSUME NEW i, Acquisition!repin(i) \/ Acquisition!withdrawExercise(i)
       PROVE  AcquisitionInv'
  <2>1. Whole /\ Same
    BY <1>0, <1>10 DEF Whole, TreeTyped, Acquisition!repin, Acquisition!withdrawExercise
  <2> QED  BY <1>2, <2>1
<1>11. ASSUME NEW h \in H, NEW a, Acquisition!download(h, a) \/ Acquisition!downloadOver(h, a)
       PROVE  AcquisitionInv'
  BY <1>1, <1>11 DEF Acquisition!download, Acquisition!downloadOver
<1>12. ASSUME NEW o, NEW a, Acquisition!store(o, a)
       PROVE  AcquisitionInv'
  BY <1>1, <1>12 DEF Acquisition!store
<1>13. ASSUME NEW h \in H, NEW later, NEW crossChecked \in BOOLEAN,
              Acquisition!measureAcquisition(h, later, crossChecked)
       PROVE  AcquisitionInv'
  <2>1. PICK o : /\ o.host = h /\ o.machine = h /\ IsObservation(o)
                 /\ qTree' = [qTree EXCEPT !.obs[h] = {o}] /\ qMade' = qMade \cup {o}
    <3> DEFINE inspected == Acquisition!inspects(qCopy[h].archive)
               o == [host |-> h, machine |-> h, at |-> Acquisition!now,
                     script |-> qTree.measures, designation |-> qTree.designation,
                     digests |-> qCopy[h].digests,
                     archive |-> IF inspected THEN qCopy[h].archive ELSE later,
                     inspected |-> inspected, census |-> later, index |-> qTag,
                     crossCheck |-> IF crossChecked THEN qCopy[h].index ELSE Acquisition!None]
    <3>1. qTree' = [qTree EXCEPT !.obs[h] = {o}] /\ qMade' = qMade \cup {o}
      BY <1>13 DEF Acquisition!measureAcquisition
    <3>2. o.host = h /\ o.machine = h /\ IsObservation(o)
      BY DEF IsObservation
    <3> QED  BY <3>1, <3>2
  <2>2. [o EXCEPT !.host = o.machine] = o
    BY <2>1 DEF IsObservation
  <2>3. \A p \in {o} : IsObservation(p) /\ [p EXCEPT !.host = p.machine] \in qMade'
    BY <2>1, <2>2
  <2>4. Whole /\ OneObs(h)
    BY <1>5, <2>1, <2>3
  <2> QED  BY <1>3, <2>4
<1>14. ASSUME NEW h \in H, NEW g \in H, NEW relabelled \in BOOLEAN,
              Acquisition!copyObservation(h, g, relabelled)
       PROVE  AcquisitionInv'
  <2> DEFINE x == {[o EXCEPT !.host = IF relabelled THEN g ELSE @] : o \in qTree.obs[h]}
  <2>1. qTree' = [qTree EXCEPT !.obs[g] = x] /\ qMade' = qMade \cup {}
    BY <1>14 DEF Acquisition!copyObservation
  <2>2. \A p \in x : IsObservation(p) /\ [p EXCEPT !.host = p.machine] \in qMade'
    <3> SUFFICES ASSUME NEW o \in qTree.obs[h]
                 PROVE  LET p == [o EXCEPT !.host = IF relabelled THEN g ELSE @]
                        IN  IsObservation(p) /\ [p EXCEPT !.host = p.machine] \in qMade'
      OBVIOUS
    <3> DEFINE p == [o EXCEPT !.host = IF relabelled THEN g ELSE @]
    <3>1. IsObservation(o) /\ [o EXCEPT !.host = o.machine] \in qMade
      BY <1>0 DEF ObservationsMade
    <3>2. PICK h2 : p = [o EXCEPT !.host = h2]
      OBVIOUS
    <3> HIDE DEF p
    <3>3. p = [host |-> h2, machine |-> o.machine, at |-> o.at, script |-> o.script,
               designation |-> o.designation, digests |-> o.digests, archive |-> o.archive,
               inspected |-> o.inspected, census |-> o.census, index |-> o.index,
               crossCheck |-> o.crossCheck]
      BY <3>1, <3>2 DEF IsObservation
    <3>4. IsObservation(p) /\ p.machine = o.machine
      BY <3>3 DEF IsObservation
    <3>5. [p EXCEPT !.host = p.machine] = [o EXCEPT !.host = o.machine]
      BY <3>1, <3>3 DEF IsObservation
    <3> USE DEF p
    <3> QED  BY <2>1, <3>1, <3>4, <3>5
  <2> HIDE DEF x
  <2>3. Whole /\ OneObs(g)
    BY <1>5, <2>1, <2>2
  <2> QED  BY <1>3, <2>3
<1>15. ASSUME NEW h \in H, Acquisition!withdraw(h)
       PROVE  AcquisitionInv'
  <2>1. qTree' = [qTree EXCEPT !.obs[h] = {}] /\ qMade' = qMade \cup {}
    BY <1>15 DEF Acquisition!withdraw
  <2>2. Whole /\ OneObs(h)
    BY <1>5, <2>1
  <2> QED  BY <1>3, <2>2
<1>16. ASSUME NEW l \in Location, NEW o \in MirrorObject \cup {"upstream"}, NEW expected,
              Acquisition!measureMirror(l, o, expected)
       PROVE  AcquisitionInv'
  <2>1. PICK m : /\ m.object = o /\ m.location = l /\ qMade' = qMade \cup {m}
                 /\ qTree' = [qTree EXCEPT !.mirrors = @ \cup {m}]
    BY <1>16 DEF Acquisition!measureMirror
  <2>2. Whole /\ OneMirror
    BY <1>0, <2>1 DEF Whole, TreeTyped
  <2> QED  BY <1>4, <2>2
<1>17. ASSUME NEW m \in qTree.mirrors, Acquisition!withdrawMirror(m)
       PROVE  AcquisitionInv'
  <2>1. qTree' = [qTree EXCEPT !.mirrors = @ \ {m}] /\ qMade' = qMade
    BY <1>17 DEF Acquisition!withdrawMirror
  <2>2. Whole /\ OneMirror
    BY <1>0, <2>1 DEF Whole, TreeTyped, MirrorsMade
  <2> QED  BY <1>4, <2>2
<1> HIDE DEF Acquisition!edit, Acquisition!step, Acquisition!work
<1> QED
  BY <1>6, <1>7, <1>8, <1>9, <1>10, <1>11, <1>12, <1>13, <1>14, <1>15, <1>16, <1>17
  DEF Acquisition!Next

\* Two that differ are two.
LEMMA TwoAtLeast ==
    ASSUME NEW S, IsFiniteSet(S), NEW a \in S, NEW b \in S, a # b
    PROVE  Cardinality(S) >= 2
<1>1. IsFiniteSet({a}) /\ Cardinality({a}) = 1
  BY FS_Singleton
<1>2. IsFiniteSet({a} \cup {b}) /\ Cardinality({a} \cup {b}) = 2
  <2>1. b \notin {a}
    OBVIOUS
  <2> DEFINE A == {a}
  <2>2. IsFiniteSet(A) /\ Cardinality(A) = 1 /\ b \notin A
    BY <1>1, <2>1
  <2> HIDE DEF A
  <2>3. /\ IsFiniteSet(A \cup {b})
        /\ Cardinality(A \cup {b}) = IF b \in A THEN Cardinality(A) ELSE Cardinality(A) + 1
    BY <2>2, FS_AddElement
  <2>4. IsFiniteSet(A \cup {b}) /\ Cardinality(A \cup {b}) = 2
    BY <2>2, <2>3
  <2> QED  BY <2>4 DEF A
<1>3. {a} \cup {b} \subseteq S
  OBVIOUS
<1>4. Cardinality({a} \cup {b}) <= Cardinality(S) /\ Cardinality(S) \in Nat
  BY <1>3, FS_Subset, FS_CardinalityType
<1> QED  BY <1>2, <1>4

LEMMA MoreThanOne ==
    ASSUME NEW S, IsFiniteSet(S), ~ Cardinality(S) < 2
    PROVE  \E a, b \in S : a # b
<1>1. SUFFICES ASSUME \A a, b \in S : a = b
               PROVE  Cardinality(S) < 2
  OBVIOUS
<1>2. CASE S = {}
  BY <1>2, FS_EmptySet
<1>3. CASE S # {}
  <2>1. PICK a \in S : TRUE
    BY <1>3
  <2>2. S = {a}
    BY <1>1, <2>1
  <2> QED  BY <2>2, FS_Singleton
<1> QED  BY <1>2, <1>3

\* The two observations that count carry the marker of the machine they are said to be of,
\* and name one image; the mirrors are of two objects, since their locations are.
LEMMA AcceptedIsHeld ==
    ASSUME AcquisitionInv, Acquisition!archiveAccepted(qTree), NEW r \in qTree.record
    PROVE  /\ \A h \in Acquisition!ACQUISITION_HOSTS :
                 \E o \in Acquisition!observations(qTree) \cap qMade :
                    /\ o.machine = h /\ o.inspected /\ o.census = Acquisition!Censused
                    /\ o.archive = r.archive /\ o.index = r.index
           /\ Acquisition!Cardinality({o \in MirrorObject :
                 \E m \in qTree.mirrors \cap qMade : m.object = o /\ m.archive = r.archive})
              >= Acquisition!MIN_MIRRORS
<1> DEFINE H == Acquisition!ACQUISITION_HOSTS
           dev == "developer-workstation"
           obs == Acquisition!observations(qTree)
           first == CHOOSE o \in obs : o.host = dev
<1>1. /\ ~ Acquisition!misfiled(qTree) /\ ~ Acquisition!acquisitionErrors(qTree)
      /\ r = Acquisition!deriveArchiveRecord(qTree)
  BY DEF Acquisition!archiveAccepted
<1>2. r.archive = first.archive /\ r.index = first.index
  BY <1>1 DEF Acquisition!deriveArchiveRecord
<1>3. ASSUME NEW h \in H, NEW o \in qTree.obs[h]
      PROVE  /\ o \in obs /\ o.host = h /\ o.machine = h /\ o.inspected
             /\ o.census = Acquisition!Censused /\ o.archive = Acquisition!Censused
             /\ o \in qMade
  <2>1. o \in obs
    BY DEF Acquisition!observations
  <2>2. o.host = h
    BY <1>1 DEF Acquisition!misfiled
  <2>3. ~ Acquisition!acquisitionObservationErrors(o, qTree)
    BY <1>1, <2>1 DEF Acquisition!acquisitionErrors
  <2>4. /\ o.machine = o.host /\ o.inspected
        /\ o.census = Acquisition!Censused /\ o.archive = Acquisition!Censused
    BY <2>3 DEF Acquisition!acquisitionObservationErrors, Acquisition!lacksMarker
  <2>5. IsObservation(o) /\ [o EXCEPT !.host = o.machine] \in qMade
    BY DEF AcquisitionInv, ObservationsMade
  <2>6. [o EXCEPT !.host = o.machine] = o
    BY <2>4, <2>5 DEF IsObservation
  <2> QED  BY <2>1, <2>2, <2>4, <2>5, <2>6
<1>4. first \in obs /\ first.host = dev
  <2>1. {o.host : o \in obs} = H /\ dev \in H
    BY <1>1 DEF Acquisition!acquisitionErrors, Acquisition!ACQUISITION_HOSTS
  <2> QED  BY <2>1
<1>5. first \in qTree.obs[dev] /\ dev \in H
  <2>1. PICK g \in H : first \in qTree.obs[g]
    BY <1>4 DEF Acquisition!observations
  <2>2. g = dev
    BY <1>3, <1>4, <2>1
  <2> QED  BY <2>1, <2>2
<1> HIDE DEF first, obs
<1>6. ASSUME NEW h \in H
      PROVE  \E o \in obs \cap qMade :
                /\ o.machine = h /\ o.inspected /\ o.census = Acquisition!Censused
                /\ o.archive = r.archive /\ o.index = r.index
  <2>1. first.archive = Acquisition!Censused
    BY <1>3, <1>5
  <2>2. CASE h = dev
    BY <1>2, <1>3, <1>5, <2>2
  <2>3. CASE h # dev
    <3>1. PICK o \in qTree.obs[h] : TRUE
      BY <1>1 DEF Acquisition!acquisitionErrors
    <3>2. Acquisition!hostsAgree(first, o)
      BY <1>1, <1>5, <2>3 DEF Acquisition!acquisitionErrors
    <3>3. o.index = first.index
      BY <3>2 DEF Acquisition!hostsAgree
    <3> QED  BY <1>2, <1>3, <2>1, <3>1, <3>3
  <2> QED  BY <2>2, <2>3
<1> DEFINE held == {o \in MirrorObject : \E m \in qTree.mirrors \cap qMade : m.object = o /\ m.archive = r.archive}
<1>7. ASSUME NEW m \in qTree.mirrors
      PROVE  m.object = ObjectAt[m.location] /\ m.object \in held
  <2>1. ~ Acquisition!mirrorObservationErrors(m, qTree)
    BY <1>1 DEF Acquisition!acquisitionErrors
  <2>2. /\ ObjectAt[m.location] # Acquisition!None /\ m.object = ObjectAt[m.location]
        /\ m.archive = Acquisition!Censused
    BY <2>1 DEF Acquisition!mirrorObservationErrors
  <2>3. m \in qMade /\ m.location \in Location /\ m.object \in MirrorObject \cup {"upstream"}
    BY DEF AcquisitionInv, MirrorsMade
  <2>4. m.object # "upstream"
    <3>1. ObjectAt[m.location] \in MirrorObject \cup {Acquisition!None} /\ "upstream" \notin MirrorObject
      BY <2>3, MirrorsAssumption DEF Acquisition!MirrorAssumption
    <3> QED  BY <2>2, <3>1
  <2>5. m.archive = r.archive
    BY <1>2, <1>3, <1>5, <2>2
  <2> QED  BY <2>2, <2>3, <2>4, <2>5
<1>8. Cardinality(held) >= 2
  <2>1. IsFiniteSet(qTree.mirrors)
    BY DEF AcquisitionInv, TreeTyped
  <2>2. ~ Cardinality(qTree.mirrors) < 2
    BY <1>1, AcquisitionCardinality DEF Acquisition!acquisitionErrors, Acquisition!MIN_MIRRORS
  <2>3. PICK m \in qTree.mirrors, n \in qTree.mirrors : m # n
    BY <2>1, <2>2, MoreThanOne
  <2>4. ObjectAt[m.location] # ObjectAt[n.location]
    BY <1>1, <2>3 DEF Acquisition!acquisitionErrors, Acquisition!mirrorIdentity
  <2>5. IsFiniteSet(held)
    <3>1. IsFiniteSet(MirrorObject)
      BY MirrorsAssumption DEF Acquisition!MirrorAssumption, Acquisition!IsFiniteSet, IsFiniteSet
    <3> QED  BY <3>1, FS_Subset
  <2> HIDE DEF held
  <2> QED  BY <1>7, <2>3, <2>4, <2>5, TwoAtLeast
<1> QED  BY <1>6, <1>8, AcquisitionCardinality DEF obs, Acquisition!MIN_MIRRORS

LEMMA AcquisitionHolds == AcquisitionInv => Acquisition!ArchivedIsHeld /\ Acquisition!StatusIsOfState
<1> SUFFICES ASSUME AcquisitionInv
             PROVE  Acquisition!ArchivedIsHeld /\ Acquisition!StatusIsOfState
  OBVIOUS
<1> DEFINE status == Acquisition!provingAvailabilityStatus(qTree)
<1>1. ASSUME status \in {"ARCHIVED_VERIFIED_UNEXERCISED", "SELF_HOSTED_PATH_EXERCISED"}
      PROVE  Acquisition!archiveAccepted(qTree)
  BY <1>1 DEF Acquisition!provingAvailabilityStatus, Acquisition!Evidence,
     Acquisition!archiveEvidenceState, Acquisition!None
<1>2. Acquisition!ArchivedIsHeld
  BY <1>1, AcceptedIsHeld DEF Acquisition!ArchivedIsHeld
<1>3. ASSUME ~ Acquisition!provingAvailabilityErrors(qTree)
      PROVE  /\ status \in Acquisition!availabilityStatusesFor(Acquisition!toolingState(qTree))
             /\ qPublished \subseteq qTree.exercises
             /\ \A a \in qTree.availability : \A x \in a.exercises : {x} = qTree.record
  <2>1. /\ status # Acquisition!None
        /\ qTree.availability = {Acquisition!deriveProvingAvailability(qTree)}
    BY <1>3 DEF Acquisition!provingAvailabilityErrors
  <2>2. Acquisition!exerciseEvidenceState(qTree) # "REFUSED"
    BY <2>1 DEF Acquisition!provingAvailabilityStatus, Acquisition!Evidence
  <2>3. /\ qPublished \subseteq qTree.exercises
        /\ \A x \in qTree.exercises : {x} = qTree.record
    BY <2>2 DEF Acquisition!exerciseEvidenceState
  <2>4. \A a \in qTree.availability : a.exercises = qTree.exercises
    BY <2>1 DEF Acquisition!deriveProvingAvailability
  <2>5. status \in Acquisition!availabilityStatusesFor(Acquisition!toolingState(qTree))
    BY <2>1 DEF Acquisition!provingAvailabilityStatus, Acquisition!toolingState,
       Acquisition!availabilityStatusesFor, Acquisition!Evidence, Acquisition!None
  <2> QED  BY <2>3, <2>4, <2>5
<1>4. Acquisition!StatusIsOfState
  BY <1>3 DEF Acquisition!StatusIsOfState
<1> QED  BY <1>2, <1>4

\* The status of proving rests on archives that two hosts had and that two objects hold, and
\* speaks of the archives and exercises that the tooling speaks of
\* (sp1-proving-availability.ts:490-497, sp1-circuit-tooling.ts:831): for any hosts' copies,
\* locations, objects and number of steps.
THEOREM AvailabilityRestsOnArchives == Spec => []AvailabilityIsTrue
<1>1. Init => AcquisitionInv
  BY AcquisitionStart DEF Init
<1>2. AcquisitionInv /\ [Next]_all => AcquisitionInv'
  <2>1. [Next]_all => Acquisition!Next \/ UNCHANGED acquisition
    BY DEF Next, all, acquisition
  <2>2. AcquisitionInv /\ UNCHANGED acquisition => AcquisitionInv'
    BY DEF acquisition, AcquisitionInv, TreeTyped, ObservationsMade, MirrorsMade
  <2> QED  BY <2>1, <2>2, AcquisitionStep
<1>3. AcquisitionInv => AvailabilityIsTrue
  BY AcquisitionHolds DEF AvailabilityIsTrue, ArchivedIsHeld, StatusIsOfState
<1> QED  BY <1>1, <1>2, <1>3, PTL DEF Spec, all

-----------------------------------------------------------------------------
(* What git walks *)

LEMMA LeastOf ==
    ASSUME NEW T, \A x \in T : x \in Nat, T # {}
    PROVE  \E x \in T : \A y \in T : x <= y
<1>1. IsWellFoundedOn(OpToRel(<, Nat), Nat)
  BY NatLessThanWellFounded
<1>2. T \subseteq Nat
  OBVIOUS
<1>3. PICK x \in T : \A y \in T : ~ (<<y, x>> \in OpToRel(<, Nat))
  BY <1>1, <1>2, WFMin, Zenon
<1>4. \A y \in T : ~ (y < x)
  BY <1>3 DEF OpToRel
<1> QED  BY <1>4

\* A walk collects what is at a commit and what it collects from some of the commits behind
\* it.
Walks(f, N, at, from) == f = [n \in 1..N |-> at[n] \cup UNION {f[p] : p \in from[n]}]

Behind(N, from) == \A n \in 1..N : \A p \in from[n] : p \in 1..(n - 1)

LEMMA WalkExists ==
    ASSUME NEW N \in Nat, NEW at, NEW from, Behind(N, from)
    PROVE  \E f : Walks(f, N, at, from)
<1> DEFINE Bad == {k \in 0..N : ~ \E f : Walks(f, k, at, from)}
<1> SUFFICES ASSUME N \in Bad
             PROVE  FALSE
  OBVIOUS
<1>1. PICK k \in Bad : \A j \in Bad : k <= j
  <2>1. \A x \in Bad : x \in Nat
    OBVIOUS
  <2> HIDE DEF Bad
  <2> QED  BY <2>1, LeastOf
<1>2. k \in Nat /\ k <= N
  OBVIOUS
<1>3. CASE k = 0
  <2> DEFINE f == [n \in 1..0 |-> {}]
  <2>1. Walks(f, 0, at, from)
    BY DEF Walks
  <2> QED  BY <1>3, <2>1
<1>4. CASE k # 0
  <2>1. k - 1 \in 0..N /\ k - 1 \notin Bad
    BY <1>1, <1>2, <1>4
  <2>2. PICK f : Walks(f, k - 1, at, from)
    BY <2>1
  <2> DEFINE g == [n \in 1..k |-> IF n < k THEN f[n] ELSE at[n] \cup UNION {f[p] : p \in from[n]}]
  <2>3. \A n \in 1..k : \A p \in from[n] : p \in 1..(n - 1) /\ g[p] = f[p]
    BY <1>2 DEF Behind
  <2>4. \A n \in 1..k : {g[p] : p \in from[n]} = {f[p] : p \in from[n]}
    BY <2>3
  <2>5. \A n \in 1..k : g[n] = at[n] \cup UNION {g[p] : p \in from[n]}
    <3> SUFFICES ASSUME NEW n \in 1..k
                 PROVE  g[n] = at[n] \cup UNION {g[p] : p \in from[n]}
      OBVIOUS
    <3>1. g[n] = at[n] \cup UNION {f[p] : p \in from[n]}
      <4>1. CASE n < k
        <5>1. n \in 1..(k - 1) /\ g[n] = f[n]
          BY <1>2, <4>1
        <5>2. f[n] = [m \in 1..(k - 1) |-> at[m] \cup UNION {f[p] : p \in from[m]}][n]
          BY <2>2 DEF Walks
        <5> HIDE DEF g
        <5> QED  BY <5>1, <5>2
      <4>2. CASE ~ n < k
        BY <4>2
      <4> QED  BY <4>1, <4>2
    <3> QED  BY <2>4, <3>1
  <2>6. Walks(g, k, at, from)
    <3> DEFINE h == [n \in 1..k |-> at[n] \cup UNION {g[p] : p \in from[n]}]
    <3>1. DOMAIN g = 1..k /\ g = [n \in DOMAIN g |-> g[n]]
      OBVIOUS
    <3>2. \A n \in 1..k : g[n] = h[n]
      BY <2>5
    <3> HIDE DEF g
    <3>3. g = h
      BY <3>1, <3>2
    <3> QED  BY <3>3 DEF Walks
  <2> QED  BY <2>6
<1> QED  BY <1>3, <1>4

\* A walk from a commit sees what is behind it and no more.
LEMMA WalksAgree ==
    ASSUME NEW N \in Nat, NEW at, NEW from, Behind(N, from),
           NEW M \in Nat, N <= M, NEW f, NEW g, Walks(f, N, at, from), NEW at2, NEW from2,
           Walks(g, M, at2, from2), \A n \in 1..N : at2[n] = at[n] /\ from2[n] = from[n]
    PROVE  \A n \in 1..N : g[n] = f[n]
<1> DEFINE Bad == {n \in 1..N : g[n] # f[n]}
<1> SUFFICES ASSUME Bad # {}
             PROVE  FALSE
  OBVIOUS
<1>1. PICK k \in Bad : \A j \in Bad : k <= j
  <2>1. \A x \in Bad : x \in Nat
    OBVIOUS
  <2> HIDE DEF Bad
  <2> QED  BY <2>1, LeastOf
<1>2. k \in 1..N /\ k \in 1..M
  OBVIOUS
<1>3. \A p \in from[k] : g[p] = f[p]
  BY <1>1, <1>2 DEF Behind
<1>4. {g[p] : p \in from[k]} = {f[p] : p \in from[k]}
  BY <1>3
<1>5. f[k] = at[k] \cup UNION {f[p] : p \in from[k]}
  BY <1>2 DEF Walks
<1>6. g[k] = at[k] \cup UNION {g[p] : p \in from[k]}
  BY <1>2 DEF Walks
<1> QED  BY <1>4, <1>5, <1>6

\* A history: every commit's parents are before it.
Parents(cs, n) == {cs[n].parents[i] : i \in DOMAIN cs[n].parents}
Firsts(cs, n) == IF cs[n].parents = <<>> THEN {} ELSE {cs[n].parents[1]}

Ordered(cs) ==
    /\ cs = [n \in 1..Len(cs) |-> cs[n]] /\ Len(cs) \in Nat
    /\ \A n \in 1..Len(cs) :
          /\ cs[n].parents \in Seq(Nat)
          /\ \A p \in Parents(cs, n) : p \in 1..(n - 1)

\* Every commit but the first is on top of one.
Rooted(cs) == \A n \in 1..Len(cs) : n # 1 => Parents(cs, n) # {}

AncestorsIn(cs) ==
    CHOOSE f : f = [n \in DOMAIN cs |-> Parents(cs, n) \cup UNION {f[p] : p \in Parents(cs, n)}]
FirstParentsIn(cs) ==
    CHOOSE f : f = [n \in DOMAIN cs |->
                      {n} \cup IF cs[n].parents = <<>> THEN {} ELSE f[cs[n].parents[1]]]

LEMMA ExerciseWalks == Exercise!ancestors = AncestorsIn(xCommits)
  BY DEF Exercise!ancestors, AncestorsIn, Parents, Exercise!parentsOf

LEMMA ReceiptWalks ==
    /\ Receipt!ancestors = AncestorsIn(iCommits)
    /\ Receipt!firstParents = FirstParentsIn(iCommits)
<1>1. Receipt!ancestors = AncestorsIn(iCommits)
  BY DEF Receipt!ancestors, AncestorsIn, Parents, Receipt!parentsOf
<1>2. Receipt!firstParents = FirstParentsIn(iCommits)
  BY DEF Receipt!firstParents, FirstParentsIn
<1> QED  BY <1>1, <1>2

LEMMA ReceiptWalksNext ==
    /\ Receipt!ancestors' = AncestorsIn(iCommits')
    /\ Receipt!firstParents' = FirstParentsIn(iCommits')
<1>1. Receipt!ancestors' = AncestorsIn(iCommits')
  BY DEF Receipt!ancestors, AncestorsIn, Parents, Receipt!parentsOf
<1>2. Receipt!firstParents' = FirstParentsIn(iCommits')
  BY DEF Receipt!firstParents, FirstParentsIn
<1> QED  BY <1>1, <1>2

LEMMA AncestorsWalk ==
    ASSUME NEW cs, Ordered(cs), NEW from, from = [n \in 1..Len(cs) |-> Parents(cs, n)]
    PROVE  Walks(AncestorsIn(cs), Len(cs), from, from)
<1>1. Behind(Len(cs), from)
  BY DEF Behind, Ordered
<1>2. PICK f : Walks(f, Len(cs), from, from)
  BY <1>1, WalkExists DEF Ordered
<1>3. \A g : Walks(g, Len(cs), from, from) <=>
         g = [n \in DOMAIN cs |-> Parents(cs, n) \cup UNION {g[p] : p \in Parents(cs, n)}]
  <2> SUFFICES ASSUME NEW g
               PROVE  [n \in 1..Len(cs) |-> from[n] \cup UNION {g[p] : p \in from[n]}]
                       = [n \in DOMAIN cs |-> Parents(cs, n) \cup UNION {g[p] : p \in Parents(cs, n)}]
    BY DEF Walks
  <2>1. DOMAIN cs = 1..Len(cs)
    BY DEF Ordered
  <2>2. \A n \in 1..Len(cs) : from[n] = Parents(cs, n)
    OBVIOUS
  <2> QED  BY <2>1, <2>2
<1> QED  BY <1>2, <1>3 DEF AncestorsIn

LEMMA FirstParentsWalk ==
    ASSUME NEW cs, Ordered(cs), NEW at, at = [n \in 1..Len(cs) |-> {n}],
           NEW from, from = [n \in 1..Len(cs) |-> Firsts(cs, n)]
    PROVE  Walks(FirstParentsIn(cs), Len(cs), at, from)
<1>0. \A n \in 1..Len(cs) : cs[n].parents # <<>> => 1 \in DOMAIN cs[n].parents
  BY DEF Ordered
<1>1. Behind(Len(cs), from)
  <2> SUFFICES ASSUME NEW n \in 1..Len(cs), NEW p \in from[n]
               PROVE  p \in 1..(n - 1)
    BY DEF Behind
  <2>1. cs[n].parents # <<>> /\ p = cs[n].parents[1]
    BY DEF Firsts
  <2>2. p \in Parents(cs, n)
    BY <1>0, <2>1 DEF Parents
  <2> QED  BY <2>2 DEF Ordered
<1>2. PICK f : Walks(f, Len(cs), at, from)
  BY <1>1, WalkExists DEF Ordered
<1>3. \A g : Walks(g, Len(cs), at, from) <=>
         g = [n \in DOMAIN cs |-> {n} \cup IF cs[n].parents = <<>> THEN {} ELSE g[cs[n].parents[1]]]
  <2> SUFFICES ASSUME NEW g
               PROVE  [n \in 1..Len(cs) |-> at[n] \cup UNION {g[p] : p \in from[n]}]
                       = [n \in DOMAIN cs |->
                            {n} \cup IF cs[n].parents = <<>> THEN {} ELSE g[cs[n].parents[1]]]
    BY DEF Walks
  <2>1. DOMAIN cs = 1..Len(cs)
    BY DEF Ordered
  <2>2. \A n \in 1..Len(cs) :
           at[n] \cup UNION {g[p] : p \in from[n]}
             = {n} \cup IF cs[n].parents = <<>> THEN {} ELSE g[cs[n].parents[1]]
    BY DEF Firsts
  <2> QED  BY <2>1, <2>2
<1> QED  BY <1>2, <1>3 DEF FirstParentsIn

LEMMA AppendOrdered ==
    ASSUME NEW cs, Ordered(cs), NEW c, c.parents \in Seq(1..Len(cs))
    PROVE  /\ Ordered(Append(cs, c)) /\ Len(Append(cs, c)) = Len(cs) + 1
           /\ Append(cs, c)[Len(cs) + 1] = c
           /\ \A n \in 1..Len(cs) : Append(cs, c)[n] = cs[n]
<1> DEFINE C == {cs[n] : n \in 1..Len(cs)} \cup {c}
           ds == Append(cs, c)
<1>1. cs \in Seq(C)
  <2>1. cs \in [1..Len(cs) -> C] /\ Len(cs) \in Nat
    BY DEF Ordered
  <2> HIDE DEF C
  <2> QED  BY <2>1, SeqDef
<1>2. c \in C /\ Len(cs) \in Nat
  BY DEF Ordered
<1> HIDE DEF C
<1>3. /\ ds \in Seq(C) /\ Len(ds) = Len(cs) + 1
      /\ ds[Len(cs) + 1] = c
      /\ \A n \in 1..Len(cs) : ds[n] = cs[n]
  BY <1>1, <1>2
<1> HIDE DEF ds
<1>4. ds = [n \in 1..Len(ds) |-> ds[n]]
  <2>1. ds \in UNION {[1..m -> C] : m \in Nat}
    BY <1>3, SeqDef
  <2>2. PICK m \in Nat : ds \in [1..m -> C]
    BY <2>1
  <2>3. DOMAIN ds = 1..Len(ds)
    BY <1>3
  <2> QED  BY <2>2, <2>3
<1>5. ASSUME NEW n \in 1..Len(ds)
      PROVE  /\ ds[n].parents \in Seq(Nat)
             /\ \A p \in Parents(ds, n) : p \in 1..(n - 1)
  <2>1. CASE n = Len(cs) + 1
    BY <1>2, <1>3, <2>1 DEF Parents
  <2>2. CASE n # Len(cs) + 1
    <3>1. n \in 1..Len(cs) /\ ds[n] = cs[n]
      BY <1>2, <1>3, <2>2
    <3> QED  BY <3>1 DEF Ordered, Parents
  <2> QED  BY <2>1, <2>2
<1>6. Ordered(ds)
  BY <1>2, <1>3, <1>4, <1>5 DEF Ordered
<1> QED  BY <1>3, <1>6 DEF ds

\* What is behind a commit: its parents and what is behind them.
LEMMA AncestorsUnfold ==
    ASSUME NEW cs, Ordered(cs), NEW n \in 1..Len(cs)
    PROVE  AncestorsIn(cs)[n] = Parents(cs, n) \cup UNION {AncestorsIn(cs)[p] : p \in Parents(cs, n)}
<1> DEFINE from == [m \in 1..Len(cs) |-> Parents(cs, m)]
           A == AncestorsIn(cs)
<1>1. Walks(A, Len(cs), from, from)
  BY AncestorsWalk
<1> HIDE DEF A
<1>2. A[n] = from[n] \cup UNION {A[p] : p \in from[n]}
  BY <1>1 DEF Walks
<1> QED  BY <1>2 DEF A

LEMMA AncestorsBefore ==
    ASSUME NEW cs, Ordered(cs)
    PROVE  \A n \in 1..Len(cs) : \A m \in AncestorsIn(cs)[n] : m \in 1..(n - 1)
<1> DEFINE A == AncestorsIn(cs)
           Bad == {n \in 1..Len(cs) : \E m \in A[n] : m \notin 1..(n - 1)}
<1> SUFFICES ASSUME Bad # {}
             PROVE  FALSE
  OBVIOUS
<1>1. PICK k \in Bad : \A j \in Bad : k <= j
  <2>1. \A x \in Bad : x \in Nat
    OBVIOUS
  <2> HIDE DEF Bad
  <2> QED  BY <2>1, LeastOf
<1>2. PICK m \in A[k] : m \notin 1..(k - 1)
  OBVIOUS
<1>3. A[k] = Parents(cs, k) \cup UNION {A[p] : p \in Parents(cs, k)}
  BY AncestorsUnfold
<1>4. \A p \in Parents(cs, k) : p \in 1..(k - 1)
  BY DEF Ordered
<1>5. PICK p \in Parents(cs, k) : m \in A[p]
  BY <1>2, <1>3, <1>4
<1>6. p \in 1..(k - 1) /\ Len(cs) \in Nat
  BY <1>4 DEF Ordered
<1>7. p \notin Bad /\ p \in 1..Len(cs)
  BY <1>1, <1>6
<1> QED  BY <1>2, <1>5, <1>6, <1>7

LEMMA AncestorsTransitive ==
    ASSUME NEW cs, Ordered(cs)
    PROVE  \A n \in 1..Len(cs) : \A k \in AncestorsIn(cs)[n] :
              AncestorsIn(cs)[k] \subseteq AncestorsIn(cs)[n]
<1> DEFINE A == AncestorsIn(cs)
           Bad == {n \in 1..Len(cs) : \E k \in A[n] : ~ A[k] \subseteq A[n]}
<1> SUFFICES ASSUME Bad # {}
             PROVE  FALSE
  OBVIOUS
<1>1. PICK n \in Bad : \A j \in Bad : n <= j
  <2>1. \A x \in Bad : x \in Nat
    OBVIOUS
  <2> HIDE DEF Bad
  <2> QED  BY <2>1, LeastOf
<1>2. PICK k \in A[n] : ~ A[k] \subseteq A[n]
  OBVIOUS
<1>3. A[n] = Parents(cs, n) \cup UNION {A[p] : p \in Parents(cs, n)}
  BY AncestorsUnfold
<1>4. PICK p \in Parents(cs, n) : k \in A[p]
  BY <1>2, <1>3
<1>5. p \in 1..(n - 1) /\ Len(cs) \in Nat
  BY DEF Ordered
<1>6. p \notin Bad /\ p \in 1..Len(cs)
  BY <1>1, <1>5
<1>7. A[k] \subseteq A[p]
  BY <1>4, <1>6
<1> QED  BY <1>2, <1>3, <1>7

\* What holds on every edge behind a commit holds of all that is behind it.
LEMMA EdgesCarry ==
    ASSUME NEW cs, Ordered(cs), NEW S, NEW n \in 1..Len(cs),
           \A m \in AncestorsIn(cs)[n] \cup {n} : \A p \in Parents(cs, m) : S[p] \subseteq S[m]
    PROVE  \A m \in AncestorsIn(cs)[n] : S[m] \subseteq S[n]
<1> DEFINE A == AncestorsIn(cs)
           Bad == {k \in 1..Len(cs) : k \in A[n] \cup {n} /\ \E m \in A[k] : ~ S[m] \subseteq S[k]}
<1> SUFFICES ASSUME Bad # {}
             PROVE  FALSE
  OBVIOUS
<1>1. PICK k \in Bad : \A j \in Bad : k <= j
  <2>1. \A x \in Bad : x \in Nat
    OBVIOUS
  <2> HIDE DEF Bad
  <2> QED  BY <2>1, LeastOf
<1>2. PICK m \in A[k] : ~ S[m] \subseteq S[k]
  OBVIOUS
<1>3. A[k] = Parents(cs, k) \cup UNION {A[p] : p \in Parents(cs, k)}
  BY AncestorsUnfold
<1>4. \A p \in Parents(cs, k) : S[p] \subseteq S[k]
  OBVIOUS
<1>5. PICK p \in Parents(cs, k) : m \in A[p]
  BY <1>2, <1>3, <1>4
<1>6. p \in 1..(k - 1) /\ Len(cs) \in Nat
  BY DEF Ordered
<1>7. p \in A[n]
  <2>1. CASE k = n
    BY <1>5, <1>3, <2>1
  <2>2. CASE k # n
    <3>1. k \in A[n]
      BY <2>2
    <3>2. A[k] \subseteq A[n]
      BY <3>1, AncestorsTransitive
    <3>3. p \in A[k]
      BY <1>3
    <3> QED  BY <3>2, <3>3
  <2> QED  BY <2>1, <2>2
<1>8. p \notin Bad /\ p \in 1..Len(cs)
  BY <1>1, <1>6
<1>9. S[m] \subseteq S[p]
  BY <1>5, <1>7, <1>8
<1> QED  BY <1>2, <1>4, <1>9

LEMMA JoinedTyped ==
    ASSUME NEW C, NEW s \in Seq(C), NEW t \in Seq(C)
    PROVE  s \o t \in Seq(C) /\ Len(s \o t) = Len(s) + Len(t)
  OBVIOUS

LEMMA ListedIsSeq ==
    ASSUME NEW N \in Nat, NEW s, s = [i \in 1..N |-> s[i]]
    PROVE  s \in Seq({s[i] : i \in 1..N}) /\ Len(s) = N
<1> DEFINE S == {s[i] : i \in 1..N}
<1>1. s \in [1..N -> S]
  OBVIOUS
<1> HIDE DEF S
<1>2. s \in Seq(S)
  BY <1>1, SeqDef
<1>3. Len(s) = N
  BY <1>1, <1>2
<1> QED  BY <1>2, <1>3 DEF S

LEMMA SeqIsListed ==
    ASSUME NEW S, NEW s \in Seq(S)
    PROVE  s = [i \in 1..Len(s) |-> s[i]]
<1>1. s \in UNION {[1..m -> S] : m \in Nat}
  BY SeqDef
<1>2. PICK m \in Nat : s \in [1..m -> S]
  BY <1>1
<1>3. DOMAIN s = 1..Len(s)
  OBVIOUS
<1> QED  BY <1>2, <1>3

LEMMA OneParent ==
    ASSUME NEW cs, NEW n, NEW p \in Nat, cs[n].parents = <<p>>
    PROVE  cs[n].parents \in Seq(Nat) /\ Parents(cs, n) = {p}
<1>1. DOMAIN <<p>> = {1} /\ <<p>>[1] = p /\ <<p>> \in Seq(Nat)
  OBVIOUS
<1> QED  BY <1>1 DEF Parents

\* A line of trees is a history.
Line(trees) ==
    [n \in DOMAIN trees |-> [parents |-> IF n = 1 THEN <<>> ELSE <<n - 1>>, tree |-> trees[n]]]
IsList(s, N) == s = [i \in 1..N |-> s[i]]

LEMMA LinearOrdered ==
    ASSUME NEW N \in Nat, NEW trees, IsList(trees, N)
    PROVE  /\ Ordered(Line(trees)) /\ Rooted(Line(trees)) /\ Len(Line(trees)) = N
           /\ \A n \in 1..N : Line(trees)[n].tree = trees[n]
<1> DEFINE cs == Line(trees)
<1>1. cs = [n \in 1..N |-> cs[n]]
  BY DEF Line, IsList
<1>2. Len(cs) = N
  <2> HIDE DEF cs
  <2> QED  BY <1>1, ListedIsSeq
<1>3. \A n \in 1..N : /\ cs[n].tree = trees[n]
                      /\ cs[n].parents = IF n = 1 THEN <<>> ELSE <<n - 1>>
  BY DEF Line, IsList
<1> HIDE DEF cs
<1>4. ASSUME NEW n \in 1..N
      PROVE  /\ cs[n].parents \in Seq(Nat) /\ \A p \in Parents(cs, n) : p \in 1..(n - 1)
             /\ n # 1 => Parents(cs, n) # {}
  <2>1. CASE n = 1
    <3>1. cs[n].parents = <<>>
      BY <1>3, <2>1
    <3>2. <<>> \in Seq(Nat) /\ DOMAIN <<>> = {}
      OBVIOUS
    <3> QED  BY <2>1, <3>1, <3>2 DEF Parents
  <2>2. CASE n # 1
    <3> DEFINE p == n - 1
    <3>1. cs[n].parents = <<p>> /\ p \in 1..(n - 1) /\ p \in Nat
      <4>1. cs[n].parents = IF n = 1 THEN <<>> ELSE <<n - 1>>
        BY <1>3
      <4>2. cs[n].parents = <<p>>
        BY <2>2, <4>1, Zenon
      <4>3. p \in 1..(n - 1) /\ p \in Nat
        BY <2>2
      <4> QED  BY <4>2, <4>3
    <3> HIDE DEF p
    <3>2. <<p>> \in Seq(Nat) /\ DOMAIN <<p>> = {1} /\ <<p>>[1] = p
      <4>1. p \in Nat
        BY <3>1
      <4> QED  BY <4>1
    <3>3. cs[n].parents \in Seq(Nat)
      BY <3>1, <3>2
    <3>4. Parents(cs, n) # {} /\ \A q \in Parents(cs, n) : q = p
      BY <3>1, <3>2 DEF Parents
    <3> QED  BY <3>1, <3>3, <3>4
  <2> QED  BY <2>1, <2>2
<1> QED  BY <1>1, <1>2, <1>3, <1>4 DEF Ordered, Rooted, cs

-----------------------------------------------------------------------------
(* Exercises of the prover *)

IsRun(f) == f = [kind |-> "run", slot |-> f.slot, run |-> f.run]
IsVerification(f) ==
    f = [kind |-> "verification", slot |-> f.slot, run |-> f.run, slotOfRun |-> f.slotOfRun,
         tool |-> f.tool, accepted |-> f.accepted]

\* A file of a run or of a verification is of a run that was made, and what a verification
\* says is what the verifier said of that run's proof.
Filed(f, made) ==
    \/ f.kind = "record"
    \/ IsRun(f) /\ f.run \in DOMAIN made
    \/ /\ IsVerification(f) /\ f.run \in DOMAIN made
       /\ f.accepted <=> made[f.run].flaw # "proof"

Checkout(t, made) ==
    /\ t = [what \in Exercise!Bound \cup {"files"} |-> t[what]]
    /\ IsFiniteSet(t.files)
    /\ \A f \in t.files : Filed(f, made)

RunsMade(made) ==
    \E R : made \in Seq(R) /\ \A r \in R : r.flaw \in {"none", "egress", "gate", "proof"}

ExerciseInv ==
    /\ Ordered(xCommits) /\ Rooted(xCommits)
    /\ xHead = [b \in Exercise!Branch |-> xHead[b]]
    /\ \A b \in Exercise!Branch : xHead[b] \in 1..Len(xCommits)
    /\ \A n \in 1..Len(xCommits) : Checkout(xCommits[n].tree, xRuns)
    /\ RunsMade(xRuns)

\* More runs do not speak against what is filed.
LEMMA StaysFiled ==
    ASSUME NEW made, NEW more, \A i \in DOMAIN made : i \in DOMAIN more /\ more[i] = made[i],
           NEW f, Filed(f, made)
    PROVE  Filed(f, more)
  BY DEF Filed

LEMMA StepsMade ==
    ASSUME ExerciseInv, NEW b \in Exercise!Branch, NEW tree, Checkout(tree, xRuns'),
           NEW parents \in Seq(1..Len(xCommits)), 1 \in DOMAIN parents,
           Exercise!commitWith(b, parents, tree), RunsMade(xRuns'),
           \A i \in DOMAIN xRuns : i \in DOMAIN xRuns' /\ xRuns'[i] = xRuns[i]
    PROVE  ExerciseInv'
<1> DEFINE c == [parents |-> parents, tree |-> tree]
<1>1. xCommits' = Append(xCommits, c) /\ xHead' = [xHead EXCEPT ![b] = Len(xCommits) + 1]
  BY DEF Exercise!commitWith
<1>2. c.parents = parents /\ c.tree = tree
  OBVIOUS
<1>3. Len(xCommits) \in Nat /\ Ordered(xCommits) /\ Rooted(xCommits)
  BY DEF ExerciseInv, Ordered
<1> HIDE DEF c
<1>4. /\ Ordered(xCommits') /\ Len(xCommits') = Len(xCommits) + 1
      /\ xCommits'[Len(xCommits) + 1] = c
      /\ \A n \in 1..Len(xCommits) : xCommits'[n] = xCommits[n]
  BY <1>1, <1>2, <1>3, AppendOrdered
<1>5. ASSUME NEW n \in 1..Len(xCommits')
      PROVE  Checkout(xCommits'[n].tree, xRuns')
  <2>1. CASE n = Len(xCommits) + 1
    BY <1>2, <1>4, <2>1
  <2>2. CASE n # Len(xCommits) + 1
    <3>1. n \in 1..Len(xCommits) /\ xCommits'[n] = xCommits[n]
      BY <1>3, <1>4, <2>2
    <3>2. Checkout(xCommits[n].tree, xRuns)
      BY <3>1 DEF ExerciseInv
    <3> QED  BY <3>1, <3>2, StaysFiled DEF Checkout
  <2> QED  BY <2>1, <2>2
<1>6. /\ xHead' = [d \in Exercise!Branch |-> xHead'[d]]
      /\ \A d \in Exercise!Branch : xHead'[d] \in 1..Len(xCommits')
  <2>1. /\ xHead = [d \in Exercise!Branch |-> xHead[d]]
        /\ \A d \in Exercise!Branch : xHead[d] \in 1..Len(xCommits)
    BY DEF ExerciseInv
  <2>2. \A d \in Exercise!Branch : xHead'[d] = IF d = b THEN Len(xCommits) + 1 ELSE xHead[d]
    BY <1>1, <2>1
  <2>3. xHead' = [d \in Exercise!Branch |-> xHead'[d]]
    BY <1>1, <2>1
  <2> QED  BY <1>3, <1>4, <2>1, <2>2, <2>3
<1>7. Rooted(xCommits')
  <2>1. ASSUME NEW n \in 1..Len(xCommits'), n # 1
        PROVE  Parents(xCommits', n) # {}
    <3>1. CASE n = Len(xCommits) + 1
      BY <1>2, <1>4, <3>1 DEF Parents
    <3>2. CASE n # Len(xCommits) + 1
      <4>1. n \in 1..Len(xCommits) /\ xCommits'[n] = xCommits[n]
        BY <1>3, <1>4, <3>2
      <4> QED  BY <1>3, <2>1, <4>1 DEF Rooted, Parents
    <3> QED  BY <3>1, <3>2
  <2> QED  BY <2>1 DEF Rooted
<1> QED  BY <1>4, <1>5, <1>6, <1>7 DEF ExerciseInv

\* What is put into a checkout replaces what it replaces.
LEMMA WithFiled ==
    ASSUME NEW t, NEW made, Checkout(t, made), NEW file, Filed(file, made)
    PROVE  Checkout(Exercise!With(t, file), made)
<1> DEFINE files == {f \in t.files : Exercise!Name(f) # Exercise!Name(file)} \cup {file}
<1>1. Exercise!With(t, file) = [t EXCEPT !.files = files]
  BY DEF Exercise!With
<1>2. \A f \in files : Filed(f, made)
  BY DEF Checkout
<1>3. IsFiniteSet(files)
  <2> DEFINE kept == {f \in t.files : Exercise!Name(f) # Exercise!Name(file)}
  <2>1. IsFiniteSet(kept)
    BY FS_Subset DEF Checkout
  <2> HIDE DEF kept
  <2>2. IsFiniteSet(kept \cup {file})
    BY <2>1, FS_AddElement
  <2> QED  BY <2>2 DEF kept
<1> HIDE DEF files
<1> QED  BY <1>1, <1>2, <1>3 DEF Checkout

LEMMA ExerciseStep == ExerciseInv /\ [Exercise!Next]_exercise => ExerciseInv'
<1> SUFFICES ASSUME ExerciseInv, [Exercise!Next]_exercise
             PROVE  ExerciseInv'
  OBVIOUS
<1> USE DEF Exercise!Branch
<1>0. \A b \in Exercise!Branch :
         xHead[b] \in 1..Len(xCommits) /\ Checkout(Exercise!Tree(xHead[b]), xRuns)
  BY DEF ExerciseInv, Exercise!Tree
<1>a. ASSUME NEW b \in Exercise!Branch, NEW tree, Checkout(tree, xRuns'), Exercise!commit(b, tree),
             RunsMade(xRuns'),
             \A i \in DOMAIN xRuns : i \in DOMAIN xRuns' /\ xRuns'[i] = xRuns[i]
      PROVE  ExerciseInv'
  <2>1. <<xHead[b]>> \in Seq(1..Len(xCommits)) /\ 1 \in DOMAIN <<xHead[b]>>
    BY <1>0
  <2> QED  BY <1>a, <2>1, StepsMade DEF Exercise!commit
<1>b. ASSUME NEW b \in Exercise!Branch, NEW tree, Checkout(tree, xRuns), Exercise!commit(b, tree),
             UNCHANGED xRuns
      PROVE  ExerciseInv'
  BY <1>a, <1>b DEF ExerciseInv
<1>1. CASE UNCHANGED exercise
  BY <1>1 DEF exercise, ExerciseInv
<1>2. ASSUME NEW b \in Exercise!Branch, NEW generation \in {"v1", "v2"},
             NEW flaw \in {Exercise!None} \cup Flaw, NEW proof, NEW tool,
             Exercise!measure(b, generation, flaw, proof, tool)
      PROVE  ExerciseInv'
  <2> DEFINE n == Len(xRuns) + 1
             t == Exercise!Tree(xHead[b])
             run == [generation |-> generation, commit |-> xHead[b], tool |-> tool,
                     host |-> t.host, archive |-> t.archive, flaw |-> flaw, proof |-> proof]
             file == [kind |-> "run", slot |-> IF generation = "v1" THEN Exercise!V1 ELSE n, run |-> n]
             tooled == [t EXCEPT ![Exercise!Tool(generation)] = tool]
  <2>1. xRuns' = Append(xRuns, run) /\ Exercise!commit(b, Exercise!With(tooled, file))
    BY <1>2 DEF Exercise!measure
  <2>2. run.flaw \in {"none", "egress", "gate", "proof"}
    BY FlawsAssumption DEF Exercise!FlawAssumption, Exercise!None
  <2>3. PICK R : xRuns \in Seq(R) /\ \A r \in R : r.flaw \in {"none", "egress", "gate", "proof"}
    BY DEF ExerciseInv, RunsMade
  <2> HIDE DEF run
  <2>4. xRuns \in Seq(R \cup {run})
    BY <2>3, SeqMonotonic
  <2>5. /\ xRuns' \in Seq(R \cup {run}) /\ DOMAIN xRuns' = 1..n /\ DOMAIN xRuns = 1..(n - 1)
        /\ n \in Nat \ {0}
        /\ \A i \in DOMAIN xRuns : xRuns'[i] = xRuns[i]
    BY <2>1, <2>4
  <2>6. RunsMade(xRuns')
    BY <2>2, <2>3, <2>5 DEF RunsMade
  <2>7. \A i \in DOMAIN xRuns : i \in DOMAIN xRuns' /\ xRuns'[i] = xRuns[i]
    BY <2>5
  <2>8. Filed(file, xRuns')
    BY <2>5 DEF Filed, IsRun
  <2>9. Checkout(tooled, xRuns')
    <3>1. Checkout(t, xRuns)
      BY <1>0
    <3>2. Exercise!Tool(generation) \in Exercise!Bound /\ "files" \notin Exercise!Bound
      BY DEF Exercise!Tool, Exercise!Bound
    <3>3. tooled.files = t.files /\ tooled = [what \in Exercise!Bound \cup {"files"} |-> tooled[what]]
      BY <3>1, <3>2 DEF Checkout
    <3> HIDE DEF tooled, t
    <3> QED  BY <2>7, <3>1, <3>3, StaysFiled DEF Checkout
  <2> HIDE DEF file, tooled
  <2>10. Checkout(Exercise!With(tooled, file), xRuns')
    BY <2>8, <2>9, WithFiled
  <2> QED  BY <1>a, <2>1, <2>6, <2>7, <2>10
<1>3. ASSUME NEW b \in Exercise!Branch, NEW file \in Exercise!Of("run", Exercise!Tree(xHead[b])),
             Exercise!verify(b, file)
      PROVE  ExerciseInv'
  <2> DEFINE v == Exercise!verificationObservationFor(file, Exercise!Tree(xHead[b]))
  <2>1. file.kind = "run" /\ Filed(file, xRuns)
    BY <1>0 DEF Exercise!Of, Checkout
  <2>2. file.run \in DOMAIN xRuns
    BY <2>1 DEF Filed, IsVerification
  <2>3. /\ v.kind = "verification" /\ v.run = file.run /\ IsVerification(v)
        /\ v.accepted <=> xRuns[file.run].flaw # "proof"
    BY DEF Exercise!verificationObservationFor, Exercise!checksAccept, IsVerification
  <2>4. Filed(v, xRuns)
    BY <2>2, <2>3 DEF Filed
  <2> HIDE DEF v
  <2>5. Checkout(Exercise!With(Exercise!Tree(xHead[b]), v), xRuns)
    BY <1>0, <2>4, WithFiled
  <2> QED  BY <1>3, <1>b, <2>5 DEF Exercise!verify, v
<1>4. ASSUME NEW b \in Exercise!Branch, NEW file, NEW v, Exercise!derivePendingExerciseRecord(b, file, v)
      PROVE  ExerciseInv'
  <2> DEFINE r == Exercise!deriveExerciseRecord(file, v, Exercise!Tree(xHead[b]))
  <2>1. Filed(r, xRuns)
    BY DEF Filed, Exercise!deriveExerciseRecord
  <2> HIDE DEF r
  <2>2. Checkout(Exercise!With(Exercise!Tree(xHead[b]), r), xRuns)
    BY <1>0, <2>1, WithFiled
  <2> QED  BY <1>4, <1>b, <2>2 DEF Exercise!derivePendingExerciseRecord, r
<1>5. ASSUME NEW b \in Exercise!Branch, NEW what \in Exercise!Bound, NEW version,
             Exercise!edit(b, what, version)
      PROVE  ExerciseInv'
  <2> DEFINE t == Exercise!Tree(xHead[b])
             u == [t EXCEPT ![what] = version]
  <2>1. "files" \notin Exercise!Bound
    BY DEF Exercise!Bound
  <2>2. Checkout(t, xRuns)
    BY <1>0
  <2>3. Checkout(u, xRuns)
    BY <2>1, <2>2 DEF Checkout
  <2> QED  BY <1>5, <1>b, <2>3 DEF Exercise!edit
<1>6. ASSUME NEW b \in Exercise!Branch, NEW file, Exercise!remove(b, file)
      PROVE  ExerciseInv'
  <2> DEFINE t == Exercise!Tree(xHead[b])
             u == [t EXCEPT !.files = @ \ {file}]
  <2>1. Checkout(t, xRuns)
    BY <1>0
  <2>2. Checkout(u, xRuns)
    BY <2>1, FS_RemoveElement DEF Checkout
  <2> QED  BY <1>6, <1>b, <2>2 DEF Exercise!remove
<1>7. ASSUME NEW b \in Exercise!Branch, NEW file, NEW slot, Exercise!rename(b, file, slot)
      PROVE  ExerciseInv'
  <2> DEFINE t == Exercise!Tree(xHead[b])
             u == [t EXCEPT !.files = @ \ {file}]
             g == [file EXCEPT !.slot = slot]
  <2>1. Checkout(t, xRuns)
    BY <1>0
  <2>2. Checkout(u, xRuns)
    BY <2>1, FS_RemoveElement DEF Checkout
  <2>3. file.kind # "record" /\ Filed(file, xRuns)
    BY <1>7, <2>1 DEF Exercise!rename, Checkout
  <2>4. Filed(g, xRuns)
    <3>1. CASE IsRun(file) /\ file.run \in DOMAIN xRuns
      <4>1. g = [kind |-> "run", slot |-> slot, run |-> file.run]
        BY <3>1 DEF IsRun
      <4> QED  BY <3>1, <4>1 DEF Filed, IsRun
    <3>2. CASE /\ IsVerification(file) /\ file.run \in DOMAIN xRuns
               /\ file.accepted <=> xRuns[file.run].flaw # "proof"
      <4>1. g = [kind |-> "verification", slot |-> slot, run |-> file.run,
                 slotOfRun |-> file.slotOfRun, tool |-> file.tool, accepted |-> file.accepted]
        BY <3>2 DEF IsVerification
      <4> QED  BY <3>2, <4>1 DEF Filed, IsVerification
    <3> QED  BY <2>3, <3>1, <3>2 DEF Filed
  <2> HIDE DEF u, g
  <2>5. Checkout(Exercise!With(u, g), xRuns)
    BY <2>2, <2>4, WithFiled
  <2> QED  BY <1>7, <1>b, <2>5 DEF Exercise!rename, u, g
<1>8. ASSUME NEW into \in Exercise!Branch, NEW from \in Exercise!Branch, NEW squashed \in BOOLEAN,
             Exercise!merge(into, from, squashed)
      PROVE  ExerciseInv'
  <2> DEFINE tree == Exercise!Merged(xHead[into], xHead[from])
             parents == <<xHead[into]>> \o (IF squashed THEN <<>> ELSE <<xHead[from]>>)
  <2>1. Exercise!commitWith(into, parents, tree) /\ UNCHANGED xRuns
    BY <1>8 DEF Exercise!merge, Exercise!mergeCommit
  <2>2. parents \in Seq(1..Len(xCommits))
    <3>1. <<xHead[into]>> \in Seq(1..Len(xCommits)) /\ <<xHead[from]>> \in Seq(1..Len(xCommits))
      BY <1>0
    <3> DEFINE more == IF squashed THEN <<>> ELSE <<xHead[from]>>
    <3>2. more \in Seq(1..Len(xCommits))
      <4>1. <<>> \in Seq(1..Len(xCommits))
        OBVIOUS
      <4> QED  BY <3>1, <4>1, Zenon
    <3>3. parents = <<xHead[into]>> \o more
      OBVIOUS
    <3> HIDE DEF more, parents
    <3>4. <<xHead[into]>> \o more \in Seq(1..Len(xCommits))
      BY <3>1, <3>2, JoinedTyped, Zenon
    <3> QED  BY <3>3, <3>4, Zenon
  <2>6. 1 \in DOMAIN parents
    BY <1>0
  <2>3. /\ tree = [what \in Exercise!Bound \cup {"files"} |-> tree[what]]
        /\ tree.files \subseteq Exercise!Tree(xHead[into]).files \cup Exercise!Tree(xHead[from]).files
    BY DEF Exercise!Merged, Exercise!MergedFiles
  <2> HIDE DEF tree, parents
  <2>4. Checkout(tree, xRuns)
    <3>1. Checkout(Exercise!Tree(xHead[into]), xRuns) /\ Checkout(Exercise!Tree(xHead[from]), xRuns)
      BY <1>0
    <3>2. IsFiniteSet(tree.files)
      BY <2>3, <3>1, FS_Union, FS_Subset DEF Checkout
    <3> QED  BY <2>3, <3>1, <3>2 DEF Checkout
  <2>5. RunsMade(xRuns)
    BY DEF ExerciseInv
  <2> QED  BY <2>1, <2>2, <2>4, <2>5, <2>6, StepsMade
<1>9. CASE Exercise!newBranch /\ UNCHANGED xRuns
  BY <1>0, <1>9 DEF Exercise!newBranch, ExerciseInv
<1> QED
  BY <1>1, <1>2, <1>3, <1>4, <1>5, <1>6, <1>7, <1>8, <1>9 DEF Exercise!Next

LEMMA FreshFiled ==
    /\ \A made : Checkout(Exercise!Fresh, made)
    /\ \A files, made : IsFiniteSet(files) /\ (\A f \in files : Filed(f, made)) =>
          Checkout([Exercise!Fresh EXCEPT !.files = files], made)
<1>1. Exercise!Fresh = [what \in Exercise!Bound \cup {"files"} |-> Exercise!Fresh[what]]
  BY DEF Exercise!Fresh
<1>2. Exercise!Fresh.files = {} /\ IsFiniteSet({})
  BY FS_EmptySet DEF Exercise!Fresh
<1> QED  BY <1>1, <1>2 DEF Checkout

\* A run, its verification and its record, one after the other.
LEMMA GrownFiled ==
    ASSUME NEW made, NEW slot, NEW n \in DOMAIN made, made[n].flaw = "none", NEW last \in Nat,
           last <= 3
    PROVE  /\ Exercise!Grown(slot, n, last) =
                [i \in 1..last |-> Exercise!Grown(slot, n, last)[i]]
           /\ \A i \in 1..last : Checkout(Exercise!Grown(slot, n, last)[i], made)
<1> DEFINE run == [kind |-> "run", slot |-> slot, run |-> n]
           v == [kind |-> "verification", slot |-> slot, run |-> n, slotOfRun |-> slot,
                 tool |-> 1, accepted |-> TRUE]
           r == Exercise!deriveExerciseRecord(run, v, Exercise!Fresh)
<1>1. Filed(run, made) /\ Filed(v, made) /\ Filed(r, made)
  <2>1. Filed(run, made)
    BY DEF Filed, IsRun
  <2>2. Filed(v, made)
    BY DEF Filed, IsVerification
  <2>3. Filed(r, made)
    BY DEF Filed, Exercise!deriveExerciseRecord
  <2> QED  BY <2>1, <2>2, <2>3
<1>2. Exercise!Steps(slot, n) = <<run, v, r>>
  BY DEF Exercise!Steps
<1> HIDE DEF run, v, r
<1>3. \A j \in 1..3 : Filed(Exercise!Steps(slot, n)[j], made)
  BY <1>1, <1>2
<1> DEFINE files(i) == {Exercise!Steps(slot, n)[j] : j \in 1..i}
<1>4. \A i \in 1..last : Checkout([Exercise!Fresh EXCEPT !.files = files(i)], made)
  <2> SUFFICES ASSUME NEW i \in 1..last
               PROVE  IsFiniteSet(files(i)) /\ \A f \in files(i) : Filed(f, made)
    BY FreshFiled
  <2>1. IsFiniteSet({Exercise!Steps(slot, n)[j] : j \in 1..3})
    <3> DEFINE s == Exercise!Steps(slot, n)
    <3>1. {s[j] : j \in 1..3} = ({s[1]} \cup {s[2]}) \cup {s[3]}
      OBVIOUS
    <3> HIDE DEF s
    <3>2. IsFiniteSet({s[1]}) /\ IsFiniteSet({s[2]}) /\ IsFiniteSet({s[3]})
      BY FS_Singleton
    <3>3. IsFiniteSet(({s[1]} \cup {s[2]}) \cup {s[3]})
      BY <3>2, FS_Union
    <3> QED  BY <3>1, <3>3 DEF s
  <2>2. files(i) \subseteq {Exercise!Steps(slot, n)[j] : j \in 1..3}
    OBVIOUS
  <2> QED  BY <1>3, <2>1, <2>2, FS_Subset
<1>5. Exercise!Grown(slot, n, last) = [i \in 1..last |-> [Exercise!Fresh EXCEPT !.files = files(i)]]
  BY DEF Exercise!Grown
<1> HIDE DEF files
<1> QED  BY <1>4, <1>5

LEMMA RecordedHistory ==
    ASSUME NEW made, 1 \in DOMAIN made, made[1].flaw = "none"
    PROVE  /\ Ordered(Exercise!Recorded) /\ Rooted(Exercise!Recorded)
           /\ Len(Exercise!Recorded) = 4
           /\ \A n \in 1..4 : Checkout(Exercise!Recorded[n].tree, made)
<1> DEFINE grown == Exercise!Grown(Exercise!V1, 1, 3)
           trees == <<Exercise!Fresh>> \o grown
           T == {grown[i] : i \in 1..3} \cup {Exercise!Fresh}
<1>0. 3 \in Nat /\ 3 <= 3 /\ 4 \in Nat
  OBVIOUS
<1>1. grown = [i \in 1..3 |-> grown[i]] /\ \A i \in 1..3 : Checkout(grown[i], made)
  BY <1>0, GrownFiled, Zenon
<1> HIDE DEF grown
<1>2. grown \in Seq(T) /\ Len(grown) = 3
  <2>1. grown \in Seq({grown[i] : i \in 1..3}) /\ Len(grown) = 3
    BY <1>1, ListedIsSeq
  <2> QED  BY <2>1, SeqMonotonic
<1>3. <<Exercise!Fresh>> \in Seq(T) /\ Len(<<Exercise!Fresh>>) = 1
  OBVIOUS
<1>4. \A t \in T : Checkout(t, made)
  BY <1>1, FreshFiled
<1> HIDE DEF T
<1>5. trees \in Seq(T) /\ Len(trees) = Len(<<Exercise!Fresh>>) + Len(grown)
  BY <1>2, <1>3, JoinedTyped, Zenon
<1>6. trees \in Seq(T) /\ Len(trees) = 4
  <2>1. Len(<<Exercise!Fresh>>) + Len(grown) = 4
    BY <1>2, <1>3
  <2> QED  BY <1>5, <2>1, Zenon
<1>7. Exercise!Recorded = Line(trees)
  BY DEF Exercise!Recorded, Exercise!Linear, Line, grown
<1> HIDE DEF trees
<1>8. IsList(trees, 4) /\ \A i \in 1..4 : trees[i] \in T
  <2>1. trees = [i \in 1..Len(trees) |-> trees[i]]
    BY <1>6, SeqIsListed, Zenon
  <2>2. IsList(trees, 4)
    BY <1>6, <2>1 DEF IsList
  <2>3. \A i \in 1..Len(trees) : trees[i] \in T
    BY <1>6, ElementOfSeq, Zenon
  <2> QED  BY <1>6, <2>2, <2>3
<1>9. /\ Ordered(Exercise!Recorded) /\ Rooted(Exercise!Recorded)
      /\ Len(Exercise!Recorded) = 4
      /\ \A n \in 1..4 : Exercise!Recorded[n].tree = trees[n]
  BY <1>0, <1>7, <1>8, LinearOrdered
<1> QED  BY <1>4, <1>8, <1>9

LEMMA VerifiedHistory ==
    ASSUME NEW made, {1, 2} \subseteq DOMAIN made, made[1].flaw = "none", made[2].flaw = "none"
    PROVE  /\ Ordered(Exercise!Verified) /\ Rooted(Exercise!Verified)
           /\ Len(Exercise!Verified) = 6
           /\ \A n \in 1..6 : Checkout(Exercise!Verified[n].tree, made)
<1> DEFINE rec == Exercise!Recorded
           grown == Exercise!Grown(2, 2, 2)
           more == [i \in 1..2 |-> [parents |-> <<IF i = 1 THEN 1 ELSE 5>>, tree |-> grown[i]]]
           all6 == rec \o more
           C == {rec[i] : i \in 1..4} \cup {more[i] : i \in 1..2}
<1>1. /\ Ordered(rec) /\ Rooted(rec) /\ Len(rec) = 4
      /\ \A n \in 1..4 : Checkout(rec[n].tree, made)
  BY RecordedHistory
<1>2. \A i \in 1..2 : Checkout(grown[i], made)
  <2>1. 2 \in Nat /\ 2 <= 3 /\ 2 \in DOMAIN made
    OBVIOUS
  <2> QED  BY <2>1, GrownFiled, Zenon
<1>3. \A i \in 1..2 : more[i].parents = <<IF i = 1 THEN 1 ELSE 5>> /\ more[i].tree = grown[i]
  OBVIOUS
<1>4. more = [i \in 1..2 |-> more[i]]
  OBVIOUS
<1>5. Exercise!Verified = all6
  BY DEF Exercise!Verified
<1> HIDE DEF rec, grown, more
<1>6. rec \in Seq(C)
  <2>1. rec = [i \in 1..4 |-> rec[i]]
    BY <1>1 DEF Ordered
  <2>2. rec \in Seq({rec[i] : i \in 1..4})
    BY <2>1, ListedIsSeq
  <2> QED  BY <2>2, SeqMonotonic
<1>7. more \in Seq(C) /\ Len(more) = 2
  <2>1. more \in Seq({more[i] : i \in 1..2}) /\ Len(more) = 2
    BY <1>4, ListedIsSeq
  <2> QED  BY <2>1, SeqMonotonic
<1> HIDE DEF C
<1>8. /\ all6 \in Seq(C) /\ Len(all6) = Len(rec) + Len(more)
      /\ \A i \in 1..(Len(rec) + Len(more)) :
            all6[i] = IF i <= Len(rec) THEN rec[i] ELSE more[i - Len(rec)]
  BY <1>6, <1>7, ConcatProperties, Zenon
<1> HIDE DEF all6
<1>9. /\ Len(all6) = 6 /\ \A i \in 1..4 : all6[i] = rec[i]
      /\ all6[5] = more[1] /\ all6[6] = more[2]
  BY <1>1, <1>7, <1>8
<1>10. all6 = [i \in 1..6 |-> all6[i]]
  BY <1>8, <1>9, SeqIsListed
<1>11. ASSUME NEW n \in 1..6
       PROVE  /\ all6[n].parents \in Seq(Nat) /\ \A p \in Parents(all6, n) : p \in 1..(n - 1)
              /\ n # 1 => Parents(all6, n) # {}
              /\ Checkout(all6[n].tree, made)
  <2>1. CASE n \in 1..4
    <3>1. all6[n] = rec[n] /\ Parents(all6, n) = Parents(rec, n)
      BY <1>9, <2>1 DEF Parents
    <3>2. n # 1 => Parents(rec, n) # {}
      BY <1>1, <2>1 DEF Rooted
    <3>3. /\ rec[n].parents \in Seq(Nat) /\ \A p \in Parents(rec, n) : p \in 1..(n - 1)
          /\ Checkout(rec[n].tree, made)
      BY <1>1, <2>1 DEF Ordered
    <3> QED  BY <3>1, <3>2, <3>3
  <2>2. CASE n = 5
    <3>1. all6[n].parents = <<1>>
      BY <1>3, <1>9, <2>2
    <3>2. all6[n].parents \in Seq(Nat) /\ Parents(all6, n) = {1}
      BY <3>1, OneParent
    <3>3. Checkout(all6[n].tree, made)
      BY <1>2, <1>3, <1>9, <2>2
    <3>4. n # 1 /\ \A p \in {1} : p \in 1..(n - 1)
      BY <2>2
    <3>5. Parents(all6, n) # {} /\ \A p \in Parents(all6, n) : p \in 1..(n - 1)
      BY <3>2, <3>4
    <3> QED  BY <3>2, <3>3, <3>5, Zenon
  <2>3. CASE n = 6
    <3>1. all6[n].parents = <<5>>
      BY <1>3, <1>9, <2>3
    <3>2. all6[n].parents \in Seq(Nat) /\ Parents(all6, n) = {5}
      BY <3>1, OneParent
    <3>3. Checkout(all6[n].tree, made)
      BY <1>2, <1>3, <1>9, <2>3
    <3>4. n # 1 /\ \A p \in {5} : p \in 1..(n - 1)
      BY <2>3
    <3>5. Parents(all6, n) # {} /\ \A p \in Parents(all6, n) : p \in 1..(n - 1)
      BY <3>2, <3>4
    <3> QED  BY <3>2, <3>3, <3>5, Zenon
  <2> QED  BY <2>1, <2>2, <2>3
<1>12. Ordered(all6)
  BY <1>9, <1>10, <1>11 DEF Ordered
<1>13. Rooted(all6)
  BY <1>9, <1>11 DEF Rooted
<1> QED  BY <1>5, <1>9, <1>11, <1>12, <1>13

LEMMA ExerciseStart == Exercise!Init => ExerciseInv
<1> SUFFICES ASSUME Exercise!Init
             PROVE  ExerciseInv
  OBVIOUS
<1> USE DEF Exercise!Branch
<1>1. CASE /\ xRuns = <<>> /\ xCommits = Exercise!Linear(<<Exercise!Fresh>>)
           /\ xHead = [b \in Exercise!Branch |-> 1]
  <2> DEFINE trees == <<Exercise!Fresh>>
  <2>1. IsList(trees, 1) /\ trees[1] = Exercise!Fresh
    BY DEF IsList
  <2>2. xCommits = Line(trees)
    BY <1>1 DEF Exercise!Linear, Line
  <2> HIDE DEF trees
  <2>3. /\ Ordered(xCommits) /\ Rooted(xCommits) /\ Len(xCommits) = 1
        /\ \A n \in 1..1 : xCommits[n].tree = trees[n]
    BY <2>1, <2>2, LinearOrdered
  <2>4. RunsMade(xRuns)
    <3>1. xRuns \in Seq({})
      BY <1>1
    <3> QED  BY <3>1 DEF RunsMade
  <2> QED  BY <1>1, <2>1, <2>3, <2>4, FreshFiled DEF ExerciseInv
<1> DEFINE run(g, n) == Exercise!RunAt1(g, n)
<1>2. \A g, n : run(g, n).flaw = "none"
  BY DEF Exercise!RunAt1, Exercise!None
<1> HIDE DEF run
<1>3. CASE /\ xRuns = <<run("v1", 1)>> /\ xCommits = Exercise!Recorded
           /\ xHead = [b \in Exercise!Branch |-> 4]
  <2>1. 1 \in DOMAIN xRuns /\ xRuns[1].flaw = "none" /\ xRuns \in Seq({run("v1", 1)})
    BY <1>2, <1>3
  <2>2. RunsMade(xRuns)
    BY <1>2, <2>1 DEF RunsMade
  <2> QED  BY <1>3, <2>1, <2>2, RecordedHistory DEF ExerciseInv
<1>4. CASE /\ xRuns = <<run("v1", 1), run("v2", 2)>> /\ xCommits = Exercise!Verified
           /\ xHead = [b \in Exercise!Branch |-> IF b = "main" THEN 4 ELSE 6]
  <2>1. /\ {1, 2} \subseteq DOMAIN xRuns /\ xRuns[1].flaw = "none" /\ xRuns[2].flaw = "none"
        /\ xRuns \in Seq({run("v1", 1), run("v2", 2)})
    BY <1>2, <1>4
  <2>2. RunsMade(xRuns)
    BY <1>2, <2>1 DEF RunsMade
  <2>3. \A b \in Exercise!Branch : xHead[b] \in 1..6
    BY <1>4
  <2> QED  BY <1>4, <2>1, <2>2, <2>3, VerifiedHistory DEF ExerciseInv
<1> QED  BY <1>1, <1>3, <1>4 DEF Exercise!Init, run

\* Each accepted record was judged on its own.
LEMMA JudgedTookPlace ==
    ASSUME ExerciseInv, NEW n \in 1..Len(xCommits), NEW r \in Exercise!Of("record", Exercise!Tree(n)),
           Exercise!judgeExercise(r, n)
    PROVE  /\ xRuns[r.run].flaw = Exercise!None /\ r.verification.accepted
           /\ Exercise!generationOf(r.slot) = xRuns[r.run].generation
           /\ Exercise!inHistory(xRuns[r.run].commit, n)
           /\ Exercise!Tree(xRuns[r.run].commit)[Exercise!Tool(xRuns[r.run].generation)]
                = Exercise!Tree(n)[Exercise!Tool(xRuns[r.run].generation)]
           /\ Exercise!Tree(xRuns[r.run].commit).archive = Exercise!Tree(n).archive
           /\ Exercise!Tree(xRuns[r.run].commit).host = Exercise!Designated
<1> DEFINE t == Exercise!Tree(n)
<1>1. PICK file \in Exercise!At(r.slot, "run", t), v \in Exercise!At(r.slot, "verification", t) :
         /\ ~ Exercise!Misnamed(file)
         /\ ~ Exercise!exerciseErrors(file, v, t)
         /\ r = Exercise!deriveExerciseRecord(file, v, t)
         /\ Exercise!inHistory(xRuns[file.run].commit, n)
         /\ ~ Exercise!commitContentErrors(xRuns[file.run], t)
  BY DEF Exercise!judgeExercise
<1> DEFINE o == xRuns[file.run]
<1>2. r.run = file.run /\ r.slot = file.slot /\ r.verification = v
  BY <1>1 DEF Exercise!deriveExerciseRecord
<1>3. Checkout(t, xRuns)
  BY DEF ExerciseInv, Exercise!Tree
<1>4. /\ v \in t.files /\ v.kind = "verification" /\ file \in t.files /\ file.kind = "run"
  BY DEF Exercise!At, Exercise!Of
<1>5. v.accepted /\ v.run = file.run /\ ~ Exercise!sharedErrors(o, t)
  BY <1>1 DEF Exercise!exerciseErrors, Exercise!verificationObservationErrors,
              Exercise!runObservationErrors, Exercise!attributedRunObservationErrors
<1>6. o.flaw # "egress" /\ o.flaw # "gate"
  BY <1>5 DEF Exercise!sharedErrors, Exercise!measurementErrors, Exercise!probeErrors
<1>7. v.run \in DOMAIN xRuns /\ (v.accepted <=> xRuns[v.run].flaw # "proof")
  <2>1. Filed(v, xRuns)
    BY <1>3, <1>4 DEF Checkout
  <2>2. ~ IsRun(v)
    BY <1>4 DEF IsRun
  <2> QED  BY <1>4, <2>1, <2>2 DEF Filed
<1>8. o.flaw \in {"none", "egress", "gate", "proof"}
  <2>1. PICK R : xRuns \in Seq(R) /\ \A x \in R : x.flaw \in {"none", "egress", "gate", "proof"}
    BY DEF ExerciseInv, RunsMade
  <2>2. file.run \in 1..Len(xRuns)
    BY <1>5, <1>7, <2>1
  <2>3. o \in R
    BY <2>1, <2>2, ElementOfSeq, Zenon
  <2> QED  BY <2>1, <2>3
<1>9. o.flaw = Exercise!None
  BY <1>5, <1>6, <1>7, <1>8 DEF Exercise!None
<1>10. Exercise!generationOf(r.slot) = o.generation
  BY <1>1, <1>2 DEF Exercise!Misnamed
<1>11. /\ Exercise!Tree(o.commit)[Exercise!Tool(o.generation)] = t[Exercise!Tool(o.generation)]
       /\ Exercise!Tree(o.commit).archive = t.archive
       /\ Exercise!Tree(o.commit).host = Exercise!Designated
  BY <1>1 DEF Exercise!commitContentErrors
<1> QED  BY <1>1, <1>2, <1>5, <1>9, <1>10, <1>11

\* No record that a commit behind an accepted one held is missing or changed.
LEMMA NoRecordLost ==
    ASSUME ExerciseInv, NEW n \in 1..Len(xCommits), ~ Exercise!exerciseHistoryErrors(n)
    PROVE  \A m \in Exercise!ancestors[n] :
              Exercise!Of("record", Exercise!Tree(m)) \subseteq Exercise!Tree(n).files
<1> DEFINE A == AncestorsIn(xCommits)
           Records(m) == Exercise!Of("record", Exercise!Tree(m))
           S == [m \in 1..Len(xCommits) |-> Records(m)]
<1>1. Ordered(xCommits)
  BY DEF ExerciseInv
<1>2. Exercise!ancestors = A
  BY ExerciseWalks
<1>3. \A m \in A[n] : m \in 1..Len(xCommits)
  <2>1. \A m \in A[n] : m \in 1..(n - 1)
    BY <1>1, AncestorsBefore
  <2>2. Len(xCommits) \in Nat
    BY <1>1 DEF Ordered
  <2> QED  BY <2>1, <2>2
<1>4. ASSUME NEW m \in A[n] \cup {n}, NEW p \in Parents(xCommits, m)
      PROVE  S[p] \subseteq S[m]
  <2>1. m \in 1..Len(xCommits)
    BY <1>3
  <2>2. p \in 1..Len(xCommits)
    <3>1. p \in 1..(m - 1) /\ Len(xCommits) \in Nat
      BY <1>1, <2>1 DEF Ordered
    <3> QED  BY <2>1, <3>1
  <2>3. p \in Exercise!parentsOf(m)
    BY DEF Exercise!parentsOf, Parents
  <2>4. Exercise!Of("record", Exercise!Tree(p)) \subseteq Exercise!Tree(m).files
    BY <1>2, <1>4, <2>3, Zenon DEF Exercise!exerciseHistoryErrors
  <2>5. Records(p) \subseteq Records(m)
    BY <2>4 DEF Exercise!Of
  <2> QED  BY <2>1, <2>2, <2>5
<1> HIDE DEF A, S
<1>5. \A m \in A[n] : S[m] \subseteq S[n]
  BY <1>1, <1>4, EdgesCarry DEF A
<1>6. \A m \in A[n] : Records(m) \subseteq Records(n)
  BY <1>3, <1>5 DEF S
<1> QED  BY <1>2, <1>6 DEF Exercise!Of

LEMMA ExerciseHolds == ExerciseInv => Exercise!AcceptedTookPlace
<1> SUFFICES ASSUME ExerciseInv, NEW b \in Exercise!Branch,
                    Exercise!exerciseEvidenceState(xHead[b]) = "ACCEPTED"
             PROVE  LET tree == Exercise!Tree(xHead[b]) IN
                    /\ \A r \in Exercise!Of("record", tree) :
                          LET o == xRuns[r.run] IN
                          /\ o.flaw = Exercise!None /\ r.verification.accepted
                          /\ Exercise!generationOf(r.slot) = o.generation
                          /\ Exercise!inHistory(o.commit, xHead[b])
                          /\ Exercise!Tree(o.commit)[Exercise!Tool(o.generation)]
                               = tree[Exercise!Tool(o.generation)]
                          /\ Exercise!Tree(o.commit).archive = tree.archive
                          /\ Exercise!Tree(o.commit).host = Exercise!Designated
                    /\ \A r, s \in Exercise!Of("record", tree) :
                          r # s => r.run # s.run /\ xRuns[r.run].proof # xRuns[s.run].proof
                    /\ \A n \in Exercise!ancestors[xHead[b]] :
                          Exercise!Of("record", Exercise!Tree(n)) \subseteq tree.files
  BY DEF Exercise!AcceptedTookPlace
<1> DEFINE h == xHead[b]
           Records == Exercise!Of("record", Exercise!Tree(h))
<1>1. h \in 1..Len(xCommits)
  BY DEF ExerciseInv
<1>2. ~ Exercise!productionExerciseErrors(h) /\ Records # {}
  BY DEF Exercise!exerciseEvidenceState
<1>3. /\ ~ Exercise!exerciseHistoryErrors(h)
      /\ \A r \in Records : Exercise!judgeExercise(r, h)
      /\ ~ Exercise!duplicateProofErrors(Exercise!Tree(h))
  BY <1>2 DEF Exercise!productionExerciseErrors
<1>4. \A r, s \in Records : r # s => xRuns[r.run].proof # xRuns[s.run].proof
  BY <1>3 DEF Exercise!duplicateProofErrors
<1>5. \A n \in Exercise!ancestors[h] :
         Exercise!Of("record", Exercise!Tree(n)) \subseteq Exercise!Tree(h).files
  BY <1>1, <1>3, NoRecordLost
<1> HIDE DEF h
<1>6. ASSUME NEW r \in Records
      PROVE  /\ xRuns[r.run].flaw = Exercise!None /\ r.verification.accepted
             /\ Exercise!generationOf(r.slot) = xRuns[r.run].generation
             /\ Exercise!inHistory(xRuns[r.run].commit, h)
             /\ Exercise!Tree(xRuns[r.run].commit)[Exercise!Tool(xRuns[r.run].generation)]
                  = Exercise!Tree(h)[Exercise!Tool(xRuns[r.run].generation)]
             /\ Exercise!Tree(xRuns[r.run].commit).archive = Exercise!Tree(h).archive
             /\ Exercise!Tree(xRuns[r.run].commit).host = Exercise!Designated
  BY <1>1, <1>3, JudgedTookPlace
<1>7. \A r, s \in Records : r # s => r.run # s.run
  BY <1>4
<1> QED  BY <1>4, <1>5, <1>6, <1>7 DEF h

\* An accepted directory is of exercises that took place, as the commit that accepts it would
\* have them, and no record behind it is missing (sp1-proof-exercise.ts:1617-1628): for any
\* flaws, changes of tools, archive and host, and any number of runs, commits and merges.
THEOREM AcceptedExercisesTookPlace == Spec => []AcceptedTookPlace
<1>1. Init => ExerciseInv
  BY ExerciseStart DEF Init
<1>2. ExerciseInv /\ [Next]_all => ExerciseInv'
  <2>1. [Next]_all => [Exercise!Next]_exercise
    BY DEF Next, all, exercise
  <2> QED  BY <2>1, ExerciseStep
<1>3. ExerciseInv => AcceptedTookPlace
  BY ExerciseHolds DEF AcceptedTookPlace
<1> QED  BY <1>1, <1>2, <1>3, PTL DEF Spec, all

-----------------------------------------------------------------------------
(* The receipt of the implementation lane *)

KeptFile == Receipt!File \ Receipt!Bound

TypedTree(t) ==
    /\ t = [f \in Receipt!File |-> t[f]]
    /\ \A f \in KeptFile : t[f] \in Receipt!Holding[f]

\* Whatever is committed holds what its files may hold.
ReceiptTyped ==
    /\ \E C : iCommits \in Seq(C) /\ \A c \in C : TypedTree(c.tree)
    /\ iHead = [b \in Receipt!Branch |-> iHead[b]]
    /\ \A b \in Receipt!Branch : iHead[b] \in DOMAIN iCommits

LEMMA PatchedTyped ==
    ASSUME NEW t, TypedTree(t), NEW patch \in MainPatch \cup LanePatch
    PROVE  TypedTree(Receipt!Patched(t, patch))
<1>1. \A f \in DOMAIN patch : f \in KeptFile /\ patch[f] \in Receipt!Holding[f]
  BY PatchesAssumption DEF Receipt!PatchAssumption, KeptFile
<1>2. KeptFile \subseteq Receipt!File
  BY DEF KeptFile
<1> QED  BY <1>1, <1>2 DEF TypedTree, Receipt!Patched

LEMMA BoundTyped ==
    ASSUME NEW t, TypedTree(t), NEW f \in Receipt!Bound, NEW x
    PROVE  TypedTree([t EXCEPT ![f] = x])
<1>1. f \notin KeptFile
  BY DEF KeptFile
<1> QED  BY <1>1 DEF TypedTree, KeptFile

LEMMA MergedTyped ==
    ASSUME NEW base, NEW ours, NEW theirs, TypedTree(ours), TypedTree(theirs)
    PROVE  TypedTree([f \in Receipt!File |-> Receipt!ThreeWay(base[f], ours[f], theirs[f])])
<1>1. KeptFile \subseteq Receipt!File
  BY DEF KeptFile
<1> QED  BY <1>1 DEF TypedTree, Receipt!ThreeWay

LEMMA FirstTyped == TypedTree(Receipt!First) /\ TypedTree(Receipt!Pinned)
<1>1. TypedTree(Receipt!First)
  <2>1. Receipt!First = [f \in Receipt!File |-> Receipt!First[f]]
    BY DEF Receipt!First
  <2>2. ASSUME NEW f \in KeptFile
        PROVE  Receipt!First[f] \in Receipt!Holding[f]
    BY DEF KeptFile, Receipt!First, Receipt!Holding, Receipt!File, Receipt!Source, Receipt!Rule,
       Receipt!Bound, Receipt!PROTECTED_SUBJECT_PATHS, Receipt!None
  <2> QED  BY <2>1, <2>2 DEF TypedTree
<1>2. "wrapper" \in KeptFile
  BY DEF KeptFile, Receipt!File, Receipt!Bound, Receipt!PROTECTED_SUBJECT_PATHS
<1>5. "pinned" \in Receipt!Holding["wrapper"]
  BY <1>2 DEF KeptFile, Receipt!Holding, Receipt!Source, Receipt!Rule
<1>3. Receipt!Pinned = [Receipt!First EXCEPT !["wrapper"] = "pinned"]
  BY DEF Receipt!Pinned
<1>4. TypedTree(Receipt!Pinned)
  BY <1>1, <1>2, <1>3, <1>5 DEF TypedTree, KeptFile
<1> QED  BY <1>1, <1>4

LEMMA CutTyped ==
    ASSUME NEW C, NEW s \in Seq(C), NEW n \in 0..Len(s)
    PROVE  SubSeq(s, 1, n) \in Seq(C) /\ Len(SubSeq(s, 1, n)) = n
  OBVIOUS

LEMMA IntegratedTyped ==
    \E C : /\ Receipt!Integrated \in Seq(C) /\ Receipt!Overtaken \in Seq(C)
           /\ Len(Receipt!Integrated) = 5 /\ Len(Receipt!Overtaken) = 5
           /\ \A c \in C : TypedTree(c.tree)
<1>1. PICK written, bound :
         /\ TypedTree(written) /\ TypedTree(bound)
         /\ Receipt!Integrated =
              Receipt!Linear(<<Receipt!First, Receipt!Pinned>>) \o
              <<[parents |-> <<2>>, tree |-> written],
                [parents |-> <<1, 3>>, tree |-> written],
                [parents |-> <<4>>, tree |-> bound]>>
  <2>1. \A r : TypedTree([Receipt!Pinned EXCEPT !.receipt = r])
    BY FirstTyped, BoundTyped DEF Receipt!Bound
  <2>2. \A r, k : TypedTree([[Receipt!Pinned EXCEPT !.receipt = r] EXCEPT !.binding = k])
    BY <2>1, BoundTyped DEF Receipt!Bound
  <2> QED  BY <2>1, <2>2 DEF Receipt!Integrated
<1> DEFINE work == Receipt!Linear(<<Receipt!First, Receipt!Pinned>>)
           lane == <<[parents |-> <<2>>, tree |-> written],
                     [parents |-> <<1, 3>>, tree |-> written],
                     [parents |-> <<4>>, tree |-> bound]>>
           trees == {Receipt!First, Receipt!Pinned, written, bound}
           D == {[parents |-> p, tree |-> t] :
                   p \in {<<>>, <<1>>, <<2>>, <<1, 3>>, <<4>>, <<3, 4>>}, t \in trees}
<1>2. work \in Seq(D) /\ Len(work) = 2
  <2>1. \A x, y : Len(<<x, y>>) = 2 /\ DOMAIN <<x, y>> = 1..2 /\ <<x, y>>[1] = x /\ <<x, y>>[2] = y
    OBVIOUS
  <2>2. /\ work = [n \in 1..2 |-> [parents |-> IF n = 1 THEN <<>> ELSE <<n - 1>>,
                                   tree |-> <<Receipt!First, Receipt!Pinned>>[n]]]
    BY <2>1 DEF Receipt!Linear
  <2>3. \A n \in 1..2 : work[n] \in D
    BY <2>1, <2>2
  <2> HIDE DEF work, D
  <2> QED  BY <2>2, <2>3
<1>3. \A c \in D : TypedTree(c.tree)
  BY <1>1, FirstTyped
<1>4. lane \in Seq(D) /\ Len(lane) = 3
  <2>1. /\ [parents |-> <<2>>, tree |-> written] \in D
        /\ [parents |-> <<1, 3>>, tree |-> written] \in D
        /\ [parents |-> <<4>>, tree |-> bound] \in D
    OBVIOUS
  <2> HIDE DEF D
  <2> QED  BY <2>1
<1>a. Receipt!Integrated = work \o lane
  BY <1>1
<1> HIDE DEF work, lane, D, trees
<1>5. Receipt!Integrated \in Seq(D) /\ Len(Receipt!Integrated) = 5
  <2>1. work \o lane \in Seq(D) /\ Len(work \o lane) = Len(work) + Len(lane)
    BY <1>2, <1>4, JoinedTyped, Zenon
  <2>2. Len(work) + Len(lane) = 5
    BY <1>2, <1>4
  <2> QED  BY <1>a, <2>1, <2>2, Zenon
<1>6. TypedTree(Receipt!Integrated[3].tree)
  <2>1. Receipt!Integrated[3] \in D
    BY <1>5
  <2> QED  BY <1>3, <2>1
<1> DEFINE begun == SubSeq(Receipt!Integrated, 1, 3)
           rest == <<[parents |-> <<1>>, tree |-> Receipt!Pinned],
                     [parents |-> <<3, 4>>, tree |-> Receipt!Integrated[3].tree]>>
           E == D \cup {[parents |-> <<1>>, tree |-> Receipt!Pinned],
                        [parents |-> <<3, 4>>, tree |-> Receipt!Integrated[3].tree]}
<1>7. Receipt!Overtaken = begun \o rest
  BY DEF Receipt!Overtaken
<1>8. rest \in Seq(E) /\ Len(rest) = 2
  OBVIOUS
<1>9. \A c \in E : TypedTree(c.tree)
  BY <1>3, <1>6, FirstTyped
<1>10. Receipt!Integrated \in Seq(E)
  <2>1. D \subseteq E
    OBVIOUS
  <2> HIDE DEF E
  <2> QED  BY <1>5, <2>1, SeqMonotonic
<1> HIDE DEF E, rest
<1>11. begun \in Seq(E) /\ Len(begun) = 3
  <2>1. 3 \in 0..Len(Receipt!Integrated)
    BY <1>5
  <2> QED  BY <1>10, <2>1, CutTyped, Zenon
<1> HIDE DEF begun
<1>12. Receipt!Overtaken \in Seq(E) /\ Len(Receipt!Overtaken) = 5
  <2>1. begun \o rest \in Seq(E) /\ Len(begun \o rest) = Len(begun) + Len(rest)
    BY <1>8, <1>11, JoinedTyped, Zenon
  <2>2. Len(begun) + Len(rest) = 5
    BY <1>8, <1>11
  <2> QED  BY <1>7, <2>1, <2>2, Zenon
<1> QED  BY <1>5, <1>9, <1>10, <1>12

LEMMA ReceiptStart == Receipt!Init => ReceiptTyped
<1> SUFFICES ASSUME Receipt!Init
             PROVE  ReceiptTyped
  OBVIOUS
<1>1. PICK C : /\ Receipt!Integrated \in Seq(C) /\ Receipt!Overtaken \in Seq(C)
               /\ Len(Receipt!Integrated) = 5 /\ Len(Receipt!Overtaken) = 5
               /\ \A c \in C : TypedTree(c.tree)
  BY IntegratedTyped
<1>2. /\ iCommits \in Seq(C) /\ iHead = [b \in Receipt!Branch |-> iHead[b]]
      /\ \A b \in Receipt!Branch : iHead[b] \in DOMAIN iCommits
  <2>1. ASSUME NEW last \in {2, 3, 5}, iCommits = SubSeq(Receipt!Integrated, 1, last),
               iHead = [b \in Receipt!Branch |-> IF b = "main" /\ last < 5 THEN 1 ELSE last]
        PROVE  /\ iCommits \in Seq(C) /\ iHead = [b \in Receipt!Branch |-> iHead[b]]
               /\ \A b \in Receipt!Branch : iHead[b] \in DOMAIN iCommits
    <3>1. iCommits \in Seq(C) /\ Len(iCommits) = last
      BY <1>1, <2>1
    <3>2. DOMAIN iCommits = 1..last
      BY <3>1
    <3> QED  BY <2>1, <3>1, <3>2
  <2>2. ASSUME iCommits = Receipt!Overtaken,
               iHead = [b \in Receipt!Branch |-> IF b = "main" THEN 4 ELSE 5]
        PROVE  /\ iCommits \in Seq(C) /\ iHead = [b \in Receipt!Branch |-> iHead[b]]
               /\ \A b \in Receipt!Branch : iHead[b] \in DOMAIN iCommits
    <3>1. DOMAIN iCommits = 1..5
      BY <1>1, <2>2
    <3> QED  BY <1>1, <2>2, <3>1
  <2> QED  BY <2>1, <2>2 DEF Receipt!Init
<1> QED  BY <1>1, <1>2 DEF ReceiptTyped

\* A commit on a branch of a tree that holds what it may.
LEMMA CommittedTyped ==
    ASSUME ReceiptTyped, NEW b \in Receipt!Branch, NEW parents, NEW tree, TypedTree(tree),
           Receipt!commitWith(b, parents, tree)
    PROVE  ReceiptTyped'
<1>1. PICK C : iCommits \in Seq(C) /\ \A c \in C : TypedTree(c.tree)
  BY DEF ReceiptTyped
<1> DEFINE new == [parents |-> parents, tree |-> tree]
           D == C \cup {new}
<1>2. iCommits' = Append(iCommits, new) /\ iHead' = [iHead EXCEPT ![b] = Len(iCommits) + 1]
  BY DEF Receipt!commitWith
<1>3. new.tree = tree
  OBVIOUS
<1> HIDE DEF new
<1>4. iCommits \in Seq(D)
  BY <1>1
<1>5. iCommits' \in Seq(D) /\ Len(iCommits') = Len(iCommits) + 1 /\ Len(iCommits) \in Nat
  BY <1>2, <1>4
<1>6. \A c \in D : TypedTree(c.tree)
  BY <1>1, <1>3
<1>7. DOMAIN iCommits = 1..Len(iCommits) /\ DOMAIN iCommits' = 1..(Len(iCommits) + 1)
  BY <1>4, <1>5
<1>8. /\ iHead = [c \in Receipt!Branch |-> iHead[c]]
      /\ \A c \in Receipt!Branch : iHead[c] \in 1..Len(iCommits)
  BY <1>7 DEF ReceiptTyped
<1>9. /\ iHead' = [c \in Receipt!Branch |-> iHead'[c]]
      /\ \A c \in Receipt!Branch : iHead'[c] \in 1..(Len(iCommits) + 1)
  BY <1>2, <1>5, <1>8
<1> HIDE DEF D
<1> QED  BY <1>5, <1>6, <1>7, <1>9 DEF ReceiptTyped

LEMMA HeadTyped ==
    ASSUME ReceiptTyped, NEW n \in DOMAIN iCommits
    PROVE  TypedTree(Receipt!Tree(n))
<1>1. PICK C : iCommits \in Seq(C) /\ \A c \in C : TypedTree(c.tree)
  BY DEF ReceiptTyped
<1>2. iCommits[n] \in C
  BY <1>1
<1> QED  BY <1>1, <1>2 DEF Receipt!Tree

LEMMA ReceiptStep == ReceiptTyped /\ [Receipt!Next]_receipt => ReceiptTyped'
<1> SUFFICES ASSUME ReceiptTyped, [Receipt!Next]_receipt
             PROVE  ReceiptTyped'
  OBVIOUS
<1>0. \A b \in Receipt!Branch : iHead[b] \in DOMAIN iCommits /\ TypedTree(Receipt!Tree(iHead[b]))
  BY HeadTyped DEF ReceiptTyped
<1>a. ASSUME NEW b \in Receipt!Branch, NEW tree, TypedTree(tree), Receipt!commit(b, tree)
      PROVE  ReceiptTyped'
  BY <1>a, CommittedTyped DEF Receipt!commit
<1>b. ASSUME NEW b \in Receipt!Branch, NEW f \in Receipt!Bound, NEW x,
             Receipt!commit(b, [Receipt!Tree(iHead[b]) EXCEPT ![f] = x])
      PROVE  ReceiptTyped'
  BY <1>0, <1>a, <1>b, BoundTyped
<1> USE DEF Receipt!Branch, Receipt!Bound
<1>1. CASE UNCHANGED receipt
  BY <1>1 DEF receipt, ReceiptTyped
<1>2. ASSUME NEW base, Receipt!generate(base)
      PROVE  ReceiptTyped'
  BY <1>b, <1>2 DEF Receipt!generate
<1>3. ASSUME NEW b \in Receipt!Branch, Receipt!integrate(b)
      PROVE  ReceiptTyped'
  BY <1>b, <1>3 DEF Receipt!integrate
<1>4. ASSUME NEW b \in Receipt!Branch, Receipt!supersede(b)
      PROVE  ReceiptTyped'
  BY <1>b, <1>4 DEF Receipt!supersede
<1>5. ASSUME NEW b \in Receipt!Branch, NEW patch \in MainPatch \cup LanePatch,
             Receipt!change(b, patch)
      PROVE  ReceiptTyped'
  <2>1. TypedTree(Receipt!Patched(Receipt!Tree(iHead[b]), patch))
    BY <1>0, PatchedTyped
  <2> QED  BY <1>a, <1>5, <2>1 DEF Receipt!change
<1>6. ASSUME NEW f \in Receipt!Bound, Receipt!withdraw("main", f)
      PROVE  ReceiptTyped'
  BY <1>b, <1>6 DEF Receipt!withdraw
<1>7. ASSUME NEW f \in Receipt!Bound, NEW n, Receipt!restore("main", f, n)
      PROVE  ReceiptTyped'
  BY <1>b, <1>7 DEF Receipt!restore
<1>8. ASSUME NEW into \in Receipt!Branch, NEW from \in Receipt!Branch, NEW squashed,
             Receipt!merge(into, from, squashed)
      PROVE  ReceiptTyped'
  <2> DEFINE base == Receipt!Tree(Receipt!mergeBase(iHead[into], iHead[from]))
             tree == [f \in Receipt!File |->
                        Receipt!ThreeWay(base[f], Receipt!Tree(iHead[into])[f],
                                         Receipt!Tree(iHead[from])[f])]
  <2>1. TypedTree(tree)
    BY <1>0, MergedTyped
  <2>2. PICK parents : Receipt!commitWith(into, parents, tree)
    BY <1>8 DEF Receipt!merge, Receipt!mergeCommit
  <2> HIDE DEF tree
  <2> QED  BY <2>1, <2>2, CommittedTyped
<1>9. CASE Receipt!newBranch
  BY <1>0, <1>9 DEF Receipt!newBranch, ReceiptTyped
<1> QED
  BY <1>1, <1>2, <1>3, <1>4, <1>5, <1>6, <1>7, <1>8, <1>9 DEF Receipt!Next

\* What a receipt is taken for: it is bound to the merge it entered main with, nothing it
\* protects moved since, and it is what its tree derives.
LEMMA TakenIsDerived ==
    ASSUME NEW n, ~ Receipt!implReceiptErrors(n), NEW r \in Receipt!Tree(n).receipt,
           NEW k \in Receipt!Tree(n).binding
    PROVE  /\ k.merge = Receipt!Entry /\ k.reviewed = iCommits[k.merge].parents[2]
           /\ Receipt!Tree(k.merge) = Receipt!Tree(k.reviewed)
           /\ Receipt!BaseHolds(k.merge)
           /\ \A f \in Receipt!PROTECTED_SUBJECT_PATHS \cup {"receipt"} :
                 Receipt!Tree(n)[f] = Receipt!Tree(k.merge)[f]
           /\ ~ Receipt!invalidSupersession(n)
           /\ Receipt!Tree(n).receipt = {r}
           /\ r = Receipt!deriveImplReceipt(
                     Receipt!readImplReceiptInputs(n, k.base, Receipt!boundSupersession(n)))
<1>1. /\ ~ Receipt!receiptIntegrationErrors(n)
      /\ \A d \in Receipt!deriveReceiptIntegration :
            /\ ~ Receipt!descendantDriftErrors(n, d.merge)
            /\ ~ Receipt!invalidSupersession(n)
            /\ ~ Receipt!compareReceipt(n, Receipt!deriveImplReceipt(
                     Receipt!readImplReceiptInputs(n, d.base, Receipt!boundSupersession(n))))
  BY DEF Receipt!implReceiptErrors
<1>2. k \in Receipt!deriveReceiptIntegration
  BY <1>1 DEF Receipt!receiptIntegrationErrors
<1>3. /\ k.merge = Receipt!Entry /\ k.reviewed = iCommits[k.merge].parents[2]
      /\ Receipt!Tree(k.merge) = Receipt!Tree(k.reviewed)
      /\ Receipt!BaseHolds(k.merge)
  BY <1>2 DEF Receipt!deriveReceiptIntegration
<1>4. \A f \in Receipt!PROTECTED_SUBJECT_PATHS \cup {"receipt"} :
         Receipt!Tree(n)[f] = Receipt!Tree(k.merge)[f]
  <2> DEFINE paths == Receipt!PROTECTED_SUBJECT_PATHS \cup {"receipt"}
  <2>1. Receipt!protectedAt(n, paths) = Receipt!protectedAt(k.merge, paths)
    BY <1>1, <1>2 DEF Receipt!descendantDriftErrors
  <2>2. \A f \in paths : Receipt!protectedAt(n, paths)[f] = Receipt!protectedAt(k.merge, paths)[f]
    BY <2>1
  <2> QED  BY <2>2 DEF Receipt!protectedAt
<1>5. /\ ~ Receipt!invalidSupersession(n)
      /\ Receipt!Tree(n).receipt =
            {Receipt!deriveImplReceipt(
               Receipt!readImplReceiptInputs(n, k.base, Receipt!boundSupersession(n)))}
  BY <1>1, <1>2 DEF Receipt!compareReceipt
<1> QED  BY <1>3, <1>4, <1>5

LEMMA TakenHasABinding ==
    ASSUME NEW n, ~ Receipt!implReceiptErrors(n)
    PROVE  Receipt!Tree(n).binding # {}
  BY DEF Receipt!implReceiptErrors, Receipt!receiptIntegrationErrors

\* What says that it is built and tested is derived of a tree in which no rule is open, every
\* record is valid, and the wrapper is the pinned one.
LEMMA BuiltIsSound ==
    ASSUME NEW n, TypedTree(Receipt!Tree(n)), NEW base, NEW historical,
           Receipt!deriveImplReceipt(Receipt!readImplReceiptInputs(n, base, historical)).verdict
              = Receipt!BUILT
    PROVE  /\ \A rule \in Receipt!Rule : Receipt!Tree(n)[rule] = "sound"
           /\ \A s \in Receipt!Source : Receipt!Tree(n)[s] = "valid"
           /\ Receipt!Tree(n).wrapper = "pinned"
<1> DEFINE i == Receipt!readImplReceiptInputs(n, base, historical)
           t == Receipt!Tree(n)
           a == Receipt!wrapperAstFacts(t)
<1>1. /\ i.tree = t /\ i.ast = a
      /\ i.journalTypesAtBase = Receipt!wrapperAstFacts(Receipt!Tree(base)).journalTypes
      /\ i.contractsChanged = Receipt!contractsChangedSince(base, t)
  BY DEF Receipt!readImplReceiptInputs
<1>2. Receipt!verdict(Receipt!stopConditions(i), Receipt!recordFailures(i)) = Receipt!BUILT
  BY DEF Receipt!deriveImplReceipt
<1> HIDE DEF i, t, a
<1>3. Receipt!stopConditions(i) = {} /\ Receipt!recordFailures(i) = {}
  BY <1>2 DEF Receipt!verdict, Receipt!BUILT
<1>4. \A s \in Receipt!Source : t[s] # "invalid"
  BY <1>1, <1>3 DEF Receipt!recordFailures
<1>5. /\ t.CANONICAL_REBUILD # "drift" /\ t.CHAIN_EXECUTION # "diverges"
      /\ a.constructorPinsCodehash
      /\ Receipt!probeOverrides(t) /\ Receipt!probeRegistryHistory(t)
      /\ ~ Receipt!rulesetInput(t).gaps
      /\ Receipt!probeIdentityReuse(t) /\ Receipt!probeHaltedIdentityElsewhere(t)
      /\ Receipt!probeFinalityReads(t)
      /\ i.contractsChanged = Receipt!LANE_CONTRACT_CHANGES
      /\ Receipt!F1_CHAIN_ID_FIX(i) # "PROOF_FORMAT_CHANGED"
      /\ Receipt!TD2_HALT_INVARIANTS_PRESERVED(i) \notin {"WEAKENED", "CHANGED_OUTSIDE_THE_WRAPPER"}
  BY <1>1, <1>3 DEF Receipt!stopConditions
<1>6. t.plan = "sound" /\ t.registry = "sound" /\ t.designations = "sound" /\ t.walk = "sound"
      /\ t.reads = "sound"
  BY <1>5 DEF Receipt!probeOverrides, Receipt!probeRegistryHistory, Receipt!probeIdentityReuse,
     Receipt!probeHaltedIdentityElsewhere, Receipt!probeFinalityReads, Receipt!passed
<1>7. ASSUME NEW s \in Receipt!Source
      PROVE  t[s] = "valid"
  <2>1. t[s] \in Receipt!Holding[s]
    BY DEF TypedTree, KeptFile, Receipt!File, Receipt!Source, Receipt!Bound, t
  <2>2. Receipt!Holding[s] =
          {"valid", "invalid"} \cup
              (CASE s = "CANONICAL_REBUILD" -> {"drift"}
                 [] s = "CHAIN_EXECUTION" -> {"diverges"}
                 [] s = "RULESET" -> {"gaps"}
                 [] OTHER -> {})
    BY DEF Receipt!Holding, Receipt!File, Receipt!Source, Receipt!Bound, Receipt!Rule
  <2>3. t.RULESET # "gaps"
    BY <1>5 DEF Receipt!rulesetInput
  <2>4. t[s] \in {"valid", "drift", "diverges", "gaps"}
    BY <1>4, <2>1, <2>2
  <2>5. CASE s = "CANONICAL_REBUILD"
    BY <1>4, <1>5, <2>1, <2>2, <2>5
  <2>6. CASE s = "CHAIN_EXECUTION"
    BY <1>4, <1>5, <2>1, <2>2, <2>6
  <2>7. CASE s = "RULESET"
    BY <1>4, <2>1, <2>2, <2>3, <2>7
  <2> QED  BY <1>4, <2>1, <2>2, <2>5, <2>6, <2>7
<1>8. t.wrapper = "pinned"
  <2>1. t.wrapper \in {"unpinned", "pinned", "unhalted", "rejournaled"}
    <3>1. "wrapper" \in KeptFile
      BY DEF KeptFile, Receipt!File, Receipt!Bound, Receipt!PROTECTED_SUBJECT_PATHS
    <3>2. Receipt!Holding["wrapper"] = {"unpinned", "pinned", "unhalted", "rejournaled"}
      BY <3>1 DEF KeptFile, Receipt!Holding, Receipt!Source, Receipt!Rule
    <3> QED  BY <3>1, <3>2 DEF TypedTree, t
  <2>2. t.wrapper # "unpinned"
    BY <1>5 DEF a, Receipt!wrapperAstFacts
  <2>3. t.wrapper # "unhalted"
    <3>1. i.ast.verifyChecksHaltFirst
      BY <1>5 DEF Receipt!TD2_HALT_INVARIANTS_PRESERVED
    <3>2. a.verifyChecksHaltFirst <=> t.wrapper # "unhalted"
      BY DEF a, Receipt!wrapperAstFacts
    <3> QED  BY <1>1, <3>1, <3>2
  <2>4. t.wrapper # "rejournaled"
    <3> SUFFICES ASSUME t.wrapper = "rejournaled"
                 PROVE  FALSE
      OBVIOUS
    <3>1. Receipt!Tree(base).wrapper # t.wrapper
      BY <1>1, <1>5 DEF Receipt!contractsChangedSince, Receipt!LANE_CONTRACT_CHANGES
    <3>2. i.journalTypesAtBase = "uint64"
      BY <1>1, <3>1 DEF Receipt!wrapperAstFacts
    <3>3. a.journalTypes = "uint256" /\ a.chainIdComparedFullWidth
      BY DEF a, Receipt!wrapperAstFacts
    <3> QED  BY <1>1, <1>5, <3>2, <3>3 DEF Receipt!F1_CHAIN_ID_FIX
  <2> QED  BY <2>1, <2>2, <2>3, <2>4
<1> QED  BY <1>6, <1>7, <1>8 DEF Receipt!Rule, t

LEMMA ReviewedHolds == ReceiptTyped => Receipt!TakenIsReviewed
<1> SUFFICES ASSUME ReceiptTyped, NEW b \in Receipt!Branch,
                    ~ Receipt!implReceiptErrors(iHead[b]),
                    NEW k \in Receipt!Tree(iHead[b]).binding,
                    NEW r \in Receipt!Tree(iHead[b]).receipt
             PROVE  LET n == iHead[b]
                        before == iCommits[k.merge].parents[1] IN
                    /\ Receipt!protectedAt(n, Receipt!PROTECTED_SUBJECT_PATHS)
                         = Receipt!protectedAt(k.reviewed, Receipt!PROTECTED_SUBJECT_PATHS)
                    /\ r \in Receipt!Tree(k.reviewed).receipt
                    /\ r.contractsChanged = Receipt!contractsChangedSince(before, Receipt!Tree(k.merge))
                    /\ r.verdict = Receipt!BUILT =>
                          /\ \A rule \in Receipt!Rule : Receipt!Tree(n)[rule] = "sound"
                          /\ \A s \in Receipt!Source : Receipt!Tree(n)[s] = "valid"
                          /\ Receipt!Tree(n).wrapper = "pinned"
  BY DEF Receipt!TakenIsReviewed
<1> DEFINE n == iHead[b]
           before == iCommits[k.merge].parents[1]
           paths == Receipt!PROTECTED_SUBJECT_PATHS
           hist == Receipt!boundSupersession(n)
<1>1. /\ Receipt!Tree(k.merge) = Receipt!Tree(k.reviewed)
      /\ Receipt!BaseHolds(k.merge)
      /\ \A f \in paths \cup {"receipt"} : Receipt!Tree(n)[f] = Receipt!Tree(k.merge)[f]
      /\ r = Receipt!deriveImplReceipt(Receipt!readImplReceiptInputs(n, k.base, hist))
  BY TakenIsDerived
<1>2. r.baseCommit = k.base /\ r.contractsChanged = Receipt!contractsChangedSince(k.base, Receipt!Tree(n))
  BY <1>1 DEF Receipt!deriveImplReceipt, Receipt!readImplReceiptInputs
<1>3. TypedTree(Receipt!Tree(n))
  BY HeadTyped DEF ReceiptTyped
<1> HIDE DEF n
<1>4. r \in Receipt!Tree(k.merge).receipt
  BY <1>1 DEF n
<1>5. \A f \in paths : Receipt!Tree(k.base)[f] = Receipt!Tree(before)[f]
  <2>1. Receipt!protectedAt(k.base, paths) = Receipt!protectedAt(before, paths)
    BY <1>1, <1>2, <1>4 DEF Receipt!BaseHolds
  <2>2. \A f \in paths : Receipt!protectedAt(k.base, paths)[f] = Receipt!protectedAt(before, paths)[f]
    BY <2>1
  <2> QED  BY <2>2 DEF Receipt!protectedAt
<1>6. r.contractsChanged = Receipt!contractsChangedSince(before, Receipt!Tree(k.merge))
  BY <1>1, <1>2, <1>5 DEF Receipt!contractsChangedSince
<1>7. Receipt!protectedAt(n, paths) = Receipt!protectedAt(k.reviewed, paths)
  BY <1>1 DEF Receipt!protectedAt
<1>8. r.verdict = Receipt!BUILT =>
         /\ \A rule \in Receipt!Rule : Receipt!Tree(n)[rule] = "sound"
         /\ \A s \in Receipt!Source : Receipt!Tree(n)[s] = "valid"
         /\ Receipt!Tree(n).wrapper = "pinned"
  BY <1>1, <1>3, BuiltIsSound
<1> QED  BY <1>1, <1>4, <1>6, <1>7, <1>8 DEF n

LEMMA SupersededHolds == Receipt!SupersededMoved
<1> SUFFICES ASSUME NEW b \in Receipt!Branch, ~ Receipt!implReceiptErrors(iHead[b]),
                    NEW r \in Receipt!Tree(iHead[b]).receipt
             PROVE  LET n == iHead[b] IN
                    \/ /\ r.availability = Receipt!Tree(n).availability
                       /\ r.proving = IF Receipt!liveAvailability(Receipt!Tree(n)).errors THEN "INVALID"
                                      ELSE Receipt!liveAvailability(Receipt!Tree(n)).status
                    \/ /\ Receipt!Tree(n).archive # Receipt!None
                       /\ Receipt!Tree(n).availability = "ARCHIVED_VERIFIED_UNEXERCISED"
                       /\ \E c \in Receipt!mainline \cap Receipt!ancestors[n] :
                             /\ r \in Receipt!Tree(c).receipt
                             /\ r.availability = Receipt!Tree(c).availability
  BY DEF Receipt!SupersededMoved
<1> DEFINE n == iHead[b]
           t == Receipt!Tree(n)
           hist == Receipt!boundSupersession(n)
           live == Receipt!liveAvailability(t)
<1>1. PICK k : /\ ~ Receipt!invalidSupersession(n) /\ t.receipt = {r}
               /\ r = Receipt!deriveImplReceipt(Receipt!readImplReceiptInputs(n, k.base, hist))
  BY TakenHasABinding, TakenIsDerived
<1>2. LET p == Receipt!provingAvailabilityInputs(n, hist)
      IN  r.availability = p.bytes /\ r.proving = IF p.errors THEN "INVALID" ELSE p.status
  BY <1>1 DEF Receipt!deriveImplReceipt, Receipt!readImplReceiptInputs
<1>3. CASE hist = {}
  BY <1>2, <1>3 DEF Receipt!provingAvailabilityInputs
<1>4. CASE hist # {}
  <2> DEFINE c == CHOOSE d \in hist : TRUE
  <2>1. PICK s \in t.supersession : c = s.historicalSubject
    BY <1>4 DEF Receipt!boundSupersession
  <2>2. ~ Receipt!implSupersessionErrors(s, n)
    BY <1>1, <2>1 DEF Receipt!invalidSupersession
  <2>3. /\ c \in Receipt!mainline /\ Receipt!inHistory(c, n)
        /\ Receipt!Tree(c).receipt = t.receipt
        /\ Receipt!Tree(c).availability = "OWNER_DOWNLOAD_REQUIRED"
    BY <2>1, <2>2 DEF Receipt!implSupersessionErrors, Receipt!PinnedOnly,
       Receipt!LIVE_AVAILABILITY_STATUSES
  <2>4. ~ live.errors /\ live.status # "OWNER_DOWNLOAD_REQUIRED"
    BY <2>2 DEF Receipt!implSupersessionErrors, Receipt!LIVE_AVAILABILITY_STATUSES
  <2>5. t.archive # Receipt!None /\ t.availability = "ARCHIVED_VERIFIED_UNEXERCISED"
    BY <2>4 DEF Receipt!liveAvailability, Receipt!availabilityOf
  <2>6. c # n
    BY <2>3, <2>5
  <2>7. r.availability = Receipt!Tree(c).availability
    BY <1>2, <1>4 DEF Receipt!provingAvailabilityInputs
  <2> QED  BY <1>1, <2>3, <2>5, <2>6, <2>7 DEF Receipt!inHistory
<1> QED  BY <1>3, <1>4

\* A receipt that is taken says of the lane what the lane did, or, of what moved on since,
\* what was so when it was taken (sp1-impl-receipt-integration.ts:152-158,
\* sp1-impl-receipt.ts:1365-1378): for any changes main and the lane make of these files, and
\* any number of commits and merges.
THEOREM TakenReceiptsAreTrue == Spec => []ReceiptIsTrue
<1>1. Init => ReceiptTyped
  BY ReceiptStart DEF Init
<1>2. ReceiptTyped /\ [Next]_all => ReceiptTyped'
  <2>1. [Next]_all => [Receipt!Next]_receipt
    BY DEF Next, all, receipt
  <2> QED  BY <2>1, ReceiptStep
<1>3. ReceiptTyped => ReceiptIsTrue
  BY ReviewedHolds, SupersededHolds DEF ReceiptIsTrue, TakenIsReviewed, SupersededMoved
<1> QED  BY <1>1, <1>2, <1>3, PTL DEF Spec, all

-----------------------------------------------------------------------------
(* What main does beside a receipt that it has taken *)

\* What a walk found at a commit it finds after any number of commits more.
LEMMA WalksKept ==
    ASSUME NEW cs, Ordered(cs), NEW ds, Ordered(ds), Len(cs) <= Len(ds),
           \A n \in 1..Len(cs) : ds[n] = cs[n]
    PROVE  \A n \in 1..Len(cs) :
              /\ AncestorsIn(ds)[n] = AncestorsIn(cs)[n]
              /\ FirstParentsIn(ds)[n] = FirstParentsIn(cs)[n]
<1> DEFINE from == [n \in 1..Len(cs) |-> Parents(cs, n)]
           fromD == [n \in 1..Len(ds) |-> Parents(ds, n)]
           at == [n \in 1..Len(cs) |-> {n}]
           atD == [n \in 1..Len(ds) |-> {n}]
           first == [n \in 1..Len(cs) |-> Firsts(cs, n)]
           firstD == [n \in 1..Len(ds) |-> Firsts(ds, n)]
<1>1. Len(cs) \in Nat /\ Len(ds) \in Nat
  BY DEF Ordered
<1>2. Walks(AncestorsIn(cs), Len(cs), from, from) /\ Walks(AncestorsIn(ds), Len(ds), fromD, fromD)
  BY AncestorsWalk
<1>3. Walks(FirstParentsIn(cs), Len(cs), at, first) /\ Walks(FirstParentsIn(ds), Len(ds), atD, firstD)
  BY FirstParentsWalk
<1>4. Behind(Len(cs), from)
  BY DEF Behind, Ordered
<1>5. Behind(Len(cs), first)
  <2>1. \A n \in 1..Len(cs) : cs[n].parents # <<>> => 1 \in DOMAIN cs[n].parents
    BY DEF Ordered
  <2>2. \A n \in 1..Len(cs) : first[n] \subseteq from[n]
    BY <2>1 DEF Firsts, Parents
  <2> QED  BY <1>4, <2>2 DEF Behind
<1>6. \A n \in 1..Len(cs) : fromD[n] = from[n] /\ firstD[n] = first[n] /\ atD[n] = at[n]
  <2> SUFFICES ASSUME NEW n \in 1..Len(cs)
               PROVE  fromD[n] = from[n] /\ firstD[n] = first[n] /\ atD[n] = at[n]
    OBVIOUS
  <2>1. n \in 1..Len(ds) /\ ds[n] = cs[n]
    BY <1>1
  <2>2. Parents(ds, n) = Parents(cs, n) /\ Firsts(ds, n) = Firsts(cs, n)
    BY <2>1 DEF Parents, Firsts
  <2> QED  BY <2>1, <2>2
<1> HIDE DEF from, fromD, at, atD, first, firstD
<1>7. \A n \in 1..Len(cs) : AncestorsIn(ds)[n] = AncestorsIn(cs)[n]
  BY <1>1, <1>2, <1>4, <1>6, WalksAgree
<1>8. \A n \in 1..Len(cs) : FirstParentsIn(ds)[n] = FirstParentsIn(cs)[n]
  BY <1>1, <1>3, <1>5, <1>6, WalksAgree
<1> QED  BY <1>7, <1>8

LEMMA FirstParentsUnfold ==
    ASSUME NEW cs, Ordered(cs), NEW n \in 1..Len(cs)
    PROVE  FirstParentsIn(cs)[n] = {n} \cup UNION {FirstParentsIn(cs)[p] : p \in Firsts(cs, n)}
<1> DEFINE at == [m \in 1..Len(cs) |-> {m}]
           from == [m \in 1..Len(cs) |-> Firsts(cs, m)]
           F == FirstParentsIn(cs)
<1>1. Walks(F, Len(cs), at, from)
  BY FirstParentsWalk
<1> HIDE DEF F
<1>2. F[n] = at[n] \cup UNION {F[p] : p \in from[n]}
  BY <1>1 DEF Walks
<1> QED  BY <1>2 DEF F

LEMMA FirstParentsBefore ==
    ASSUME NEW cs, Ordered(cs)
    PROVE  \A n \in 1..Len(cs) : \A m \in FirstParentsIn(cs)[n] : m \in 1..n
<1> DEFINE F == FirstParentsIn(cs)
           Bad == {n \in 1..Len(cs) : \E m \in F[n] : m \notin 1..n}
<1> SUFFICES ASSUME Bad # {}
             PROVE  FALSE
  OBVIOUS
<1>1. PICK k \in Bad : \A j \in Bad : k <= j
  <2>1. \A x \in Bad : x \in Nat
    OBVIOUS
  <2> HIDE DEF Bad
  <2> QED  BY <2>1, LeastOf
<1>2. PICK m \in F[k] : m \notin 1..k
  OBVIOUS
<1>3. F[k] = {k} \cup UNION {F[p] : p \in Firsts(cs, k)}
  BY FirstParentsUnfold
<1>4. \A p \in Firsts(cs, k) : p \in 1..(k - 1)
  BY DEF Ordered, Firsts, Parents
<1>5. PICK p \in Firsts(cs, k) : m \in F[p]
  BY <1>2, <1>3
<1>6. p \in 1..(k - 1) /\ Len(cs) \in Nat
  BY <1>4 DEF Ordered
<1>7. p \notin Bad /\ p \in 1..Len(cs)
  BY <1>1, <1>6
<1> QED  BY <1>2, <1>5, <1>6, <1>7

\* The commit that last wrote the receipt: the walk goes to the first parent that has it.
Unchanged(cs, n) ==
    {i \in DOMAIN cs[n].parents : cs[cs[n].parents[i]].tree.receipt = cs[n].tree.receipt}
Followed(cs, n) ==
    cs[n].parents[CHOOSE i \in Unchanged(cs, n) : \A j \in Unchanged(cs, n) : i <= j]

Follows(f, cs) ==
    f = [n \in DOMAIN cs |-> IF Unchanged(cs, n) = {} THEN n ELSE f[Followed(cs, n)]]
WriterIn(cs) == CHOOSE f : Follows(f, cs)

LEMMA ReceiptWriter == Receipt!writer = WriterIn(iCommits)
  BY DEF Receipt!writer, WriterIn, Follows, Unchanged, Followed, Receipt!Tree

LEMMA ReceiptWriterNext == Receipt!writer' = WriterIn(iCommits')
  BY DEF Receipt!writer, WriterIn, Follows, Unchanged, Followed, Receipt!Tree

LEMMA FollowedBefore ==
    ASSUME NEW cs, Ordered(cs), NEW n \in 1..Len(cs), Unchanged(cs, n) # {}
    PROVE  Followed(cs, n) \in 1..(n - 1)
<1> DEFINE U == Unchanged(cs, n)
           D == DOMAIN cs[n].parents
<1>1. \A x \in U : x \in Nat /\ x \in D
  BY DEF Ordered, Unchanged
<1>2. \A i \in D : cs[n].parents[i] \in 1..(n - 1)
  BY DEF Ordered, Parents
<1> HIDE DEF U, D
<1>3. \E x \in U : \A y \in U : x <= y
  BY <1>1, LeastOf DEF U
<1>4. (CHOOSE i \in U : \A j \in U : i <= j) \in U
  BY <1>3
<1> QED  BY <1>1, <1>2, <1>4 DEF Followed, U

LEMMA WriterFollows ==
    ASSUME NEW cs, Ordered(cs)
    PROVE  Follows(WriterIn(cs), cs)
<1> DEFINE at == [n \in 1..Len(cs) |-> IF Unchanged(cs, n) = {} THEN {n} ELSE {}]
           from == [n \in 1..Len(cs) |-> IF Unchanged(cs, n) = {} THEN {} ELSE {Followed(cs, n)}]
<1>1. Behind(Len(cs), from)
  BY FollowedBefore DEF Behind
<1>2. Len(cs) \in Nat /\ DOMAIN cs = 1..Len(cs)
  BY DEF Ordered
<1> HIDE DEF at, from
<1>3. PICK W : Walks(W, Len(cs), at, from)
  BY <1>1, <1>2, WalkExists
<1> DEFINE f == [n \in 1..Len(cs) |-> CHOOSE x : x \in W[n]]
           g == [n \in DOMAIN cs |-> IF Unchanged(cs, n) = {} THEN n ELSE f[Followed(cs, n)]]
<1>4. ASSUME NEW n \in 1..Len(cs)
      PROVE  f[n] = g[n]
  <2>1. W[n] = at[n] \cup UNION {W[p] : p \in from[n]}
    BY <1>3 DEF Walks
  <2>2. CASE Unchanged(cs, n) = {}
    <3>1. at[n] = {n} /\ from[n] = {}
      BY <2>2 DEF at, from
    <3>2. W[n] = {n}
      BY <2>1, <3>1
    <3>3. g[n] = n
      BY <1>2, <2>2
    <3> QED  BY <3>2, <3>3
  <2>3. CASE Unchanged(cs, n) # {}
    <3>1. at[n] = {} /\ from[n] = {Followed(cs, n)}
      BY <2>3 DEF at, from
    <3>2. W[n] = W[Followed(cs, n)]
      BY <2>1, <3>1
    <3>3. Followed(cs, n) \in 1..(n - 1)
      BY <2>3, FollowedBefore
    <3>4. Followed(cs, n) \in 1..Len(cs)
      BY <1>2, <3>3
    <3>5. f[n] = f[Followed(cs, n)]
      BY <3>2, <3>4
    <3> QED  BY <1>2, <2>3, <3>5
  <2> QED  BY <2>2, <2>3
<1>5. f = g
  <2>1. f = [n \in 1..Len(cs) |-> f[n]] /\ g = [n \in 1..Len(cs) |-> g[n]]
    BY <1>2
  <2> HIDE DEF f, g
  <2> QED  BY <1>4, <2>1
<1>6. Follows(f, cs)
  BY <1>5 DEF Follows
<1> QED  BY <1>6 DEF WriterIn

LEMMA WriterUnfold ==
    ASSUME NEW cs, Ordered(cs), NEW n \in 1..Len(cs)
    PROVE  WriterIn(cs)[n] = IF Unchanged(cs, n) = {} THEN n ELSE WriterIn(cs)[Followed(cs, n)]
<1> DEFINE W == WriterIn(cs)
<1>1. Follows(W, cs) /\ n \in DOMAIN cs
  BY WriterFollows DEF Ordered
<1> HIDE DEF W
<1> QED  BY <1>1 DEF Follows, W

LEMMA WriterBefore ==
    ASSUME NEW cs, Ordered(cs)
    PROVE  \A n \in 1..Len(cs) : WriterIn(cs)[n] \in 1..n
<1> DEFINE W == WriterIn(cs)
           Bad == {n \in 1..Len(cs) : W[n] \notin 1..n}
<1> SUFFICES ASSUME Bad # {}
             PROVE  FALSE
  OBVIOUS
<1>1. PICK k \in Bad : \A j \in Bad : k <= j
  <2>1. \A x \in Bad : x \in Nat
    OBVIOUS
  <2> HIDE DEF Bad
  <2> QED  BY <2>1, LeastOf
<1>2. W[k] = IF Unchanged(cs, k) = {} THEN k ELSE W[Followed(cs, k)]
  BY WriterUnfold
<1>3. Unchanged(cs, k) # {} /\ W[k] = W[Followed(cs, k)]
  BY <1>2
<1>4. Followed(cs, k) \in 1..(k - 1)
  BY <1>3, FollowedBefore
<1>5. Followed(cs, k) \in 1..Len(cs) /\ Followed(cs, k) \notin Bad
  <2>1. Len(cs) \in Nat /\ k <= Len(cs) /\ k \in Nat
    BY DEF Ordered
  <2> QED  BY <1>1, <1>4, <2>1
<1> HIDE DEF W
<1> QED  BY <1>3, <1>4, <1>5

LEMMA WriterKept ==
    ASSUME NEW cs, Ordered(cs), NEW ds, Ordered(ds), Len(cs) <= Len(ds),
           \A n \in 1..Len(cs) : ds[n] = cs[n]
    PROVE  \A n \in 1..Len(cs) : WriterIn(ds)[n] = WriterIn(cs)[n]
<1> DEFINE V == WriterIn(ds)
           W == WriterIn(cs)
           Bad == {n \in 1..Len(cs) : V[n] # W[n]}
<1> SUFFICES ASSUME Bad # {}
             PROVE  FALSE
  OBVIOUS
<1>1. PICK k \in Bad : \A j \in Bad : k <= j
  <2>1. \A x \in Bad : x \in Nat
    OBVIOUS
  <2> HIDE DEF Bad
  <2> QED  BY <2>1, LeastOf
<1>2. k \in 1..Len(cs) /\ k \in 1..Len(ds)
  BY DEF Ordered
<1>3. Unchanged(ds, k) = Unchanged(cs, k)
  <2>1. \A i \in DOMAIN cs[k].parents : cs[k].parents[i] \in 1..Len(cs)
    <3>1. \A i \in DOMAIN cs[k].parents : cs[k].parents[i] \in 1..(k - 1)
      BY <1>2 DEF Ordered, Parents
    <3>2. Len(cs) \in Nat
      BY DEF Ordered
    <3> QED  BY <1>2, <3>1, <3>2
  <2> QED  BY <1>2, <2>1 DEF Unchanged
<1>4. Followed(ds, k) = Followed(cs, k)
  BY <1>2, <1>3 DEF Followed
<1>5. /\ W[k] = IF Unchanged(cs, k) = {} THEN k ELSE W[Followed(cs, k)]
      /\ V[k] = IF Unchanged(ds, k) = {} THEN k ELSE V[Followed(ds, k)]
  BY <1>2, WriterUnfold
<1>6. /\ Unchanged(cs, k) # {}
      /\ V[Followed(cs, k)] # W[Followed(cs, k)]
  BY <1>3, <1>4, <1>5
<1>7. Followed(cs, k) \in 1..(k - 1)
  BY <1>2, <1>6, FollowedBefore
<1>8. Followed(cs, k) \in 1..Len(cs) /\ ~ (k <= Followed(cs, k))
  <2>1. Len(cs) \in Nat /\ k <= Len(cs) /\ k \in Nat
    BY <1>2 DEF Ordered
  <2> QED  BY <1>7, <2>1
<1> QED  BY <1>1, <1>6, <1>8

\* What is derived is derived of the fields that the receipt is about.
LEMMA DerivedAlike ==
    ASSUME NEW i, NEW j,
           i.baseCommit = j.baseCommit, i.ast = j.ast,
           i.journalTypesAtBase = j.journalTypesAtBase,
           i.contractsChanged = j.contractsChanged, i.proving = j.proving,
           i.tree.wrapper = j.tree.wrapper,
           \A f \in Receipt!Source \cup Receipt!Rule : i.tree[f] = j.tree[f]
    PROVE  Receipt!deriveImplReceipt(i) = Receipt!deriveImplReceipt(j)
<1>1. /\ \A f \in Receipt!Source : i.tree[f] = j.tree[f]
      /\ i.tree.TD1_RECEIPT = j.tree.TD1_RECEIPT /\ i.tree.TD2_RECORD = j.tree.TD2_RECORD
      /\ i.tree.DESIGNATIONS = j.tree.DESIGNATIONS
      /\ i.tree.WRAPPER_BUILDS = j.tree.WRAPPER_BUILDS
      /\ i.tree.REGISTRY = j.tree.REGISTRY /\ i.tree.CHAIN_EXECUTION = j.tree.CHAIN_EXECUTION
      /\ i.tree.CANONICAL_REBUILD = j.tree.CANONICAL_REBUILD /\ i.tree.RULESET = j.tree.RULESET
      /\ i.tree.plan = j.tree.plan /\ i.tree.registry = j.tree.registry
      /\ i.tree.designations = j.tree.designations /\ i.tree.walk = j.tree.walk
      /\ i.tree.reads = j.tree.reads
  BY DEF Receipt!Source, Receipt!Rule
<1>2. /\ Receipt!probeOverrides(i.tree) <=> Receipt!probeOverrides(j.tree)
      /\ Receipt!probeRegistryHistory(i.tree) <=> Receipt!probeRegistryHistory(j.tree)
      /\ Receipt!probeIdentityReuse(i.tree) <=> Receipt!probeIdentityReuse(j.tree)
      /\ Receipt!probeHaltedIdentityElsewhere(i.tree) <=> Receipt!probeHaltedIdentityElsewhere(j.tree)
      /\ Receipt!probeFinalityReads(i.tree) <=> Receipt!probeFinalityReads(j.tree)
      /\ Receipt!rulesetInput(i.tree).gaps <=> Receipt!rulesetInput(j.tree).gaps
  BY <1>1 DEF Receipt!probeOverrides, Receipt!probeRegistryHistory, Receipt!probeIdentityReuse,
     Receipt!probeHaltedIdentityElsewhere, Receipt!probeFinalityReads, Receipt!passed,
     Receipt!rulesetInput
<1>3. Receipt!F1_CHAIN_ID_FIX(i) = Receipt!F1_CHAIN_ID_FIX(j)
  BY <1>1 DEF Receipt!F1_CHAIN_ID_FIX
<1>4. Receipt!TD2_HALT_INVARIANTS_PRESERVED(i) = Receipt!TD2_HALT_INVARIANTS_PRESERVED(j)
  BY <1>1 DEF Receipt!TD2_HALT_INVARIANTS_PRESERVED
<1>5. Receipt!recordFailures(i) = Receipt!recordFailures(j)
  BY <1>1 DEF Receipt!recordFailures
<1>6. Receipt!stopConditions(i) = Receipt!stopConditions(j)
  BY <1>1, <1>2, <1>3, <1>4 DEF Receipt!stopConditions
<1>7. Receipt!statuses(i) = Receipt!statuses(j)
  BY <1>1, <1>2 DEF Receipt!statuses
<1>8. Receipt!prerequisites(i) = Receipt!prerequisites(j)
  BY <1>1, <1>5, <1>6, <1>7 DEF Receipt!prerequisites
<1>9. [s \in Receipt!Source |-> i.tree[s]] = [s \in Receipt!Source |-> j.tree[s]]
  BY <1>1
<1> QED
  BY <1>3, <1>4, <1>5, <1>6, <1>7, <1>8, <1>9 DEF Receipt!deriveImplReceipt

\* The least of some commits is the least still when a later one joins them.
LEMMA LeastKept ==
    ASSUME NEW S, NEW N \in Nat, S \subseteq 1..N, S # {}, NEW m \in Nat, m > N
    PROVE  LET least == CHOOSE c \in S : \A d \in S : c <= d IN
           /\ least \in S
           /\ (CHOOSE c \in S \cup {m} : \A d \in S \cup {m} : c <= d) = least
<1>1. PICK e \in S : \A d \in S : e <= d
  <2>1. \A x \in S : x \in Nat
    OBVIOUS
  <2> QED  BY <2>1, LeastOf
<1>2. \A c \in S : (\A d \in S : c <= d) <=> c = e
  BY <1>1
<1>3. \A c \in S \cup {m} : (\A d \in S \cup {m} : c <= d) <=> c = e
  <2>1. e \in 1..N /\ m > e /\ \A d \in S : d \in 1..N
    BY <1>1
  <2> QED  BY <1>1, <2>1
<1>4. (CHOOSE c \in S : \A d \in S : c <= d) = e
  BY <1>1, <1>2
<1>5. (CHOOSE c \in S \cup {m} : \A d \in S \cup {m} : c <= d) = e
  BY <1>1, <1>3
<1> QED  BY <1>1, <1>4, <1>5

\* Main moves on from a commit that is taken, to one with the same files but for those that
\* the receipt does not read.
LEMMA TakenStays ==
    ASSUME Ordered(iCommits), NEW n \in 1..Len(iCommits), NEW m, m = Len(iCommits) + 1,
           NEW c, c.parents \in Seq(1..Len(iCommits)), c.parents # <<>>, c.parents[1] = n,
           iCommits' = Append(iCommits, c), iHead["main"] = n, iHead'["main"] = m,
           \A f \in Receipt!File \ {"other"} : c.tree[f] = Receipt!Tree(n)[f],
           ~ Receipt!implReceiptErrors(n)
    PROVE  ~ Receipt!implReceiptErrors(m)'
<1>0. PICK ds : ds = iCommits'
  OBVIOUS
<1> DEFINE N == Len(iCommits)
           Old == 1..N
           A == AncestorsIn(iCommits)
           F == FirstParentsIn(iCommits)
           W == WriterIn(iCommits)
           B == AncestorsIn(ds)
           G == FirstParentsIn(ds)
           V == WriterIn(ds)
<1>1. /\ Ordered(ds) /\ Len(ds) = m /\ ds[m] = c
      /\ \A k \in Old : ds[k] = iCommits[k]
  BY <1>0, AppendOrdered
<1>2. N \in Nat /\ m \in Nat /\ m > N /\ n \in 1..N /\ Len(iCommits) <= Len(ds) /\ m \in 1..Len(ds)
  BY <1>1 DEF Ordered
<1>3. \A k \in Old : B[k] = A[k] /\ G[k] = F[k] /\ V[k] = W[k]
  BY <1>1, <1>2, WalksKept, WriterKept
<1>4. /\ \A k \in Old : \A p \in A[k] : p \in 1..(k - 1)
      /\ \A k \in Old : \A p \in F[k] : p \in 1..k
      /\ \A k \in Old : W[k] \in 1..k
  BY AncestorsBefore, FirstParentsBefore, WriterBefore
<1>5. n \in Parents(ds, m) /\ Firsts(ds, m) = {n}
  <2>1. 1 \in DOMAIN c.parents
    OBVIOUS
  <2> QED  BY <1>1, <2>1 DEF Parents, Firsts
<1>6. B[m] = Parents(ds, m) \cup UNION {B[p] : p \in Parents(ds, m)}
  <2>1. Ordered(ds) /\ m \in 1..Len(ds)
    BY <1>1, <1>2
  <2> QED  BY <2>1, AncestorsUnfold
<1>7. G[m] = {m} \cup F[n]
  <2>1. G[m] = {m} \cup UNION {G[p] : p \in Firsts(ds, m)}
    <3>1. Ordered(ds) /\ m \in 1..Len(ds)
      BY <1>1, <1>2
    <3> QED  BY <3>1, FirstParentsUnfold
  <2> QED  BY <1>3, <1>5, <2>1
<1>8. /\ Receipt!ancestors = A /\ Receipt!ancestors' = B
      /\ Receipt!mainline = F[n] /\ Receipt!mainline' = G[m]
      /\ Receipt!writer = W /\ Receipt!writer' = V
  BY <1>0, ReceiptWalks, ReceiptWalksNext, ReceiptWriter, ReceiptWriterNext DEF Receipt!mainline
<1>9. /\ \A k \in Old : Receipt!Tree(k)' = Receipt!Tree(k)
      /\ Receipt!Tree(m)' = c.tree
  BY <1>0, <1>1 DEF Receipt!Tree
<1> HIDE DEF A, F, W, B, G, V
<1>10. /\ Receipt!mainline' = Receipt!mainline \cup {m} /\ Receipt!mainline \subseteq 1..n
       /\ Receipt!mainline \subseteq Old
  <2>1. \A p \in F[n] : p \in 1..n
    BY <1>4
  <2>2. 1..n \subseteq Old
    BY <1>2
  <2> QED  BY <1>7, <1>8, <2>1, <2>2
<1>11. \A k, p : p \in Old => (Receipt!inHistory(k, p)' <=> Receipt!inHistory(k, p))
  BY <1>3, <1>8 DEF Receipt!inHistory
<1>12. \A k : Receipt!inHistory(k, n) => Receipt!inHistory(k, m)'
  BY <1>3, <1>5, <1>6, <1>8 DEF Receipt!inHistory
<1>13. \A p \in Old : ~ Receipt!inHistory(m, p)'
  <2>1. \A p \in Old : m \notin A[p] /\ m # p
    BY <1>2, <1>4
  <2> QED  BY <1>3, <1>8, <2>1 DEF Receipt!inHistory
<1>14. \A f \in Receipt!File \ {"other"} : Receipt!Tree(m)'[f] = Receipt!Tree(n)[f]
  BY <1>9
<1>15. /\ Receipt!Tree(m)'.receipt = Receipt!Tree(n).receipt
       /\ Receipt!Tree(m)'.binding = Receipt!Tree(n).binding
       /\ Receipt!Tree(m)'.supersession = Receipt!Tree(n).supersession
       /\ Receipt!Tree(m)'.wrapper = Receipt!Tree(n).wrapper
       /\ Receipt!Tree(m)'.consumer = Receipt!Tree(n).consumer
       /\ Receipt!Tree(m)'.availability = Receipt!Tree(n).availability
       /\ Receipt!Tree(m)'.archive = Receipt!Tree(n).archive
       /\ \A f \in Receipt!Source \cup Receipt!Rule : Receipt!Tree(m)'[f] = Receipt!Tree(n)[f]
  <2>1. "receipt" \in Receipt!File \ {"other"} /\ "binding" \in Receipt!File \ {"other"}
        /\ "supersession" \in Receipt!File \ {"other"} /\ "wrapper" \in Receipt!File \ {"other"}
        /\ "consumer" \in Receipt!File \ {"other"} /\ "availability" \in Receipt!File \ {"other"}
        /\ "archive" \in Receipt!File \ {"other"}
        /\ Receipt!Source \cup Receipt!Rule \subseteq Receipt!File \ {"other"}
    BY DEF Receipt!File, Receipt!Bound, Receipt!PROTECTED_SUBJECT_PATHS, Receipt!Source, Receipt!Rule
  <2> QED  BY <1>14, <2>1
<1>16. PICK k \in Receipt!deriveReceiptIntegration :
          /\ Receipt!Tree(n).binding = Receipt!deriveReceiptIntegration
          /\ ~ Receipt!descendantDriftErrors(n, k.merge)
          /\ ~ Receipt!invalidSupersession(n)
          /\ ~ Receipt!baseCommitErrors(k.base, k.writtenAt, n)
          /\ ~ Receipt!compareReceipt(n, Receipt!deriveImplReceipt(
                 Receipt!readImplReceiptInputs(n, k.base, Receipt!boundSupersession(n))))
  BY DEF Receipt!implReceiptErrors, Receipt!receiptIntegrationErrors
<1>a. PICK e, p : e = Receipt!Entry /\ p = iCommits[e].parents[2]
  OBVIOUS
<1> DEFINE S == {d \in Receipt!mainline : Receipt!carriesReceipt(d)}
<1>17. /\ S # {} /\ Len(iCommits[e].parents) = 2 /\ Receipt!Tree(e) = Receipt!Tree(p)
       /\ Receipt!BaseHolds(e)
       /\ k = [merge |-> e, reviewed |-> p,
               base |-> (CHOOSE r \in Receipt!Tree(e).receipt : TRUE).baseCommit,
               writtenAt |-> W[p]]
       /\ Receipt!deriveReceiptIntegration = {k}
  BY <1>8, <1>16, <1>a DEF Receipt!deriveReceiptIntegration
<1>18. Receipt!carriesReceipt(m)' /\ \A d \in Old : Receipt!carriesReceipt(d)' <=> Receipt!carriesReceipt(d)
  <2>1. Receipt!Tree(n).receipt # {}
    BY <1>16 DEF Receipt!compareReceipt
  <2> QED  BY <1>9, <1>15, <2>1 DEF Receipt!carriesReceipt
<1>19. e \in S /\ Receipt!Entry' = e
  <2>1. {d \in Receipt!mainline' : Receipt!carriesReceipt(d)'} = S \cup {m}
    BY <1>10, <1>18
  <2>2. e = CHOOSE x \in S : \A d \in S : x <= d
    BY <1>a DEF Receipt!Entry
  <2>3. Receipt!Entry' = CHOOSE x \in S \cup {m} : \A d \in S \cup {m} : x <= d
    BY <2>1 DEF Receipt!Entry
  <2>4. S \subseteq 1..N
    BY <1>10
  <2> HIDE DEF S
  <2> QED  BY <1>2, <1>17, <2>2, <2>3, <2>4, LeastKept
<1> HIDE DEF S
<1>20. /\ e \in Old /\ p \in Old /\ iCommits[e].parents[1] \in Old /\ W[p] \in Old
       /\ ds[e] = iCommits[e]
  <2>1. e \in Old
    BY <1>10, <1>19 DEF S
  <2>2. iCommits[e].parents \in Seq(Nat) /\ \A q \in Parents(iCommits, e) : q \in 1..(e - 1)
    BY <2>1 DEF Ordered
  <2>3. 1 \in DOMAIN iCommits[e].parents /\ 2 \in DOMAIN iCommits[e].parents
    BY <1>17, <2>2
  <2>4. iCommits[e].parents[1] \in 1..(e - 1) /\ p \in 1..(e - 1)
    BY <1>a, <2>2, <2>3 DEF Parents
  <2>5. iCommits[e].parents[1] \in Old /\ p \in Old
    BY <1>2, <2>1, <2>4
  <2>6. W[p] \in Old
    BY <1>2, <1>4, <2>5
  <2> QED  BY <1>1, <2>1, <2>5, <2>6
<1>21. Receipt!BaseHolds(e)'
  <2>1. (Receipt!BaseMainline(e))'
    <3>1. PICK w \in Old : /\ w = Receipt!writer[iCommits[e].parents[2]]
                           /\ w = Receipt!writer'[iCommits'[e].parents[2]]
      BY <1>0, <1>3, <1>8, <1>20, <1>a
    <3>2. ASSUME NEW r \in Receipt!Tree(e).receipt
          PROVE  r.baseCommit \in Receipt!mainline' /\ Receipt!inHistory(r.baseCommit, w)'
      <4>1. r.baseCommit \in Receipt!mainline /\ Receipt!inHistory(r.baseCommit, w)
        BY <1>17, <3>1 DEF Receipt!BaseHolds, Receipt!BaseMainline
      <4> QED  BY <1>10, <1>11, <4>1
    <3>3. Receipt!Tree(e)' = Receipt!Tree(e)
      BY <1>9, <1>20
    <3> QED  BY <3>1, <3>2, <3>3 DEF Receipt!BaseMainline, Receipt!inHistory
  <2>2. ASSUME NEW r \in Receipt!Tree(e).receipt
        PROVE  Receipt!protectedAt(r.baseCommit, Receipt!PROTECTED_SUBJECT_PATHS)'
                 = Receipt!protectedAt(iCommits[e].parents[1], Receipt!PROTECTED_SUBJECT_PATHS)'
    <3>1. r.baseCommit \in Old
      BY <1>10, <1>17 DEF Receipt!BaseHolds, Receipt!BaseMainline
    <3> QED  BY <1>9, <1>17, <1>20, <3>1 DEF Receipt!BaseHolds, Receipt!protectedAt
  <2> QED  BY <1>0, <1>9, <1>20, <2>1, <2>2 DEF Receipt!BaseHolds
<1>22. Receipt!deriveReceiptIntegration' = Receipt!deriveReceiptIntegration
  <2>1. ~ \A d \in Receipt!mainline' : ~ Receipt!carriesReceipt(d)'
    BY <1>10, <1>18
  <2>2. Receipt!Tree(e)' = Receipt!Tree(e) /\ Receipt!Tree(p)' = Receipt!Tree(p)
    BY <1>9, <1>20
  <2>3. iCommits'[e] = iCommits[e] /\ Receipt!writer'[p] = W[p]
    BY <1>0, <1>3, <1>8, <1>20
  <2> QED
    BY <1>17, <1>19, <1>21, <1>a, <2>1, <2>2, <2>3 DEF Receipt!deriveReceiptIntegration
<1>23. /\ k.merge = e /\ k.writtenAt \in Old /\ k.base \in Receipt!mainline
       /\ Receipt!inHistory(k.base, n) /\ ~ Receipt!carriesReceipt(k.base)
       /\ \A d \in Receipt!mainline :
             ~ (d > k.base /\ d # k.writtenAt /\ Receipt!inHistory(d, k.writtenAt))
  BY <1>16, <1>17, <1>20 DEF Receipt!baseCommitErrors
<1>24. ~ Receipt!descendantDriftErrors(m, k.merge)'
  <2> DEFINE paths == Receipt!PROTECTED_SUBJECT_PATHS \cup {"receipt"}
  <2>1. /\ Receipt!inHistory(k.merge, n)
        /\ Receipt!protectedAt(n, paths) = Receipt!protectedAt(k.merge, paths)
    BY <1>16 DEF Receipt!descendantDriftErrors
  <2>2. Receipt!inHistory(k.merge, m)'
    BY <1>12, <2>1
  <2>3. Receipt!protectedAt(m, paths)' = Receipt!protectedAt(n, paths)
    BY <1>15 DEF Receipt!protectedAt, Receipt!PROTECTED_SUBJECT_PATHS
  <2>4. Receipt!protectedAt(k.merge, paths)' = Receipt!protectedAt(k.merge, paths)
    BY <1>9, <1>20, <1>23 DEF Receipt!protectedAt
  <2> QED  BY <2>1, <2>2, <2>3, <2>4 DEF Receipt!descendantDriftErrors
<1>25. ~ Receipt!invalidSupersession(m)'
  <2> SUFFICES ASSUME NEW s \in Receipt!Tree(n).supersession
               PROVE  ~ Receipt!implSupersessionErrors(s, m)'
    BY <1>15 DEF Receipt!invalidSupersession
  <2>1. ~ Receipt!implSupersessionErrors(s, n)
    BY <1>16 DEF Receipt!invalidSupersession
  <2>2. Receipt!liveAvailability(Receipt!Tree(m)') = Receipt!liveAvailability(Receipt!Tree(n))
    BY <1>15 DEF Receipt!liveAvailability, Receipt!availabilityOf
  <2>3. /\ {s.receipt} = Receipt!Tree(n).receipt
        /\ s.historicalSubject \in Receipt!mainline
        /\ Receipt!inHistory(s.historicalSubject, n)
        /\ Receipt!Tree(s.historicalSubject).receipt = Receipt!Tree(n).receipt
        /\ Receipt!Tree(s.historicalSubject).availability \in Receipt!LIVE_AVAILABILITY_STATUSES
    BY <2>1 DEF Receipt!implSupersessionErrors, Receipt!PinnedOnly
  <2>4. Receipt!Tree(s.historicalSubject)' = Receipt!Tree(s.historicalSubject)
    BY <1>9, <1>10, <2>3
  <2>5. ~ Receipt!PinnedOnly(s, m)'
    BY <1>10, <1>12, <1>15, <2>3, <2>4 DEF Receipt!PinnedOnly, Receipt!LIVE_AVAILABILITY_STATUSES
  <2> QED  BY <2>1, <2>2, <2>5 DEF Receipt!implSupersessionErrors, Receipt!LIVE_AVAILABILITY_STATUSES
<1>26. ~ Receipt!baseCommitErrors(k.base, k.writtenAt, m)'
  <2>1. ~ Receipt!carriesReceipt(k.base)' /\ k.base \in Receipt!mainline'
    BY <1>10, <1>18, <1>23
  <2>2. Receipt!inHistory(k.base, m)'
    BY <1>12, <1>23
  <2>3. ASSUME NEW d \in Receipt!mainline', d > k.base, d # k.writtenAt,
               Receipt!inHistory(d, k.writtenAt)'
        PROVE  FALSE
    <3>1. d # m
      BY <1>13, <1>23, <2>3
    <3>2. d \in Receipt!mainline
      BY <1>10, <3>1
    <3>3. Receipt!inHistory(d, k.writtenAt)
      BY <1>11, <1>23, <2>3
    <3> QED  BY <1>23, <2>3, <3>2, <3>3
  <2> QED  BY <2>1, <2>2, <2>3 DEF Receipt!baseCommitErrors
<1>27. ~ Receipt!compareReceipt(m, Receipt!deriveImplReceipt(
             Receipt!readImplReceiptInputs(m, k.base, Receipt!boundSupersession(m))))'
  <2>1. PICK hist, i, j :
           /\ hist = Receipt!boundSupersession(n)
           /\ i = Receipt!readImplReceiptInputs(n, k.base, hist)
           /\ j = Receipt!readImplReceiptInputs(m, k.base, hist)'
    OBVIOUS
  <2>2. Receipt!boundSupersession(m)' = hist
    BY <1>15, <2>1 DEF Receipt!boundSupersession
  <2>3. Receipt!provingAvailabilityInputs(m, hist)' = Receipt!provingAvailabilityInputs(n, hist)
    <3>1. CASE hist = {}
      <4>1. Receipt!liveAvailability(Receipt!Tree(m)') = Receipt!liveAvailability(Receipt!Tree(n))
        BY <1>15 DEF Receipt!liveAvailability, Receipt!availabilityOf
      <4> QED  BY <1>15, <3>1, <4>1 DEF Receipt!provingAvailabilityInputs
    <3>2. CASE hist # {}
      <4>1. PICK d : d = CHOOSE x \in hist : TRUE
        OBVIOUS
      <4>2. PICK s \in Receipt!Tree(n).supersession : d = s.historicalSubject
        BY <2>1, <3>2, <4>1 DEF Receipt!boundSupersession
      <4>3. d \in Receipt!mainline
        BY <1>16, <4>2
           DEF Receipt!invalidSupersession, Receipt!implSupersessionErrors, Receipt!PinnedOnly
      <4>4. Receipt!Tree(d)' = Receipt!Tree(d)
        BY <1>9, <1>10, <4>3
      <4> QED  BY <3>2, <4>1, <4>4 DEF Receipt!provingAvailabilityInputs
    <3> QED  BY <3>1, <3>2
  <2>4. Receipt!Tree(k.base)' = Receipt!Tree(k.base)
    BY <1>9, <1>10, <1>23
  <2>5. Receipt!contractsChangedSince(k.base, Receipt!Tree(m))'
          = Receipt!contractsChangedSince(k.base, Receipt!Tree(n))
    BY <1>15, <2>4 DEF Receipt!contractsChangedSince, Receipt!PROTECTED_SUBJECT_PATHS
  <2>6. Receipt!wrapperAstFacts(Receipt!Tree(m)') = Receipt!wrapperAstFacts(Receipt!Tree(n))
    BY <1>15 DEF Receipt!wrapperAstFacts
  <2>7. /\ i.baseCommit = j.baseCommit /\ i.ast = j.ast
        /\ i.journalTypesAtBase = j.journalTypesAtBase
        /\ i.contractsChanged = j.contractsChanged /\ i.proving = j.proving
        /\ i.tree = Receipt!Tree(n) /\ j.tree = Receipt!Tree(m)'
    BY <2>1, <2>3, <2>4, <2>5, <2>6 DEF Receipt!readImplReceiptInputs
  <2>8. /\ i.tree.wrapper = j.tree.wrapper
        /\ \A f \in Receipt!Source \cup Receipt!Rule : i.tree[f] = j.tree[f]
    BY <1>15, <2>7
  <2>9. Receipt!deriveImplReceipt(i) = Receipt!deriveImplReceipt(j)
    BY <2>7, <2>8, DerivedAlike
  <2>10. Receipt!Tree(n).receipt = {Receipt!deriveImplReceipt(i)}
    BY <1>16, <2>1 DEF Receipt!compareReceipt
  <2> QED  BY <1>15, <2>1, <2>2, <2>9, <2>10 DEF Receipt!compareReceipt
<1> QED
  BY <1>15, <1>16, <1>17, <1>22, <1>24, <1>25, <1>26, <1>27
     DEF Receipt!implReceiptErrors, Receipt!receiptIntegrationErrors

\* The commits of main and of the lane are a history, and the heads are in it.
ReceiptHistory ==
    /\ Ordered(iCommits)
    /\ iHead = [b \in Receipt!Branch |-> iHead[b]]
    /\ \A b \in Receipt!Branch : iHead[b] \in 1..Len(iCommits)

\* A commit on a branch follows the head of that branch.
Grows(b, parents, tree) ==
    /\ Receipt!commitWith(b, parents, tree)
    /\ parents \in Seq(1..Len(iCommits)) /\ parents # <<>> /\ parents[1] = iHead[b]

LEMMA LedBy ==
    ASSUME NEW C, NEW s \in Seq(C), Len(s) = 1, NEW t \in Seq(C)
    PROVE  s \o t \in Seq(C) /\ s \o t # <<>> /\ (s \o t)[1] = s[1]
<1>1. /\ s \o t \in Seq(C) /\ Len(s \o t) = Len(s) + Len(t)
      /\ \A i \in 1..Len(s) + Len(t) : (s \o t)[i] = IF i <= Len(s) THEN s[i] ELSE t[i - Len(s)]
  BY ConcatProperties, Zenon
<1>2. Len(t) \in Nat /\ 1 \in 1..Len(s) + Len(t) /\ 1 <= Len(s)
  OBVIOUS
<1>3. s \o t # <<>>
  BY <1>1, <1>2
<1> QED  BY <1>1, <1>2, <1>3

LEMMA ReceiptGrows ==
    ASSUME ReceiptHistory, Receipt!Next
    PROVE  \/ Receipt!newBranch
           \/ \E b \in Receipt!Branch : \E parents, tree : Grows(b, parents, tree)
<1> USE DEF Receipt!Branch
<1>1. ASSUME NEW b \in Receipt!Branch, NEW tree, Receipt!commit(b, tree)
      PROVE  \E parents, t : Grows(b, parents, t)
  <2>1. PICK h \in 1..Len(iCommits) : h = iHead[b]
    BY DEF ReceiptHistory
  <2>2. <<h>> \in Seq(1..Len(iCommits)) /\ <<h>> # <<>> /\ <<h>>[1] = h
    OBVIOUS
  <2> QED  BY <1>1, <2>1, <2>2 DEF Receipt!commit, Grows
<1>2. ASSUME NEW into \in Receipt!Branch, NEW from \in Receipt!Branch, NEW squashed \in BOOLEAN,
             Receipt!merge(into, from, squashed)
      PROVE  \E parents, t : Grows(into, parents, t)
  <2>1. PICK h \in 1..Len(iCommits), g \in 1..Len(iCommits) : h = iHead[into] /\ g = iHead[from]
    BY DEF ReceiptHistory
  <2>2. PICK tree : Receipt!commitWith(into, <<h>> \o (IF squashed THEN <<>> ELSE <<g>>), tree)
    BY <1>2, <2>1 DEF Receipt!merge, Receipt!mergeCommit
  <2>3. PICK q : q = IF squashed THEN <<>> ELSE <<g>>
    OBVIOUS
  <2>4. <<h>> \in Seq(1..Len(iCommits)) /\ Len(<<h>>) = 1 /\ <<h>>[1] = h
    OBVIOUS
  <2>5. q \in Seq(1..Len(iCommits))
    <3>1. <<>> \in Seq(1..Len(iCommits)) /\ <<g>> \in Seq(1..Len(iCommits))
      OBVIOUS
    <3> QED  BY <2>3, <3>1
  <2>6. /\ <<h>> \o q \in Seq(1..Len(iCommits)) /\ <<h>> \o q # <<>>
        /\ (<<h>> \o q)[1] = h
    BY <2>4, <2>5, LedBy
  <2> QED  BY <2>1, <2>2, <2>3, <2>6 DEF Grows
<1> QED
  BY <1>1, <1>2 DEF Receipt!Next, Receipt!generate, Receipt!integrate, Receipt!supersede,
     Receipt!change, Receipt!withdraw, Receipt!restore

LEMMA ReceiptHistoryGrows ==
    ASSUME ReceiptHistory, NEW b \in Receipt!Branch, NEW parents, NEW tree,
           Grows(b, parents, tree)
    PROVE  /\ ReceiptHistory'
           /\ iCommits' = Append(iCommits, [parents |-> parents, tree |-> tree])
           /\ \A d \in Receipt!Branch :
                 iHead'[d] = IF d = b THEN Len(iCommits) + 1 ELSE iHead[d]
<1>0. PICK c : c = [parents |-> parents, tree |-> tree]
  OBVIOUS
<1>1. iCommits' = Append(iCommits, c) /\ iHead' = [iHead EXCEPT ![b] = Len(iCommits) + 1]
  BY <1>0 DEF Grows, Receipt!commitWith
<1>2. c.parents = parents /\ Len(iCommits) \in Nat /\ Ordered(iCommits)
  BY <1>0 DEF ReceiptHistory, Ordered
<1>3. Ordered(iCommits') /\ Len(iCommits') = Len(iCommits) + 1
  BY <1>1, <1>2, AppendOrdered DEF Grows
<1>4. \A d \in Receipt!Branch : iHead'[d] = IF d = b THEN Len(iCommits) + 1 ELSE iHead[d]
  BY <1>1 DEF ReceiptHistory
<1>5. iHead' = [d \in Receipt!Branch |-> iHead'[d]]
  BY <1>1 DEF ReceiptHistory
<1>6. \A d \in Receipt!Branch : iHead'[d] \in 1..Len(iCommits')
  BY <1>2, <1>3, <1>4 DEF ReceiptHistory
<1> QED  BY <1>0, <1>1, <1>3, <1>4, <1>5, <1>6 DEF ReceiptHistory

LEMMA ReceiptHistoryStep == ReceiptHistory /\ [Receipt!Next]_receipt => ReceiptHistory'
<1> SUFFICES ASSUME ReceiptHistory, [Receipt!Next]_receipt
             PROVE  ReceiptHistory'
  OBVIOUS
<1>1. CASE UNCHANGED receipt
  BY <1>1 DEF receipt, ReceiptHistory
<1>2. CASE Receipt!newBranch
  BY <1>2 DEF Receipt!newBranch, ReceiptHistory, Receipt!Branch
<1>3. ASSUME NEW b \in Receipt!Branch, NEW parents, NEW tree, Grows(b, parents, tree)
      PROVE  ReceiptHistory'
  BY <1>3, ReceiptHistoryGrows
<1> QED  BY <1>1, <1>2, <1>3, ReceiptGrows

\* What main's next commit leaves alone.
KeepsTaken ==
    (/\ ~ Receipt!implReceiptErrors(iHead["main"])
     /\ iHead["main"]' # iHead["main"]
     /\ \A f \in Receipt!File \ {"other"} :
           iCommits'[iHead["main"]'].tree[f] = Receipt!Tree(iHead["main"])[f])
      => ~ Receipt!implReceiptErrors(iHead["main"])'

LEMMA ReceiptKeepsTaken == ReceiptHistory /\ [Receipt!Next]_receipt => KeepsTaken
<1> SUFFICES ASSUME ReceiptHistory, [Receipt!Next]_receipt,
                    ~ Receipt!implReceiptErrors(iHead["main"]),
                    iHead'["main"] # iHead["main"],
                    \A f \in Receipt!File \ {"other"} :
                       iCommits'[iHead'["main"]].tree[f] = Receipt!Tree(iHead["main"])[f]
             PROVE  ~ Receipt!implReceiptErrors(iHead["main"])'
  BY DEF KeepsTaken
<1>1. "main" \in Receipt!Branch
  BY DEF Receipt!Branch
<1>2. PICK b, parents, tree : b \in Receipt!Branch /\ Grows(b, parents, tree)
  BY ReceiptGrows DEF receipt, Receipt!newBranch, ReceiptHistory, Receipt!Branch
<1>3. PICK n, m, c : /\ n = iHead["main"] /\ m = Len(iCommits) + 1
                     /\ c = [parents |-> parents, tree |-> tree]
  OBVIOUS
<1>4. /\ b = "main" /\ iHead'["main"] = m /\ iCommits' = Append(iCommits, c)
      /\ n \in 1..Len(iCommits)
  BY <1>1, <1>2, <1>3, ReceiptHistoryGrows DEF ReceiptHistory
<1>5. /\ Ordered(iCommits) /\ c.parents \in Seq(1..Len(iCommits)) /\ c.parents # <<>>
      /\ c.parents[1] = n
  BY <1>2, <1>3, <1>4 DEF ReceiptHistory, Grows
<1>6. iCommits'[m] = c
  BY <1>3, <1>4, <1>5, AppendOrdered
<1>7. \A f \in Receipt!File \ {"other"} : c.tree[f] = Receipt!Tree(n)[f]
  BY <1>3, <1>4, <1>6
<1>8. ~ Receipt!implReceiptErrors(m)'
  BY <1>3, <1>4, <1>5, <1>7, TakenStays
<1> QED  BY <1>4, <1>8

\* Where a history may begin: each commit has no parent, one, or two, all before it.
Places(s) ==
    \A i \in 1..Len(s) :
        \/ s[i].parents = <<>>
        \/ \E p \in 1..(i - 1) : s[i].parents = <<p>>
        \/ \E p \in 1..(i - 1), q \in 1..(i - 1) : s[i].parents = <<p, q>>

LEMMA PlacedOrdered ==
    ASSUME NEW C, NEW s \in Seq(C), Places(s)
    PROVE  Ordered(s)
<1>1. s = [n \in 1..Len(s) |-> s[n]] /\ Len(s) \in Nat
  BY SeqIsListed
<1>2. ASSUME NEW n \in 1..Len(s)
      PROVE  s[n].parents \in Seq(Nat) /\ \A p \in Parents(s, n) : p \in 1..(n - 1)
  <2>1. CASE s[n].parents = <<>>
    <3>1. <<>> \in Seq(Nat) /\ DOMAIN <<>> = {}
      OBVIOUS
    <3> QED  BY <2>1, <3>1 DEF Parents
  <2>2. ASSUME NEW p \in 1..(n - 1), s[n].parents = <<p>>
        PROVE  s[n].parents \in Seq(Nat) /\ \A r \in Parents(s, n) : r \in 1..(n - 1)
    <3>1. <<p>> \in Seq(Nat) /\ DOMAIN <<p>> = {1} /\ <<p>>[1] = p
      OBVIOUS
    <3> QED  BY <2>2, <3>1 DEF Parents
  <2>3. ASSUME NEW p \in 1..(n - 1), NEW q \in 1..(n - 1), s[n].parents = <<p, q>>
        PROVE  s[n].parents \in Seq(Nat) /\ \A r \in Parents(s, n) : r \in 1..(n - 1)
    <3>1. <<p, q>> \in Seq(Nat) /\ DOMAIN <<p, q>> = {1, 2} /\ <<p, q>>[1] = p /\ <<p, q>>[2] = q
      OBVIOUS
    <3> QED  BY <2>3, <3>1 DEF Parents
  <2> QED  BY <2>1, <2>2, <2>3 DEF Places
<1> QED  BY <1>1, <1>2 DEF Ordered

LEMMA CutPlaced ==
    ASSUME NEW C, NEW s \in Seq(C), Places(s), NEW n \in 0..Len(s)
    PROVE  /\ SubSeq(s, 1, n) \in Seq(C) /\ Len(SubSeq(s, 1, n)) = n
           /\ Places(SubSeq(s, 1, n))
<1>1. SubSeq(s, 1, n) \in Seq(C) /\ Len(SubSeq(s, 1, n)) = n
  BY CutTyped
<1>2. \A i \in 1..n : SubSeq(s, 1, n)[i] = s[i] /\ i \in 1..Len(s)
  OBVIOUS
<1> QED  BY <1>1, <1>2 DEF Places

LEMMA JoinedPlaced ==
    ASSUME NEW C, NEW s \in Seq(C), Places(s), NEW t \in Seq(C),
           \A i \in 1..Len(t) :
              \/ t[i].parents = <<>>
              \/ \E p \in 1..(Len(s) + i - 1) : t[i].parents = <<p>>
              \/ \E p \in 1..(Len(s) + i - 1), q \in 1..(Len(s) + i - 1) : t[i].parents = <<p, q>>
    PROVE  /\ s \o t \in Seq(C) /\ Len(s \o t) = Len(s) + Len(t)
           /\ Places(s \o t)
<1>1. /\ s \o t \in Seq(C) /\ Len(s \o t) = Len(s) + Len(t)
      /\ \A i \in 1..Len(s) + Len(t) : (s \o t)[i] = IF i <= Len(s) THEN s[i] ELSE t[i - Len(s)]
  BY ConcatProperties, Zenon
<1>2. Len(s) \in Nat /\ Len(t) \in Nat
  OBVIOUS
<1>3. PICK u : u = s \o t
  OBVIOUS
<1>4. ASSUME NEW i \in 1..Len(u)
      PROVE  \/ u[i].parents = <<>>
             \/ \E p \in 1..(i - 1) : u[i].parents = <<p>>
             \/ \E p \in 1..(i - 1), q \in 1..(i - 1) : u[i].parents = <<p, q>>
  <2>1. CASE i <= Len(s)
    <3>1. i \in 1..Len(s) /\ u[i] = s[i]
      BY <1>1, <1>2, <1>3, <2>1
    <3> QED  BY <3>1, Zenon DEF Places
  <2>2. CASE ~ i <= Len(s)
    <3>1. PICK j \in 1..Len(t) : j = i - Len(s) /\ Len(s) + j - 1 = i - 1 /\ u[i] = t[j]
      BY <1>1, <1>2, <1>3, <2>2
    <3> QED  BY <3>1
  <2> QED  BY <2>1, <2>2
<1> QED  BY <1>1, <1>3, <1>4 DEF Places

LEMMA IntegratedPlaced ==
    \E C : /\ Receipt!Integrated \in Seq(C) /\ Receipt!Overtaken \in Seq(C)
           /\ Len(Receipt!Integrated) = 5 /\ Len(Receipt!Overtaken) = 5
           /\ Places(Receipt!Integrated) /\ Places(Receipt!Overtaken)
<1>1. PICK written, bound :
         Receipt!Integrated =
              Receipt!Linear(<<Receipt!First, Receipt!Pinned>>) \o
              <<[parents |-> <<2>>, tree |-> written],
                [parents |-> <<1, 3>>, tree |-> written],
                [parents |-> <<4>>, tree |-> bound]>>
  BY DEF Receipt!Integrated
<1> DEFINE work == Receipt!Linear(<<Receipt!First, Receipt!Pinned>>)
           lane == <<[parents |-> <<2>>, tree |-> written],
                     [parents |-> <<1, 3>>, tree |-> written],
                     [parents |-> <<4>>, tree |-> bound]>>
           rest == <<[parents |-> <<1>>, tree |-> Receipt!Pinned],
                     [parents |-> <<3, 4>>, tree |-> Receipt!Integrated[3].tree]>>
           trees == {Receipt!First, Receipt!Pinned, written, bound, Receipt!Integrated[3].tree}
           D == {[parents |-> p, tree |-> t] :
                   p \in {<<>>, <<1>>, <<2>>, <<1, 3>>, <<4>>, <<3, 4>>}, t \in trees}
<1>2. work \in Seq(D) /\ Len(work) = 2 /\ work[1].parents = <<>> /\ work[2].parents = <<1>>
  <2>1. \A x, y : Len(<<x, y>>) = 2 /\ DOMAIN <<x, y>> = 1..2 /\ <<x, y>>[1] = x /\ <<x, y>>[2] = y
    OBVIOUS
  <2>2. work = [n \in 1..2 |-> [parents |-> IF n = 1 THEN <<>> ELSE <<n - 1>>,
                                tree |-> <<Receipt!First, Receipt!Pinned>>[n]]]
    BY <2>1 DEF Receipt!Linear
  <2>3. \A n \in 1..2 : work[n] \in D
    BY <2>1, <2>2
  <2>4. work[1].parents = <<>> /\ work[2].parents = <<1>>
    BY <2>2
  <2> HIDE DEF work, D
  <2> QED  BY <2>2, <2>3, <2>4
<1>3. /\ lane \in Seq(D) /\ Len(lane) = 3
      /\ lane[1].parents = <<2>> /\ lane[2].parents = <<1, 3>> /\ lane[3].parents = <<4>>
  <2>1. /\ [parents |-> <<2>>, tree |-> written] \in D
        /\ [parents |-> <<1, 3>>, tree |-> written] \in D
        /\ [parents |-> <<4>>, tree |-> bound] \in D
    OBVIOUS
  <2> HIDE DEF D
  <2> QED  BY <2>1
<1>4. /\ rest \in Seq(D) /\ Len(rest) = 2
      /\ rest[1].parents = <<1>> /\ rest[2].parents = <<3, 4>>
  <2>1. /\ [parents |-> <<1>>, tree |-> Receipt!Pinned] \in D
        /\ [parents |-> <<3, 4>>, tree |-> Receipt!Integrated[3].tree] \in D
    OBVIOUS
  <2> HIDE DEF D
  <2> QED  BY <2>1
<1>5. Receipt!Integrated = work \o lane /\ Receipt!Overtaken = SubSeq(Receipt!Integrated, 1, 3) \o rest
  BY <1>1 DEF Receipt!Overtaken
<1> HIDE DEF work, lane, rest, trees, D
<1>6. Places(work)
  BY <1>2 DEF Places
<1>7. \A i \in 1..Len(lane) :
         \/ lane[i].parents = <<>>
         \/ \E p \in 1..(Len(work) + i - 1) : lane[i].parents = <<p>>
         \/ \E p \in 1..(Len(work) + i - 1), q \in 1..(Len(work) + i - 1) : lane[i].parents = <<p, q>>
  BY <1>2, <1>3
<1>8. /\ Receipt!Integrated \in Seq(D) /\ Len(Receipt!Integrated) = 5
      /\ Places(Receipt!Integrated)
  <2>1. /\ work \o lane \in Seq(D) /\ Len(work \o lane) = Len(work) + Len(lane)
        /\ Places(work \o lane)
    BY <1>2, <1>3, <1>6, <1>7, JoinedPlaced, Zenon
  <2>2. Len(work) + Len(lane) = 5
    BY <1>2, <1>3
  <2> QED  BY <1>5, <2>1, <2>2, Zenon
<1> DEFINE begun == SubSeq(Receipt!Integrated, 1, 3)
<1>9. begun \in Seq(D) /\ Len(begun) = 3 /\ Places(begun)
  <2>1. 3 \in 0..Len(Receipt!Integrated)
    BY <1>8
  <2> QED  BY <1>8, <2>1, CutPlaced, Zenon
<1> HIDE DEF begun
<1>10. \A i \in 1..Len(rest) :
         \/ rest[i].parents = <<>>
         \/ \E p \in 1..(Len(begun) + i - 1) : rest[i].parents = <<p>>
         \/ \E p \in 1..(Len(begun) + i - 1), q \in 1..(Len(begun) + i - 1) : rest[i].parents = <<p, q>>
  BY <1>4, <1>9
<1>11. /\ Receipt!Overtaken \in Seq(D) /\ Len(Receipt!Overtaken) = 5
       /\ Places(Receipt!Overtaken)
  <2>1. /\ begun \o rest \in Seq(D) /\ Len(begun \o rest) = Len(begun) + Len(rest)
        /\ Places(begun \o rest)
    BY <1>4, <1>9, <1>10, JoinedPlaced, Zenon
  <2>2. Len(begun) + Len(rest) = 5
    BY <1>4, <1>9
  <2>3. Receipt!Overtaken = begun \o rest
    BY <1>5 DEF begun
  <2> QED  BY <2>1, <2>2, <2>3, Zenon
<1> QED  BY <1>8, <1>11

LEMMA ReceiptHistoryStart == Receipt!Init => ReceiptHistory
<1> SUFFICES ASSUME Receipt!Init
             PROVE  ReceiptHistory
  OBVIOUS
<1>1. PICK C : /\ Receipt!Integrated \in Seq(C) /\ Receipt!Overtaken \in Seq(C)
               /\ Len(Receipt!Integrated) = 5 /\ Len(Receipt!Overtaken) = 5
               /\ Places(Receipt!Integrated) /\ Places(Receipt!Overtaken)
  BY IntegratedPlaced
<1>2. ASSUME NEW last \in {2, 3, 5}, iCommits = SubSeq(Receipt!Integrated, 1, last),
             iHead = [b \in Receipt!Branch |-> IF b = "main" /\ last < 5 THEN 1 ELSE last]
      PROVE  ReceiptHistory
  <2>1. last \in 0..Len(Receipt!Integrated)
    BY <1>1
  <2>2. iCommits \in Seq(C) /\ Len(iCommits) = last /\ Places(iCommits)
    BY <1>1, <1>2, <2>1, CutPlaced, Zenon
  <2>3. Ordered(iCommits)
    BY <2>2, PlacedOrdered, Zenon
  <2> QED  BY <1>2, <2>2, <2>3 DEF ReceiptHistory
<1>3. ASSUME iCommits = Receipt!Overtaken,
             iHead = [b \in Receipt!Branch |-> IF b = "main" THEN 4 ELSE 5]
      PROVE  ReceiptHistory
  <2>1. Ordered(iCommits)
    BY <1>1, <1>3, PlacedOrdered, Zenon
  <2>2. \A b \in Receipt!Branch : iHead[b] \in 1..5
    BY <1>3
  <2>3. iHead = [b \in Receipt!Branch |-> iHead[b]]
    BY <1>3
  <2>4. Len(iCommits) = 5
    BY <1>1, <1>3, Zenon
  <2> QED  BY <2>1, <2>2, <2>3, <2>4, Zenon DEF ReceiptHistory
<1> QED  BY <1>2, <1>3 DEF Receipt!Init

\* A receipt once taken on main is not refused for what main does beside it
\* (sp1-impl-receipt.ts:1580-1582, the false STOP): for any changes main and the lane make, and
\* any number of commits and merges.
THEOREM TakenReceiptsStayTaken == Spec => StaysTaken
<1>1. Init => ReceiptHistory
  BY ReceiptHistoryStart DEF Init
<1>2. ReceiptHistory /\ [Next]_all => ReceiptHistory' /\ [KeepsTaken]_receipt
  <2>1. [Next]_all => [Receipt!Next]_receipt
    BY DEF Next, all, receipt
  <2> QED  BY <2>1, ReceiptHistoryStep, ReceiptKeepsTaken
<1>3. Spec => [][KeepsTaken]_receipt
  BY <1>1, <1>2, PTL DEF Spec, all
<1> QED  BY <1>3 DEF StaysTaken, Receipt!StaysTaken, KeepsTaken, receipt, Receipt!vars, Receipt!history

-----------------------------------------------------------------------------
(* Two accepted directories become one *)

LEMMA ExerciseCardinality == \A S : Exercise!Cardinality(S) = Cardinality(S)
  BY DEF Exercise!Cardinality, Cardinality, Exercise!IsFiniteSet, IsFiniteSet

LEMMA ExerciseWalksNext == Exercise!ancestors' = AncestorsIn(xCommits')
  BY DEF Exercise!ancestors, AncestorsIn, Parents, Exercise!parentsOf

LEMMA GreatestOf ==
    ASSUME NEW N \in Nat, NEW T, \A x \in T : x \in 1..N, T # {}
    PROVE  \E x \in T : \A y \in T : y <= x
<1> DEFINE D == {N - x : x \in T}
<1>1. PICK d \in D : \A e \in D : d <= e
  <2>1. D # {} /\ \A e \in D : e \in Nat
    OBVIOUS
  <2> HIDE DEF D
  <2> QED  BY <2>1, LeastOf
<1>2. PICK x \in T : d = N - x
  OBVIOUS
<1>3. ASSUME NEW y \in T
      PROVE  y <= x
  <2>1. N - y \in D
    OBVIOUS
  <2>2. d <= N - y
    BY <1>1, <2>1
  <2> QED  BY <1>2, <2>2
<1> QED  BY <1>3

\* The first commit is behind every other.
LEMMA RootBehind ==
    ASSUME NEW cs, Ordered(cs), Rooted(cs), NEW n \in 1..Len(cs)
    PROVE  1 \in AncestorsIn(cs)[n] \cup {n}
<1> DEFINE A == AncestorsIn(cs)
           Bad == {k \in 1..Len(cs) : 1 \notin A[k] \cup {k}}
<1> SUFFICES ASSUME Bad # {}
             PROVE  FALSE
  OBVIOUS
<1>1. PICK k \in Bad : \A j \in Bad : k <= j
  <2>1. \A k \in Bad : k \in Nat
    BY DEF Ordered
  <2> HIDE DEF Bad
  <2> QED  BY <2>1, LeastOf
<1>2. k \in 1..Len(cs) /\ k # 1 /\ Len(cs) \in Nat
  BY DEF Ordered
<1>3. PICK p : p \in Parents(cs, k)
  BY <1>2 DEF Rooted
<1>4. p \in 1..(k - 1)
  BY <1>2, <1>3 DEF Ordered
<1>5. p \in 1..Len(cs) /\ ~ k <= p
  BY <1>2, <1>4
<1>6. p \notin Bad
  BY <1>1, <1>5
<1>7. A[k] = Parents(cs, k) \cup UNION {A[q] : q \in Parents(cs, k)}
  BY <1>2, AncestorsUnfold
<1> HIDE DEF A
<1>8. 1 \in A[p] \cup {p}
  BY <1>5, <1>6
<1> QED  BY <1>3, <1>7, <1>8

\* The base of a merge is behind both sides, or is one of them.
LEMMA BaseBehind ==
    ASSUME ExerciseInv, NEW m \in 1..Len(xCommits), NEW n \in 1..Len(xCommits)
    PROVE  Exercise!mergeBase(m, n) \in
              (Exercise!ancestors[m] \cup {m}) \cap (Exercise!ancestors[n] \cup {n})
<1> DEFINE A == AncestorsIn(xCommits)
           both == (A[m] \cup {m}) \cap (A[n] \cup {n})
<1>1. Ordered(xCommits) /\ Rooted(xCommits) /\ Len(xCommits) \in Nat
  BY DEF ExerciseInv, Ordered
<1>2. 1 \in both
  BY <1>1, RootBehind
<1>3. \A k \in both : k \in 1..Len(xCommits)
  <2>1. \A k \in A[m] : k \in 1..(m - 1)
    BY <1>1, AncestorsBefore
  <2> QED  BY <1>1, <2>1
<1>4. Exercise!mergeBase(m, n) = CHOOSE k \in both : \A j \in both : j <= k
  BY ExerciseWalks DEF Exercise!mergeBase
<1>5. both = (Exercise!ancestors[m] \cup {m}) \cap (Exercise!ancestors[n] \cup {n})
  BY ExerciseWalks
<1> HIDE DEF both
<1>6. \E k \in both : \A j \in both : j <= k
  BY <1>1, <1>2, <1>3, GreatestOf
<1> QED  BY <1>4, <1>5, <1>6

\* A record rests on the one run and the one verification under its slot.
RunOf(r) == [kind |-> "run", slot |-> r.slot, run |-> r.run]

Stands(r, t) ==
    /\ Exercise!At(r.slot, "run", t) = {RunOf(r)}
    /\ Exercise!At(r.slot, "verification", t) = {r.verification}
    /\ ~ Exercise!Misnamed(RunOf(r))
    /\ ~ Exercise!exerciseErrors(RunOf(r), r.verification, t)
    /\ r = Exercise!deriveExerciseRecord(RunOf(r), r.verification, t)
    /\ ~ Exercise!commitContentErrors(xRuns[r.run], t)

LEMMA OnlyMember ==
    ASSUME NEW S, IsFiniteSet(S), Cardinality(S) = 1, NEW x \in S
    PROVE  S = {x}
<1>1. PICK y : S = {y}
  BY FS_Singleton
<1> QED  BY <1>1

LEMMA AcceptedStands ==
    ASSUME ExerciseInv, NEW n \in 1..Len(xCommits), Exercise!exerciseEvidenceState(n) = "ACCEPTED",
           NEW r \in Exercise!Of("record", Exercise!Tree(n))
    PROVE  Stands(r, Exercise!Tree(n)) /\ Exercise!inHistory(xRuns[r.run].commit, n)
<1> DEFINE t == Exercise!Tree(n)
<1>1. ~ Exercise!productionExerciseErrors(n)
  BY DEF Exercise!exerciseEvidenceState
<1>2. Exercise!judgeExercise(r, n) /\ ~ Exercise!exerciseDirectoryErrors(t)
  BY <1>1 DEF Exercise!productionExerciseErrors
<1>3. PICK file \in Exercise!At(r.slot, "run", t), v \in Exercise!At(r.slot, "verification", t) :
         /\ ~ Exercise!Misnamed(file)
         /\ ~ Exercise!exerciseErrors(file, v, t)
         /\ r = Exercise!deriveExerciseRecord(file, v, t)
         /\ Exercise!inHistory(xRuns[file.run].commit, n)
         /\ ~ Exercise!commitContentErrors(xRuns[file.run], t)
  BY <1>2 DEF Exercise!judgeExercise
<1>4. r.run = file.run /\ r.slot = file.slot /\ r.verification = v
  BY <1>3 DEF Exercise!deriveExerciseRecord
<1>5. Checkout(t, xRuns)
  BY DEF ExerciseInv, Exercise!Tree
<1>6. file = RunOf(r)
  <2>1. file \in t.files /\ file.kind = "run"
    BY <1>3 DEF Exercise!At, Exercise!Of
  <2>2. IsRun(file)
    BY <1>5, <2>1 DEF Checkout, Filed, IsVerification
  <2>3. file = [kind |-> "run", slot |-> file.slot, run |-> file.run]
    BY <2>2 DEF IsRun
  <2> QED  BY <1>4, <2>3 DEF RunOf
<1>7. ASSUME NEW kind
      PROVE  IsFiniteSet(Exercise!At(r.slot, kind, t))
  <2>1. Exercise!At(r.slot, kind, t) \subseteq t.files
    BY DEF Exercise!At, Exercise!Of
  <2> QED  BY <1>5, <2>1, FS_Subset DEF Checkout
<1>8. /\ Cardinality(Exercise!At(r.slot, "run", t)) = 1
      /\ Cardinality(Exercise!At(r.slot, "verification", t)) = 1
  BY <1>2, ExerciseCardinality DEF Exercise!exerciseDirectoryErrors
<1>9. Exercise!At(r.slot, "run", t) = {file} /\ Exercise!At(r.slot, "verification", t) = {v}
  BY <1>3, <1>7, <1>8, OnlyMember
<1> QED  BY <1>3, <1>4, <1>6, <1>9 DEF Stands

\* In an accepted directory there is nothing but records and what they were derived from.
LEMMA NothingElse ==
    ASSUME ExerciseInv, NEW n \in 1..Len(xCommits), Exercise!exerciseEvidenceState(n) = "ACCEPTED",
           NEW f \in Exercise!Tree(n).files
    PROVE  /\ \E r \in Exercise!Of("record", Exercise!Tree(n)) : r.slot = f.slot
           /\ \/ f \in Exercise!Of("record", Exercise!Tree(n))
              \/ f.kind # "record" /\ f \in Exercise!derivedObservationAt(Exercise!Tree(n))
<1> DEFINE t == Exercise!Tree(n)
           Records == Exercise!Of("record", t)
<1>1. ~ Exercise!productionExerciseErrors(n) /\ Records # {}
  BY DEF Exercise!exerciseEvidenceState
<1>2. ~ Exercise!unrecordedExerciseErrors(t)
  BY <1>1 DEF Exercise!productionExerciseErrors
<1>3. PICK r \in Records : r.slot = f.slot
  BY <1>2 DEF Exercise!unrecordedExerciseErrors, Exercise!Pending
<1>4. Stands(r, t)
  BY <1>3, AcceptedStands
<1>5. f.kind \in {"record", "run", "verification"}
  <2>1. Filed(f, xRuns)
    BY DEF ExerciseInv, Exercise!Tree, Checkout
  <2> QED  BY <2>1 DEF Filed, IsRun, IsVerification
<1>6. CASE f.kind = "record"
  BY <1>3, <1>6 DEF Exercise!Of
<1>7. CASE f.kind = "run"
  <2>1. f = RunOf(r)
    BY <1>3, <1>4, <1>7 DEF Stands, Exercise!At, Exercise!Of
  <2>2. r.verification.slotOfRun = r.slot
    BY <1>4 DEF Stands, Exercise!exerciseErrors, Exercise!verificationObservationErrors, RunOf
  <2>3. Exercise!Name(f) = <<"run", r.verification.slotOfRun, Label[r.run]>>
    BY <2>1, <2>2 DEF Exercise!Name, RunOf
  <2> QED  BY <1>3, <1>7, <2>3 DEF Exercise!derivedObservationAt
<1>8. CASE f.kind = "verification"
  <2>1. f = r.verification
    BY <1>3, <1>4, <1>8 DEF Stands, Exercise!At, Exercise!Of
  <2> QED  BY <1>3, <1>8, <2>1 DEF Exercise!derivedObservationAt
<1> QED  BY <1>5, <1>6, <1>7, <1>8

\* Two accepted directories whose branches neither dropped what the other rests on.
Mergeable(h, g) ==
    /\ h \in 1..Len(xCommits) /\ g \in 1..Len(xCommits)
    /\ \A x \in {h, g} : Exercise!exerciseEvidenceState(x) = "ACCEPTED"
    /\ \A x \in {h, g} :
          Exercise!derivedObservationAt(Exercise!Tree(x))
            \cap Exercise!Tree(Exercise!mergeBase(h, g)).files
              \subseteq Exercise!Tree(h).files \cap Exercise!Tree(g).files
    /\ \A what \in Exercise!Bound \ {"host"} : Exercise!Tree(h)[what] = Exercise!Tree(g)[what]
    /\ ~ Exercise!SameName(Exercise!Merged(h, g).files)

\* Nothing is lost: what the base had is on both sides.
LEMMA MergedHasAll ==
    ASSUME ExerciseInv, NEW h, NEW g, Mergeable(h, g)
    PROVE  Exercise!Merged(h, g).files = Exercise!Tree(h).files \cup Exercise!Tree(g).files
<1> DEFINE k == Exercise!mergeBase(h, g)
           base == Exercise!Tree(k).files
           ours == Exercise!Tree(h).files
           theirs == Exercise!Tree(g).files
<1>1. Exercise!Merged(h, g).files = (ours \cap theirs) \cup (ours \ base) \cup (theirs \ base)
  BY DEF Exercise!Merged, Exercise!MergedFiles
<1>2. /\ k \in Exercise!ancestors[h] \cup {h}
      /\ k \in Exercise!ancestors[g] \cup {g}
  BY BaseBehind DEF Mergeable
<1>3. ASSUME NEW x \in {h, g}
      PROVE  Exercise!Of("record", Exercise!Tree(k)) \subseteq Exercise!Tree(x).files
  <2>1. x \in 1..Len(xCommits) /\ Exercise!exerciseEvidenceState(x) = "ACCEPTED"
    BY DEF Mergeable
  <2>2. ~ Exercise!exerciseHistoryErrors(x)
    BY <2>1 DEF Exercise!exerciseEvidenceState, Exercise!productionExerciseErrors
  <2>3. \A m \in Exercise!ancestors[x] :
           Exercise!Of("record", Exercise!Tree(m)) \subseteq Exercise!Tree(x).files
    BY <2>1, <2>2, NoRecordLost
  <2>4. Exercise!Of("record", Exercise!Tree(x)) \subseteq Exercise!Tree(x).files
    BY DEF Exercise!Of
  <2>5. k \in Exercise!ancestors[x] \cup {x}
    BY <1>2
  <2> QED  BY <2>3, <2>4, <2>5
<1>4. ASSUME NEW x \in {h, g}, NEW f \in Exercise!Tree(x).files, f \in base
      PROVE  f \in ours \cap theirs
  <2>1. x \in 1..Len(xCommits) /\ Exercise!exerciseEvidenceState(x) = "ACCEPTED"
    BY DEF Mergeable
  <2>2. CASE f \in Exercise!Of("record", Exercise!Tree(x))
    <3>1. f \in Exercise!Of("record", Exercise!Tree(k))
      BY <1>4, <2>2 DEF Exercise!Of
    <3> QED  BY <1>3, <3>1
  <2>3. CASE f \in Exercise!derivedObservationAt(Exercise!Tree(x))
    BY <1>4, <2>3 DEF Mergeable
  <2> QED  BY <1>4, <2>1, <2>2, <2>3, NothingElse
<1> QED  BY <1>1, <1>4

LEMMA MergedBound ==
    ASSUME NEW h, NEW g, Mergeable(h, g), NEW x \in {h, g}, NEW what \in Exercise!Bound \ {"host"}
    PROVE  Exercise!Merged(h, g)[what] = Exercise!Tree(x)[what]
<1>1. what # "files" /\ what \in Exercise!Bound \cup {"files"}
  BY DEF Exercise!Bound
<1>2. Exercise!Tree(h)[what] = Exercise!Tree(g)[what]
  BY DEF Mergeable
<1> QED  BY <1>1, <1>2 DEF Exercise!Merged, Exercise!ThreeWay

\* One record a slot: sides that both record a slot record the same of it.
LEMMA OneRecordASlot ==
    ASSUME NEW h, NEW g, Mergeable(h, g), NEW r \in Exercise!Of("record", Exercise!Merged(h, g)),
           NEW s \in Exercise!Of("record", Exercise!Merged(h, g)), r.slot = s.slot
    PROVE  r = s
<1>1. Exercise!Name(r) = Exercise!Name(s)
  BY DEF Exercise!Of, Exercise!Name
<1> QED  BY <1>1 DEF Mergeable, Exercise!SameName, Exercise!Of

LEMMA MergedStands ==
    ASSUME ExerciseInv, NEW h, NEW g, Mergeable(h, g),
           NEW r \in Exercise!Of("record", Exercise!Merged(h, g))
    PROVE  /\ Stands(r, Exercise!Merged(h, g))
           /\ \E x \in {h, g} : Exercise!inHistory(xRuns[r.run].commit, x)
<1> DEFINE u == Exercise!Merged(h, g)
<1>1. u.files = Exercise!Tree(h).files \cup Exercise!Tree(g).files
  BY MergedHasAll
<1>2. \A x \in {h, g} :
         x \in 1..Len(xCommits) /\ Exercise!exerciseEvidenceState(x) = "ACCEPTED"
  BY DEF Mergeable
<1>3. \A x \in {h, g} : Exercise!Tree(x).files \subseteq u.files
  BY <1>1
<1>4. \A x \in {h, g} : \A what \in Exercise!Bound \ {"host"} : u[what] = Exercise!Tree(x)[what]
  BY MergedBound
<1>5. PICK x \in {h, g} : r \in Exercise!Of("record", Exercise!Tree(x))
  BY <1>1 DEF Exercise!Of
<1> DEFINE t == Exercise!Tree(x)
<1>6. Stands(r, t) /\ Exercise!inHistory(xRuns[r.run].commit, x)
  BY <1>2, <1>5, AcceptedStands
<1>7. ASSUME NEW f \in u.files, f.slot = r.slot
      PROVE  \E y \in {h, g} : f \in Exercise!Tree(y).files /\ Stands(r, Exercise!Tree(y))
  <2>1. PICK y \in {h, g} : f \in Exercise!Tree(y).files
    BY <1>1
  <2>2. PICK s \in Exercise!Of("record", Exercise!Tree(y)) : s.slot = f.slot
    BY <1>2, <2>1, NothingElse
  <2>3. s \in Exercise!Of("record", u)
    BY <1>3, <2>2 DEF Exercise!Of
  <2>4. r = s
    BY <1>7, <2>2, <2>3, OneRecordASlot
  <2> QED  BY <1>2, <2>1, <2>2, <2>4, AcceptedStands
<1> HIDE DEF u
<1>8. Exercise!At(r.slot, "run", u) = {RunOf(r)}
  <2>1. RunOf(r) \in Exercise!At(r.slot, "run", u)
    BY <1>3, <1>6 DEF Stands, Exercise!At, Exercise!Of
  <2>2. \A f \in Exercise!At(r.slot, "run", u) : f = RunOf(r)
    BY <1>7 DEF Stands, Exercise!At, Exercise!Of
  <2> QED  BY <2>1, <2>2
<1>9. Exercise!At(r.slot, "verification", u) = {r.verification}
  <2>1. r.verification \in Exercise!At(r.slot, "verification", u)
    BY <1>3, <1>6 DEF Stands, Exercise!At, Exercise!Of
  <2>2. \A f \in Exercise!At(r.slot, "verification", u) : f = r.verification
    BY <1>7 DEF Stands, Exercise!At, Exercise!Of
  <2> QED  BY <2>1, <2>2
<1>10. /\ u.run = t.run /\ u.attributed = t.attributed /\ u.verification = t.verification
       /\ u.archive = t.archive
       /\ \A generation : u[Exercise!Tool(generation)] = t[Exercise!Tool(generation)]
  BY <1>4 DEF Exercise!Bound, Exercise!Tool
<1>11. ~ Exercise!exerciseErrors(RunOf(r), r.verification, u)
  BY <1>6, <1>10 DEF Stands, Exercise!exerciseErrors, Exercise!attributedRunObservationErrors,
     Exercise!runObservationErrors, Exercise!verificationObservationErrors, Exercise!sharedErrors
<1>12. r = Exercise!deriveExerciseRecord(RunOf(r), r.verification, u)
  BY <1>6, <1>10 DEF Stands, Exercise!deriveExerciseRecord
<1>13. ~ Exercise!commitContentErrors(xRuns[r.run], u)
  BY <1>6, <1>10 DEF Stands, Exercise!commitContentErrors
<1>14. Stands(r, u)
  BY <1>6, <1>8, <1>9, <1>11, <1>12, <1>13 DEF Stands
<1> QED  BY <1>6, <1>14 DEF u

\* At most one exercise of each generation, under a slot of its own.
FewSlots(t) ==
    \A r, s \in Exercise!Of("record", t) :
        r.slot = Exercise!V1 \/ s.slot \in {Exercise!V1, r.slot}

LEMMA MergedDirectory ==
    ASSUME ExerciseInv, NEW h, NEW g, Mergeable(h, g), FewSlots(Exercise!Merged(h, g))
    PROVE  LET u == Exercise!Merged(h, g) IN
           /\ Exercise!Of("record", u) # {} /\ u.archive \in Exercise!Accepted
           /\ ~ Exercise!exerciseDirectoryErrors(u) /\ ~ Exercise!unrecordedExerciseErrors(u)
<1> DEFINE u == Exercise!Merged(h, g)
           Records == Exercise!Of("record", u)
<1>1. u.files = Exercise!Tree(h).files \cup Exercise!Tree(g).files
  BY MergedHasAll
<1>2. \A x \in {h, g} :
         x \in 1..Len(xCommits) /\ Exercise!exerciseEvidenceState(x) = "ACCEPTED"
  BY DEF Mergeable
<1>3. \A x \in {h, g} : Exercise!Of("record", Exercise!Tree(x)) \subseteq Records
  BY <1>1 DEF Exercise!Of
<1>4. /\ Exercise!Of("record", Exercise!Tree(h)) # {}
      /\ Exercise!Tree(h).archive \in Exercise!Accepted
  BY <1>2 DEF Exercise!exerciseEvidenceState, Exercise!productionExerciseErrors
<1>5. u.archive = Exercise!Tree(h).archive
  <2>1. "archive" \in Exercise!Bound \ {"host"}
    BY DEF Exercise!Bound
  <2> QED  BY <2>1, MergedBound
<1>6. IsFiniteSet(u.files)
  <2>1. IsFiniteSet(Exercise!Tree(h).files) /\ IsFiniteSet(Exercise!Tree(g).files)
    BY <1>2 DEF ExerciseInv, Checkout, Exercise!Tree
  <2> QED  BY <1>1, <2>1, FS_Union
<1>7. \A r \in Records : Stands(r, u)
  BY MergedStands
<1>8. \A r, s \in Records : r.slot = s.slot => r = s
  BY OneRecordASlot
<1>9. ~ Exercise!unrecordedExerciseErrors(u)
  <2>1. ASSUME NEW f \in u.files
        PROVE  \E r \in Records : r.slot = f.slot
    BY <1>1, <1>2, <1>3, NothingElse
  <2> QED  BY <2>1 DEF Exercise!unrecordedExerciseErrors, Exercise!Pending
<1> HIDE DEF u
<1>10. \A r \in Records : /\ Exercise!Cardinality(Exercise!At(r.slot, "run", u)) = 1
                          /\ Exercise!Cardinality(Exercise!At(r.slot, "verification", u)) = 1
  BY <1>7, ExerciseCardinality, FS_Singleton DEF Stands
<1>11. ASSUME NEW generation \in {"v1", "v2"}
       PROVE  ~ Exercise!Cardinality(Exercise!Held(generation, u)) > Exercise!MAX_RECORDS
  <2> DEFINE H == Exercise!Held(generation, u)
  <2>1. H \subseteq u.files
    BY DEF Exercise!Held, Exercise!Of
  <2>2. IsFiniteSet(H)
    BY <1>6, <2>1, FS_Subset
  <2>3. \A r, s \in H : r = s
    BY <1>8 DEF FewSlots, Exercise!Held, Exercise!generationOf, u
  <2> HIDE DEF H
  <2>4. Cardinality(H) < 2
    BY <2>2, <2>3, MoreThanOne
  <2>5. Cardinality(H) \in Nat
    BY <2>2, FS_CardinalityType
  <2>6. Exercise!Cardinality(H) = Cardinality(H)
    BY ExerciseCardinality
  <2>7. ~ Exercise!Cardinality(H) > Exercise!MAX_RECORDS
    BY <2>4, <2>5, <2>6 DEF Exercise!MAX_RECORDS
  <2> QED  BY <2>7 DEF H
<1>12. ~ Exercise!exerciseDirectoryErrors(u)
  BY <1>10, <1>11 DEF Exercise!exerciseDirectoryErrors
<1> QED  BY <1>3, <1>4, <1>5, <1>9, <1>12 DEF u

LEMMA TwoParents ==
    ASSUME NEW C, NEW h \in C, NEW g \in C
    PROVE  /\ <<h>> \o <<g>> \in Seq(C)
           /\ {(<<h>> \o <<g>>)[i] : i \in DOMAIN (<<h>> \o <<g>>)} = {h, g}
<1>1. PICK s, t : s = <<h>> /\ t = <<g>>
  OBVIOUS
<1>2. s \in Seq(C) /\ t \in Seq(C) /\ Len(s) = 1 /\ Len(t) = 1 /\ s[1] = h /\ t[1] = g
  BY <1>1
<1>3. /\ s \o t \in Seq(C) /\ Len(s \o t) = Len(s) + Len(t)
      /\ \A i \in 1..Len(s) + Len(t) : (s \o t)[i] = IF i <= Len(s) THEN s[i] ELSE t[i - Len(s)]
  BY <1>2, ConcatProperties, Zenon
<1>4. PICK q : q = s \o t
  OBVIOUS
<1>5. q \in Seq(C) /\ Len(q) = 2 /\ q[1] = h /\ q[2] = g
  BY <1>2, <1>3, <1>4
<1>6. DOMAIN q = {1, 2}
  BY <1>5
<1>7. {q[i] : i \in DOMAIN q} = {h, g}
  BY <1>5, <1>6
<1> QED  BY <1>1, <1>4, <1>5, <1>7, Zenon

LEMMA MergeAccepted ==
    ASSUME ExerciseInv, NEW b \in Exercise!Branch, NEW c \in Exercise!Branch,
           Exercise!merge(b, c, FALSE), Mergeable(xHead[b], xHead[c]),
           FewSlots(Exercise!Merged(xHead[b], xHead[c])),
           ~ Exercise!duplicateProofErrors(Exercise!Merged(xHead[b], xHead[c]))
    PROVE  Exercise!exerciseEvidenceState(xHead[b])' = "ACCEPTED"
<1>0. PICK ds, h, g, m, u :
         /\ ds = xCommits' /\ h = xHead[b] /\ g = xHead[c] /\ m = Len(xCommits) + 1
         /\ u = Exercise!Merged(h, g)
  OBVIOUS
<1> DEFINE Old == 1..Len(xCommits)
           A == AncestorsIn(xCommits)
           B == AncestorsIn(ds)
           d == [parents |-> <<h>> \o <<g>>, tree |-> u]
<1>1. /\ h \in Old /\ g \in Old /\ Ordered(xCommits) /\ Len(xCommits) \in Nat /\ m \notin Old
      /\ m \in Nat
  BY <1>0 DEF ExerciseInv, Ordered
<1>2. xCommits' = Append(xCommits, d) /\ xHead'[b] = m /\ xRuns' = xRuns
  BY <1>0 DEF Exercise!merge, Exercise!mergeCommit, Exercise!commitWith, ExerciseInv
<1>3. /\ d.parents \in Seq(Old) /\ d.tree = u
      /\ {d.parents[i] : i \in DOMAIN d.parents} = {h, g}
  BY <1>1, TwoParents
<1> HIDE DEF d
<1>4. /\ Ordered(ds) /\ Len(ds) = m /\ ds[m] = d
      /\ \A k \in Old : ds[k] = xCommits[k]
  BY <1>0, <1>1, <1>2, <1>3, AppendOrdered
<1>5. \A k \in Old : B[k] = A[k] /\ Parents(ds, k) = Parents(xCommits, k)
  <2>1. Len(xCommits) <= Len(ds)
    BY <1>0, <1>1, <1>4
  <2>2. \A k \in Old : B[k] = A[k]
    BY <1>1, <1>4, <2>1, WalksKept
  <2> QED  BY <1>4, <2>2 DEF Parents
<1>6. Parents(ds, m) = {h, g}
  BY <1>3, <1>4 DEF Parents
<1>7. B[m] = {h, g} \cup A[h] \cup A[g]
  <2>1. m \in 1..Len(ds)
    BY <1>0, <1>1, <1>4
  <2>2. B[m] = Parents(ds, m) \cup UNION {B[p] : p \in Parents(ds, m)}
    BY <1>4, <2>1, AncestorsUnfold
  <2> QED  BY <1>1, <1>5, <1>6, <2>2
<1>8. Exercise!ancestors = A /\ Exercise!ancestors' = B
  BY <1>0, ExerciseWalks, ExerciseWalksNext
<1>9. /\ \A k \in Old : Exercise!Tree(k)' = Exercise!Tree(k)
      /\ Exercise!Tree(m)' = u
      /\ \A k : Exercise!parentsOf(k)' = Parents(ds, k)
      /\ \A k : Exercise!parentsOf(k) = Parents(xCommits, k)
  BY <1>0, <1>3, <1>4 DEF Exercise!Tree, Exercise!parentsOf, Parents
<1> HIDE DEF A, B
<1>10. \A x \in {h, g} : A[x] \cup {x} \subseteq Old
  <2>1. \A x \in {h, g} : \A k \in A[x] : k \in 1..(x - 1)
    BY <1>1, AncestorsBefore DEF A
  <2> QED  BY <1>1, <2>1
<1>11. \A x \in {h, g} : \A k : Exercise!inHistory(k, x) => k \in Old /\ Exercise!inHistory(k, m)'
  BY <1>7, <1>8, <1>10 DEF Exercise!inHistory
<1>12. \A x \in {h, g} : /\ Exercise!exerciseEvidenceState(x) = "ACCEPTED"
                         /\ ~ Exercise!exerciseHistoryErrors(x)
  BY <1>0 DEF Mergeable, Exercise!exerciseEvidenceState, Exercise!productionExerciseErrors
<1>13. ~ Exercise!exerciseHistoryErrors(m)'
  <2> DEFINE S(t) == Exercise!Of("record", t) \cup Exercise!derivedObservationAt(t)
  <2> SUFFICES ASSUME NEW k \in B[m] \cup {m}, NEW p \in Parents(ds, k)
               PROVE  S(Exercise!Tree(p)') \subseteq Exercise!Tree(k)'.files
    BY <1>8, <1>9
       DEF Exercise!exerciseHistoryErrors, Exercise!derivedObservationAt, Exercise!Name, Exercise!Of
  <2>1. CASE k = m
    <3>1. p \in {h, g} /\ Exercise!Tree(p)' = Exercise!Tree(p)
      BY <1>1, <1>6, <1>9, <2>1
    <3>2. S(Exercise!Tree(p)) \subseteq Exercise!Tree(p).files
      BY DEF Exercise!Of, Exercise!derivedObservationAt
    <3>3. Exercise!Tree(p).files \subseteq u.files
      BY <1>0, <3>1, MergedHasAll
    <3> QED  BY <1>9, <2>1, <3>1, <3>2, <3>3
  <2>2. CASE k # m
    <3>1. PICK x \in {h, g} : k \in A[x] \cup {x}
      BY <1>7, <2>2
    <3>2. k \in Old
      BY <1>10, <3>1
    <3>3. p \in Parents(xCommits, k)
      BY <1>5, <3>2
    <3>4. p \in Old
      BY <1>1, <3>2, <3>3 DEF Ordered
    <3>5. S(Exercise!Tree(p)) \subseteq Exercise!Tree(k).files
      BY <1>8, <1>9, <1>12, <3>1, <3>3 DEF Exercise!exerciseHistoryErrors
    <3> QED  BY <1>9, <3>2, <3>4, <3>5
  <2> QED  BY <2>1, <2>2
<1>14. /\ Exercise!Of("record", u) # {} /\ u.archive \in Exercise!Accepted
       /\ ~ Exercise!exerciseDirectoryErrors(u) /\ ~ Exercise!unrecordedExerciseErrors(u)
  BY <1>0, MergedDirectory
<1>15. ASSUME NEW r \in Exercise!Of("record", u)
       PROVE  Exercise!judgeExercise(r, m)'
  <2>1. Stands(r, u) /\ \E x \in {h, g} : Exercise!inHistory(xRuns[r.run].commit, x)
    BY <1>0, MergedStands
  <2>2. PICK o, e : o = xRuns[r.run] /\ e = o.commit
    OBVIOUS
  <2>3. o = xRuns'[r.run] /\ e \in Old /\ Exercise!inHistory(e, m)'
    BY <1>2, <1>11, <2>1, <2>2
  <2>4. ~ Exercise!commitContentErrors(o, u)'
    <3>1. Exercise!Tree(e)' = Exercise!Tree(e)
      BY <1>9, <2>3, <2>2
    <3> QED  BY <2>1, <2>2, <3>1 DEF Stands, Exercise!commitContentErrors
  <2>5. /\ ~ Exercise!Misnamed(RunOf(r))'
        /\ ~ Exercise!exerciseErrors(RunOf(r), r.verification, u)'
    BY <1>2, <2>1 DEF Stands, Exercise!Misnamed, Exercise!exerciseErrors
  <2>6. RunOf(r).run = r.run
    BY DEF RunOf
  <2> QED  BY <1>9, <2>1, <2>2, <2>3, <2>4, <2>5, <2>6 DEF Stands, Exercise!judgeExercise
<1>16. ~ Exercise!duplicateProofErrors(u)'
  BY <1>0, <1>2 DEF Exercise!duplicateProofErrors
<1>17. ~ Exercise!productionExerciseErrors(m)'
  BY <1>9, <1>13, <1>14, <1>15, <1>16 DEF Exercise!productionExerciseErrors
<1>18. Exercise!exerciseEvidenceState(m)' = "ACCEPTED"
  BY <1>9, <1>14, <1>17 DEF Exercise!exerciseEvidenceState
<1> QED  BY <1>2, <1>18

\* Two accepted directories that rest on the same tools and the same archive make one.
MergesStand ==
    \A b, c \in Exercise!Branch :
        (/\ Exercise!merge(b, c, FALSE)
         /\ \A d \in Exercise!Branch : Exercise!exerciseEvidenceState(xHead[d]) = "ACCEPTED"
         /\ \A d \in Exercise!Branch :
               Exercise!derivedObservationAt(Exercise!Tree(xHead[d]))
                 \cap Exercise!Tree(Exercise!mergeBase(xHead[b], xHead[c])).files
                   \subseteq Exercise!Tree(xHead[b]).files \cap Exercise!Tree(xHead[c]).files
         /\ \A what \in Exercise!Bound \ {"host"} :
               Exercise!Tree(xHead[b])[what] = Exercise!Tree(xHead[c])[what]
         /\ \A r, s \in Exercise!Of("record", Exercise!Merged(xHead[b], xHead[c])) :
               r.slot = Exercise!V1 \/ s.slot \in {Exercise!V1, r.slot}
         /\ ~ Exercise!duplicateProofErrors(Exercise!Merged(xHead[b], xHead[c])))
        => Exercise!exerciseEvidenceState(xHead[b])' = "ACCEPTED"

LEMMA ExerciseMerges == ExerciseInv => MergesStand
<1> SUFFICES ASSUME ExerciseInv, NEW b \in Exercise!Branch, NEW c \in Exercise!Branch,
                    Exercise!merge(b, c, FALSE),
                    \A d \in Exercise!Branch : Exercise!exerciseEvidenceState(xHead[d]) = "ACCEPTED",
                    \A d \in Exercise!Branch :
                       Exercise!derivedObservationAt(Exercise!Tree(xHead[d]))
                         \cap Exercise!Tree(Exercise!mergeBase(xHead[b], xHead[c])).files
                           \subseteq Exercise!Tree(xHead[b]).files \cap Exercise!Tree(xHead[c]).files,
                    \A what \in Exercise!Bound \ {"host"} :
                       Exercise!Tree(xHead[b])[what] = Exercise!Tree(xHead[c])[what],
                    FewSlots(Exercise!Merged(xHead[b], xHead[c])),
                    ~ Exercise!duplicateProofErrors(Exercise!Merged(xHead[b], xHead[c]))
             PROVE  Exercise!exerciseEvidenceState(xHead[b])' = "ACCEPTED"
  BY DEF MergesStand, FewSlots
<1>1. Mergeable(xHead[b], xHead[c])
  BY DEF Mergeable, ExerciseInv, Exercise!merge
<1> QED  BY <1>1, MergeAccepted

\* Neither side's records stand in the other's way (sp1-proof-exercise.ts:14-20): for any
\* flaws and lanes of change, and any number of runs, commits, renames and merges.
THEOREM MergedExercisesStayAccepted == Spec => AcceptedMerge
<1>1. Init => ExerciseInv
  BY ExerciseStart DEF Init
<1>2. ExerciseInv /\ [Next]_all => ExerciseInv' /\ [MergesStand]_exercise
  <2>1. [Next]_all => [Exercise!Next]_exercise
    BY DEF Next, all, exercise
  <2> QED  BY <2>1, ExerciseStep, ExerciseMerges
<1>3. Spec => [][MergesStand]_exercise
  BY <1>1, <1>2, PTL DEF Spec, all
<1> QED
  BY <1>3 DEF AcceptedMerge, Exercise!AcceptedMerge, MergesStand, exercise, Exercise!vars,
     Exercise!history
=============================================================================
