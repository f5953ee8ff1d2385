------------------------- MODULE AppendOnlyHistory -------------------------
(***************************************************************************)
(* scripts/lib/append-only-history.ts, and what it is asked about: whether *)
(* git's history, walked edge by edge, shows that a published record was   *)
(* only ever appended to.  The records are the wrapper registry, a file    *)
(* with a rule of its own (sp1-registry.ts), and the proof exercises: a    *)
(* directory of records, and one of observations, of which those a record  *)
(* was derived from are held (sp1-proof-exercise.ts).                      *)
(*                                                                         *)
(* Git is external: commits of any parents, branches and merges that take  *)
(* whatever side they like, unrelated roots, and a working tree.           *)
(***************************************************************************)
EXTENDS Naturals, Sequences, SequencesExt

CONSTANTS
    Fact,               \* of the registry
    Observation,        \* paths of observations; each may have one record
    MaxCommits

VARIABLES
    rels,               \* the paths under watch: the registry, or the two directories
    commits             \* each with its parents, the commits it reaches through
                        \* them and, by path, the object there

vars == <<rels, commits>>

\* What is at a path: nothing, the registry's text, or the files of a directory.
Absent == {}
V1 == {[schema |-> "v1", facts |-> <<>>]}
Logs == {<<>>} \cup {<<f>> : f \in Fact} \cup {log \in Fact \X Fact : log[1] # log[2]}
Registries == {Absent, V1} \cup {{[schema |-> "v2", facts |-> log]} : log \in Logs}
Version == {1, 2}
Directories ==
    {files \in SUBSET (Observation \X Version) :
        \A f, g \in files : f[1] = g[1] => f = g}

Objects == [registry |-> Registries, records |-> SUBSET Observation,
            observations |-> Directories]

Trees == {tree \in [registry : Registries \cup {Absent},
                    records : SUBSET Observation, observations : Directories] :
            \A rel \in DOMAIN Objects : rel \notin rels => tree[rel] = Absent}

-----------------------------------------------------------------------------

Object(n, rel) == commits[n].tree[rel]

\* The records of a tree name the observations they were derived from.
derivedObservationAt(tree, file) == file[1] \in tree.records

\* A version of the registry extends the one before.
registryExtends(older, newer) ==
    \/ older = Absent /\ newer = Absent
    \/ older = Absent /\ newer = V1
    \/ older = V1 /\ newer # Absent
    \/ \E o \in older, n \in newer :
          o.schema = "v2" /\ n.schema = "v2" /\ IsPrefix(o.facts, n.facts)

\* Nothing that is held on the older side is removed or changed.
kept(rel, olderTree, newerTree) ==
    CASE rel = "registry" -> registryExtends(olderTree.registry, newerTree.registry)
      [] rel = "records" -> olderTree.records \subseteq newerTree.records
      [] rel = "observations" ->
            {f \in olderTree.observations : derivedObservationAt(olderTree, f)}
                \subseteq newerTree.observations

Nowhere == [registry |-> Absent, records |-> {}, observations |-> {}]

\* As git log -- <path> follows a file: along the first parent that has it.
FollowedOnly(n, rel) ==
    LET having == {p \in commits[n].parents : Object(p, rel) # Absent}
    IN {p \in having : \A q \in having : p <= q}

\* The parents that hold the record; a commit none of whose parents does
\* introduces it.
Holding(n, rel) == {p \in commits[n].parents : Object(p, rel) # Absent}

EdgesKept(n, rel) ==
    IF Holding(n, rel) = {}
    THEN Object(n, rel) = Absent \/ kept(rel, Nowhere, commits[n].tree)
    ELSE \A p \in Holding(n, rel) :
            Object(p, rel) # Object(n, rel) => kept(rel, commits[p].tree, commits[n].tree)

\* No errors: every edge of every commit that HEAD reaches, and the working tree
\* against HEAD.
edgesClean(head) ==
    \A rel \in rels : \A n \in commits[head].behind \cup {head} : EdgesKept(n, rel)

diskClean(head, disk) ==
    \A rel \in rels :
        Object(head, rel) # disk[rel] => kept(rel, commits[head].tree, disk)

-----------------------------------------------------------------------------

Init ==
    /\ rels \in {{"registry"}, {"records", "observations"}}
    /\ commits = <<>>

\* What rev-list finds behind some commits.
Behind(parents) == UNION {commits[p].behind : p \in parents}

\* A root, an ordinary commit, or a merge that resolves however it likes.
commit(parents, tree) ==
    /\ Len(commits) < MaxCommits
    /\ commits' = Append(commits, [parents |-> parents, tree |-> tree,
                                   behind |-> parents \cup Behind(parents)])
    /\ UNCHANGED rels

Next ==
    \E parents \in {{}} \cup {{p, q} : p, q \in DOMAIN commits}, tree \in Trees :
        commit(parents, tree)

Spec == Init /\ [][Next]_vars

-----------------------------------------------------------------------------

TypeOK ==
    /\ rels \subseteq DOMAIN Objects
    /\ \A n \in DOMAIN commits :
          /\ commits[n].tree \in Trees
          /\ commits[n].parents \subseteq commits[n].behind
          /\ commits[n].behind \subseteq 1..(n - 1)

\* What was published then is there now.
Holds(then, disk) ==
    /\ \A o \in then.registry : \E d \in disk.registry : IsPrefix(o.facts, d.facts)
    /\ then.records \subseteq disk.records
    /\ \A f \in then.observations : f[1] \in then.records => f \in disk.observations

\* Where the walk finds no error, everything published in any commit behind HEAD
\* is in the working tree as it was published: the facts of the registry in
\* their order, every record, and the observations a record was derived from,
\* although the walk compares only neighbours and whatever the merges dropped
\* and later commits put back (append-only-history.ts:6-14).  HEAD is the newest
\* commit; it was an older one when that was the newest.
NothingPublishedIsLost ==
    LET head == Len(commits)
    IN head > 0 /\ edgesClean(head) =>
       \A disk \in Trees :
          diskClean(head, disk) =>
            \A n \in commits[head].behind \cup {head} : Holds(commits[n].tree, disk)
=============================================================================
