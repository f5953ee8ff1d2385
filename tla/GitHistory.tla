------------------------------ MODULE GitHistory ------------------------------
(***************************************************************************)
(* The repository that the evidence is committed to: external, as git      *)
(* keeps it and the scripts ask about it.  A commit has its parents, first *)
(* parent first, and a tree; its number is above those of all behind it.   *)
(* Main and the branch of a lane move from commit to commit.               *)
(***************************************************************************)
EXTENDS Naturals, Sequences, FiniteSets

CONSTANTS MaxCommits    \* made on top of what is there to start with

VARIABLES
    commits,            \* each with its parents and its tree
    head,               \* the commits of main and of the branch
    made                \* how many commits were made

history == <<commits, head, made>>

Branch == {"main", "pr"}

Tree(n) == commits[n].tree
parentsOf(n) == {commits[n].parents[i] : i \in DOMAIN commits[n].parents}

ancestors[n \in DOMAIN commits] ==
    parentsOf(n) \cup UNION {ancestors[p] : p \in parentsOf(n)}

inHistory(c, n) == c \in ancestors[n] \cup {n}

firstParents[n \in DOMAIN commits] ==
    {n} \cup IF commits[n].parents = <<>> THEN {} ELSE firstParents[commits[n].parents[1]]

\* The first-parent history of main.
mainline == firstParents[head["main"]]

mergeBase(m, n) ==
    LET both == (ancestors[m] \cup {m}) \cap (ancestors[n] \cup {n})
    IN CHOOSE k \in both : \A j \in both : j <= k

\* Of two changes to one thing one has to go; changes to different things are both taken.
ThreeWay(base, ours, theirs) == IF ours = base THEN theirs ELSE ours
Conflict(base, ours, theirs) == ours # base /\ theirs # base /\ ours # theirs

commitWith(b, parents, tree) ==
    /\ made < MaxCommits /\ made' = made + 1
    /\ commits' = Append(commits, [parents |-> parents, tree |-> tree])
    /\ head' = [head EXCEPT ![b] = Len(commits) + 1]

commit(b, tree) == commitWith(b, <<head[b]>>, tree)

\* The changes of a branch come to another, with its commits or squashed into one.
mergeCommit(into, from, squashed, tree) ==
    /\ ~ inHistory(head[from], head[into])
    /\ commitWith(into, <<head[into]>> \o (IF squashed THEN <<>> ELSE <<head[from]>>), tree)

\* A new branch.
newBranch ==
    /\ head["pr"] # head["main"]
    /\ head' = [head EXCEPT !["pr"] = head["main"]]
    /\ UNCHANGED <<commits, made>>

\* A history without merges whose trees are these.
Linear(trees) ==
    [n \in DOMAIN trees |-> [parents |-> IF n = 1 THEN <<>> ELSE <<n - 1>>, tree |-> trees[n]]]
=============================================================================
