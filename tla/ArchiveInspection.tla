-------------------------- MODULE ArchiveInspection --------------------------
(***************************************************************************)
(* A circuit archive read by WalletWall alone                              *)
(* (scripts/lib/sp1-circuit-archive.ts): measured, parsed under the rules  *)
(* for entries, and, where a record names it, extracted                    *)
(* (sp1-circuit-install.ts).  Every pass reads the file anew, and another  *)
(* process may write it meanwhile.                                         *)
(*                                                                         *)
(* An archive is a sequence of headers, each with the data that it comes   *)
(* with: a file or directory with its path and body, a PAX header with its *)
(* keys, the end block, and "other" types.  It stands for its bytes, and   *)
(* for the digest of them.  Reasons of refusal are left out.               *)
(***************************************************************************)
EXTENDS SequencesExt

CONSTANTS
    Founded,        \* what may be there to start with: archives with a record, or none
    Swaps,          \* what another process may write there
    MaxSwaps,
    maxEntries, maxTotalBytes

VARIABLES
    file,           \* what is at the archive's path
    record,         \* the record the archive is judged by, if there is one
    phase,
    read,           \* what the pass has read
    measured,       \* what the first pass read
    parser,         \* see NewParser
    swaps

vars == <<file, record, phase, read, measured, parser, swaps>>

-----------------------------------------------------------------------------
(* Paths and bodies *)

\* A path is a sequence of names; the root has none.  A name that differs from another in
\* case only, and one that is not portable.
Root == <<>>
lower(name) == IF name = "VK" THEN "vk" ELSE IF name = "D" THEN "d" ELSE name
lowered(path) == [i \in DOMAIN path |-> lower(path[i])]
memberPathError(path) == path = Root \/ "a:b" \in Range(path)

parents(path) == {SubSeq(path, 1, i) : i \in 1..(Len(path) - 1)}

VK_FILE == <<"vk">>
REQUIRED_MEMBERS == {<<"pk">>, VK_FILE}

\* What AppleDouble entries describe upstream, and the entries that carry provenance.
Describes == [n \in {"._.", "._pk", "._vk"} |->
                CASE n = "._." -> Root [] n = "._pk" -> <<"pk">> [] n = "._vk" -> VK_FILE]
APPLEDOUBLE_PATHS == {<<n>> : n \in DOMAIN Describes}
isAppleDoubleShaped(path) == \E n \in Range(path) : n \in DOMAIN Describes \cup {"._x"}

kindOf(path) == IF path = Root THEN "directory" ELSE "file"
PROVENANCE_ENTRIES == {Root, <<"pk">>, VK_FILE}

\* "double" is the one AppleDouble body, "twin" as long as it and another.
bytesOf(body) ==
    CASE body = "none" -> 0 [] body \in {"double", "twin"} -> 1 [] body \in {"key", "forged"} -> 2
      [] body = "big" -> 3
APPLEDOUBLE_BODIES == {"double"}
EstablishedKey == "key"

-----------------------------------------------------------------------------
(* Headers *)

\* Entries have a type, a path and a body; a PAX header has a type and keys; the end block
\* and every other header only a type, "end" and "other".

\* A "path" that agrees with the header's, and one "elsewhere"; an "unknown" key, and the
\* provenance key with another "value" than upstream.
PaxRefused == {"unknown", "value"}

-----------------------------------------------------------------------------
(* The tree that paths form *)

\* Nodes by their lowered paths.
Nodes(tree, path) == IF lowered(path) \in DOMAIN tree THEN {tree[lowered(path)]} ELSE {}

\* A path names one entry once, under one spelling, and no file is the parent of another.
clash(tree, path, kind) ==
    \/ \E p \in parents(path) : \E n \in Nodes(tree, p) : n.exact # p \/ n.kind = "file"
    \/ \E n \in Nodes(tree, path) :
          n.exact # path \/ n.kind # kind \/ kind = "file" \/ n.explicit

add(tree, path, kind) ==
    LET above == {lowered(p) : p \in parents(path)}
        implied ==
            [l \in above |->
                LET p == CHOOSE q \in parents(path) : lowered(q) = l
                    before == IF l \in DOMAIN tree THEN tree[l]
                              ELSE [exact |-> p, kind |-> "directory", explicit |-> FALSE,
                                    hasFile |-> FALSE]
                IN [before EXCEPT !.hasFile = @ \/ kind = "file"]]
        own ==
            [l \in {lowered(path)} |->
                IF l \in DOMAIN tree THEN [tree[l] EXCEPT !.explicit = TRUE]
                ELSE [exact |-> path, kind |-> kind, explicit |-> TRUE, hasFile |-> FALSE]]
    IN [l \in DOMAIN tree \cup above \cup {lowered(path)} |->
            IF l \in above THEN implied[l] ELSE IF l = lowered(path) THEN own[l] ELSE tree[l]]

EmptyTree == [l \in {} |-> {}]
hasEmptyDirectory(tree) == \E l \in DOMAIN tree : tree[l].kind = "directory" /\ ~ tree[l].hasFile

-----------------------------------------------------------------------------
(* The parser *)

\* The PAX header before the next entry and what the last AppleDouble entry describes are
\* in sets that may be empty; opened are the files given to a sink.
NewParser ==
    [ended |-> FALSE, entries |-> 0, pax |-> {}, companion |-> {}, provenance |-> {},
     tree |-> EmptyTree, bytes |-> 0, members |-> {}, metadata |-> {}, opened |-> {}]

NameOf(h) == [path |-> h.path, body |-> h.body]
hadProvenance(p) == \E keys \in p.pax : "provenance" \in keys

isCompanion(p, h) == \A c \in p.companion : h.path = c /\ h.type = kindOf(c)

onProvenanceRefuses(p, h) ==
    /\ hadProvenance(p)
    /\ \/ h.path \notin PROVENANCE_ENTRIES \/ h.type # kindOf(h.path)
       \/ h.path \in p.provenance

onAppleDoubleRefuses(p, h) ==
    \/ h.path \notin APPLEDOUBLE_PATHS \/ h.type # "file" \/ p.pax # {}
    \/ clash(p.tree, h.path, "file")
    \/ h.body \notin APPLEDOUBLE_BODIES
    \/ \E r \in record : NameOf(h) \notin r.metadata

\* A directory with data is refused, the root's too; the root is in no tree.
memberRefused(p, h) ==
    \/ h.type = "directory" /\ h.body # "none"
    \/ ~ (h.type = "directory" /\ h.path = Root)
       /\ (memberPathError(h.path) \/ clash(p.tree, h.path, h.type))
    \/ /\ h.type = "file"
       /\ \/ p.bytes + bytesOf(h.body) > maxTotalBytes
          \/ \E r \in record :
                \A m \in r.members : m.path # h.path \/ bytesOf(m.body) # bytesOf(h.body)

\* Slip: it is not asked whether every entry has its provenance.
PartlyMarked(p) == p.pax # {} \/ p.companion # {}

endRefused(p) ==
    \/ p.pax # {} \/ p.companion # {}
    \/ p.provenance # {} /\ p.provenance # PROVENANCE_ENTRIES

onPaxHeaderRefuses(p, h) == p.pax # {} \/ h.keys \cap PaxRefused # {}

\* Every refusal that a header and its data meet.
refuses(p, h) ==
    \/ p.ended /\ h.type # "end"
    \/ h.type = "other"
    \/ h.type = "end" /\ ~ p.ended /\ endRefused(p)
    \/ h.type # "end" /\ p.entries = maxEntries
    \/ h.type = "pax" /\ onPaxHeaderRefuses(p, h)
    \/ /\ h.type \in {"file", "directory"}
       /\ \/ \E keys \in p.pax : "elsewhere" \in keys
          \/ ~ isCompanion(p, h)
          \/ onProvenanceRefuses(p, h)
          \/ IF isAppleDoubleShaped(h.path) THEN onAppleDoubleRefuses(p, h) ELSE memberRefused(p, h)

onAppleDouble(p, h) ==
    [p EXCEPT !.companion = {Describes[h.path[1]]}, !.tree = add(@, h.path, "file"),
              !.metadata = @ \cup {NameOf(h)}]

onMember(p, h) ==
    [p EXCEPT !.companion = {}, !.tree = IF h.path = Root THEN @ ELSE add(@, h.path, h.type),
              !.bytes = @ + bytesOf(h.body),
              !.members = IF h.type = "file" THEN @ \cup {NameOf(h)} ELSE @,
              !.opened = IF h.type = "file" /\ phase = "extract" THEN @ \cup {NameOf(h)} ELSE @]

onEntry(p, h) ==
    LET q == [p EXCEPT !.entries = @ + 1, !.pax = {},
                       !.provenance = IF hadProvenance(p) THEN @ \cup {h.path} ELSE @]
    IN IF isAppleDoubleShaped(h.path) THEN onAppleDouble(q, h) ELSE onMember(q, h)

onHeader(p, h) ==
    CASE h.type = "end" -> [p EXCEPT !.ended = TRUE]
      [] h.type = "pax" -> [p EXCEPT !.entries = @ + 1, !.pax = {h.keys}]
      [] OTHER -> onEntry(p, h)

finishRefuses(p) == ~ p.ended \/ hasEmptyDirectory(p.tree)

-----------------------------------------------------------------------------
(* Passes *)

Next1 == file[Len(read) + 1]
AtEof == Len(read) >= Len(file)

go(to) == phase' = to /\ read' = <<>> /\ parser' = NewParser
refused == phase' = "refused" /\ UNCHANGED <<read, parser>>

\* The first pass parses nothing; with a record, the archive has to be the record's.
measureArchive ==
    /\ phase = "measure"
    /\ \/ /\ ~ AtEof /\ read' = Append(read, Next1)
          /\ UNCHANGED <<phase, measured, parser>>
       \/ /\ AtEof /\ measured' = read
          /\ IF \E r \in record : r.archive # read THEN refused ELSE go("parse")
    /\ UNCHANGED <<file, record, swaps>>

feed ==
    /\ phase \in {"parse", "extract"} /\ ~ AtEof
    /\ read' = Append(read, Next1)
    /\ IF refuses(parser, Next1) THEN phase' = "refused" /\ parser' = parser
       ELSE phase' = phase /\ parser' = onHeader(parser, Next1)
    /\ UNCHANGED <<file, record, measured, swaps>>

\* Slip: the file is measured again once it was parsed.
FileAgain == file

\* What the pass hashed as it read.
scanned == read

memberSetErrors(p, r) == p.members # r.members
vkError(p) == [path |-> VK_FILE, body |-> EstablishedKey] \notin p.members

\* With a record everything is the record's; without one what is required is there.
inspectArchive ==
    /\ phase = "parse" /\ AtEof
    /\ IF \/ finishRefuses(parser)
          \/ scanned # measured
          \/ \E r \in record : memberSetErrors(parser, r) \/ parser.metadata # r.metadata
          \/ \E path \in REQUIRED_MEMBERS : \A m \in parser.members : m.path # path
          \/ vkError(parser)
       THEN refused
       ELSE IF record = {} THEN phase' = "accepted" /\ UNCHANGED <<read, parser>>
       ELSE go("extract")
    /\ UNCHANGED <<file, record, measured, swaps>>

\* What was extracted is staged, and the staged tree has to be the record's.
install ==
    /\ phase = "extract" /\ AtEof
    /\ IF \/ finishRefuses(parser)
          \/ \E r \in record : scanned # r.archive \/ parser.opened # r.members
       THEN refused ELSE phase' = "installed" /\ UNCHANGED <<read, parser>>
    /\ UNCHANGED <<file, record, measured, swaps>>

swap ==
    /\ phase \in {"measure", "parse", "extract"} /\ swaps < MaxSwaps /\ swaps' = swaps + 1
    /\ file \in Swaps /\ file' \in Swaps \ {file}
    /\ UNCHANGED <<record, phase, read, measured, parser>>

-----------------------------------------------------------------------------

Init ==
    /\ \E f \in Founded : file = f.file /\ record = f.record
    /\ phase = "measure" /\ read = <<>> /\ measured = <<>> /\ parser = NewParser /\ swaps = 0

Next == measureArchive \/ feed \/ inspectArchive \/ install \/ swap

Spec == Init /\ [][Next]_vars

-----------------------------------------------------------------------------
(* Properties *)

\* What an archive may be, of the whole of it at once: every rule the module's header
\* states, over the entries in order, with the PAX keys each one has.
Sound(s) ==
    LET entry == {i \in DOMAIN s : s[i].type \in {"file", "directory"}}
        keys(i) == IF i > 1 /\ s[i - 1].type = "pax" THEN s[i - 1].keys ELSE {}
        double == {i \in entry : isAppleDoubleShaped(s[i].path)}
        files == {i \in entry \ double : s[i].type = "file"}
        folders == {i \in entry \ double : s[i].type = "directory" /\ s[i].path # Root}
        marked == {i \in entry : "provenance" \in keys(i)}
        after(i) == IF s[i + 1].type = "pax" THEN i + 2 ELSE i + 1
        under(i, path) == path \in parents(s[i].path)
        named == {s[i].path : i \in files \cup folders} \cup UNION {parents(s[i].path) : i \in files}
        bytes == MapThenSumSet(LAMBDA i : bytesOf(s[i].body), files)
    IN /\ s # <<>> /\ Cardinality({i \in DOMAIN s : s[i].type # "end"}) <= maxEntries
       /\ \A i \in DOMAIN s : s[i].type = "end" => \A j \in i..Len(s) : s[j].type = "end"
       /\ s[Len(s)].type = "end"
       /\ \A i \in DOMAIN s :
             /\ s[i].type # "other"
             /\ s[i].type = "pax" => i + 1 \in entry /\ s[i].keys \cap PaxRefused = {}
       /\ \A i \in entry : "elsewhere" \notin keys(i)
       /\ \A i \in double :
             /\ s[i].type = "file" /\ s[i].body \in APPLEDOUBLE_BODIES /\ s[i].path \in APPLEDOUBLE_PATHS
             /\ i = 1 \/ s[i - 1].type # "pax"
             /\ after(i) \in entry
             /\ s[after(i)].path = Describes[s[i].path[1]]
             /\ s[after(i)].type = kindOf(s[after(i)].path)
             /\ \A j \in double \ {i} : s[j].path # s[i].path
       /\ marked # {} =>
             /\ {s[i].path : i \in marked} = PROVENANCE_ENTRIES
             /\ \A i \in marked :
                   s[i].type = kindOf(s[i].path) /\ \A j \in marked \ {i} : s[j].path # s[i].path
       /\ \A i \in entry \ double : s[i].type = "directory" => s[i].body = "none"
       /\ \A i \in files \cup folders : "a:b" \notin Range(s[i].path)
       /\ \A i \in files : s[i].path # Root /\ \A j \in (files \cup folders) \ {i} :
             s[j].path # s[i].path /\ ~ under(j, s[i].path)
       /\ \A i \in folders :
             /\ \E j \in files : under(j, s[i].path)
             /\ \A j \in folders \ {i} : s[j].path # s[i].path
       /\ \A p, q \in named : lowered(p) = lowered(q) => p = q
       /\ bytes <= maxTotalBytes
       /\ \A path \in REQUIRED_MEMBERS : \E i \in files : s[i].path = path
       /\ \E i \in files : s[i].path = VK_FILE /\ s[i].body = EstablishedKey

\* The files of an archive, and its AppleDouble entries.
FilesOf(s, shaped) ==
    {NameOf(s[i]) : i \in {j \in DOMAIN s :
        s[j].type = "file" /\ isAppleDoubleShaped(s[j].path) = shaped}}

OfRecord(s) ==
    \A r \in record :
        s = r.archive /\ FilesOf(s, FALSE) = r.members /\ FilesOf(s, TRUE) = r.metadata

\* An archive that nobody touches is taken if and only if it is what an archive may be, and
\* the one the record names, with its members and metadata
\* (sp1-circuit-archive.ts:1104-1109).
Judged ==
    swaps = 0 =>
        /\ phase \in {"accepted", "installed"} => Sound(file) /\ OfRecord(file)
        /\ phase = "refused" => ~ (Sound(file) /\ OfRecord(file))

\* Whatever becomes of the file between two passes or within one, what is accepted or
\* installed is what was measured, and nothing that the record does not name, at its size,
\* is ever written (sp1-circuit-archive.ts:1139, sp1-circuit-install.ts:299).
ParsedAsAuthenticated ==
    /\ phase = "accepted" => Sound(measured) /\ parser.members = FilesOf(measured, FALSE)
    /\ phase = "installed" => Sound(measured) /\ parser.opened = FilesOf(measured, FALSE)
    /\ \A r \in record : \A o \in parser.opened :
          \E m \in r.members : m.path = o.path /\ bytesOf(m.body) = bytesOf(o.body)
=============================================================================
