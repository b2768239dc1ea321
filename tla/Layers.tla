------------------------------- MODULE Layers -------------------------------
(***************************************************************************)
(* extract_image and _apply_layer_tar of satecode/runtime.py: the layers   *)
(* of an image are applied, member by member, to one directory on disk,    *)
(* and what is there at the end becomes the root file system.  A path is   *)
(* the sequence of its components.  Files are inodes, so that a file with  *)
(* two names, or written through a link, is one file: an inode and a       *)
(* content are named by the member that made them.                         *)
(*                                                                         *)
(* A layer is a record: is its blob found in the archive, and its members. *)
(* A member is a record: kind, path (for a whiteout or an opaque marker    *)
(* the path it is about), and where a link leads.  Devices and pipes match *)
(* no branch of the code and are left out.  As the writers of layers do,   *)
(* WellMade names every file once and by its real path, and gives a file   *)
(* that is in the layer its further names.                                 *)
(***************************************************************************)
EXTENDS Integers, SequencesExt

VARIABLES
  layers,
  ln, mn,  \* the member to apply next is number mn of layer ln
  tree,    \* dest: path -> node
  text,    \* inode -> content
  torn,    \* an exception has ended the extraction
  lower    \* history: tree and text when the layer was begun

layerVars == <<layers, ln, mn, tree, text, torn, lower>>

First(p, n) == SubSeq(p, 1, n)
Above(p) == {First(p, n) : n \in 1..Len(p)-1}

Dir == [kind |-> "dir", to |-> <<>>]
LinkTo(p) == [kind |-> "link", to |-> p]
FileOf(i) == [kind |-> "file", to |-> i]

LayersInit ==
  /\ ln = 0 /\ mn = 1 /\ tree = <<>> /\ text = <<>> /\ torn = FALSE
  /\ lower = [tree |-> <<>>, text |-> <<>>]

Members == IF ln = 0 THEN <<>> ELSE layers[ln].members
m == Members[mn]
Applied == mn > Len(Members)
Extracted == Applied /\ ln = Len(layers) /\ ~torn

(* dest itself is a directory. *)
Has(p, kind) == IF p = <<>> THEN kind = "dir" ELSE p \in DOMAIN tree /\ tree[p].kind = kind

Added(l) == {i \in 1..Len(l) : l[i].kind \in {"dir", "link", "hard", "file"}}
Markers(l) == 1..Len(l) \ Added(l)

WellMade(l) ==
  \A i \in Added(l) :
    /\ l[i].path # <<>>
    /\ \A j \in Added(l) : i # j => l[i].path # l[j].path
    /\ \A j \in Added(l) : IsStrictPrefix(l[j].path, l[i].path) => l[j].kind # "link"
    /\ l[i].kind = "hard" => \E j \in 1..i-1 : l[j].path = l[i].to /\ l[j].kind = "file"

-----------------------------------------------------------------------------
(* The blob of a layer is looked up by the name the manifest has for it. *)
OpenLayer ==
  /\ Applied /\ ln < Len(layers) /\ ~torn
  /\ ln' = ln + 1 /\ mn' = 1
  /\ torn' = ~layers[ln'].there
  /\ lower' = [tree |-> tree, text |-> text]
  /\ UNCHANGED <<layers, tree, text>>

At(kinds) == ~Applied /\ ~torn /\ m.kind \in kinds
Step(t, x) ==
  tree' = t /\ text' = x /\ mn' = mn + 1 /\ UNCHANGED <<layers, ln, torn, lower>>
Raise == torn' = TRUE /\ UNCHANGED <<layers, ln, mn, tree, text, lower>>

With(f, x, v) == [y \in DOMAIN f \union {x} |-> IF y = x THEN v ELSE f[y]]
Without(ps) == Restrict(tree, DOMAIN tree \ ps)
Within(p) == {q \in DOMAIN tree : IsPrefix(p, q)}

(* rmtree takes the directory itself as well; it refuses links, and its      *)
(* errors are ignored.                                                       *)
Opaque ==
  /\ At({"opaque"})
  /\ Step(IF Has(m.path, "dir") THEN Without(Within(m.path)) ELSE tree, text)

LeadsTo(p) == IF Has(p, "link") THEN tree[p].to ELSE p

(* A plausible bug: only what can be unlinked is removed. *)
Whiteout_FilesOnly ==
  /\ At({"white"})
  /\ Step(IF Has(LeadsTo(m.path), "file") THEN Without({m.path}) ELSE tree, text)

(* is_dir and exists follow links: of these, only one to a file goes. *)
Whiteout ==
  /\ At({"white"})
  /\ Step(IF Has(m.path, "dir") THEN Without(Within(m.path))
          ELSE IF Has(LeadsTo(m.path), "file") THEN Without({m.path})
          ELSE tree, text)

(* mkdir(parents=True, exist_ok=True) for a path or its parent *)
Holds(p) == \A q \in Above(p) : q \in DOMAIN tree => tree[q].kind = "dir"
Grown == [q \in DOMAIN tree \union Above(m.path) |-> IF q \in DOMAIN tree THEN tree[q] ELSE Dir]

MakeDir ==
  /\ At({"dir"})
  /\ IF Holds(m.path) /\ (m.path \in DOMAIN tree => Has(LeadsTo(m.path), "dir"))
       THEN Step(With(Grown, m.path, IF m.path \in DOMAIN tree THEN tree[m.path] ELSE Dir), text)
       ELSE Raise

Entry(node) == With(Grown, m.path, node)

(* What was there is unlinked, which raises if it is a directory. *)
MakeLink ==
  /\ At({"link"})
  /\ IF Holds(m.path) /\ ~Has(m.path, "dir") THEN Step(Entry(LinkTo(m.to)), text) ELSE Raise

(* If there is no file to link to any more, its bytes are read from the layer. *)
HardLink ==
  /\ At({"hard"})
  /\ IF ~Holds(m.path) \/ Has(m.path, "dir") THEN Raise
     ELSE IF m.to \in DOMAIN tree /\ ~Has(m.to, "dir") THEN Step(Entry(tree[m.to]), text)
     ELSE LET i == CHOOSE i \in 1..mn : Members[i].path = m.to /\ Members[i].kind = "file"
          IN  Step(Entry(FileOf(<<ln, mn>>)), With(text, <<ln, mn>>, <<ln, i>>))

(* write_bytes follows a link, and keeps the inode of a file that is there;  *)
(* beyond a dangling link it does not make the directory.                    *)
WriteFile ==
  /\ At({"file"})
  /\ LET p == LeadsTo(m.path) IN
     IF \/ ~Holds(m.path) \/ Has(p, "dir") \/ Has(p, "link")
        \/ p # m.path /\ \E q \in Above(p) : ~Has(q, "dir") THEN Raise
     ELSE IF Has(p, "file") THEN Step(Grown, With(text, tree[p].to, <<ln, mn>>))
     ELSE Step(With(Grown, p, FileOf(<<ln, mn>>)), With(text, <<ln, mn>>, <<ln, mn>>))

Extract == OpenLayer \/ Opaque \/ Whiteout \/ MakeDir \/ MakeLink \/ HardLink \/ WriteFile

-----------------------------------------------------------------------------
(* What a layer means, whatever the order of its members. *)

View(t, x) ==
  [p \in DOMAIN t |-> IF t[p].kind = "file" THEN [kind |-> "file", to |-> x[t[p].to]] ELSE t[p]]

(* A whiteout hides a path and what is below it, an opaque marker only the   *)
(* latter, and so does an entry that is no directory.                        *)
Hides(e, q) ==
  \/ e.kind = "white" /\ IsPrefix(e.path, q)
  \/ e.kind # "dir" /\ IsStrictPrefix(e.path, q)

Named(l) == {l[i].path : i \in Added(l)}
EntryAt(l, p) == CHOOSE i \in Added(l) : l[i].path = p

(* What entry i of layer n puts at its path *)
Meant(l, n, i) ==
  IF l[i].kind = "dir" THEN Dir
  ELSE IF l[i].kind = "link" THEN LinkTo(l[i].to)
  ELSE FileOf(<<n, IF l[i].kind = "hard" THEN EntryAt(l, l[i].to) ELSE i>>)

Overlay(low, l, n) ==
  LET shown == {q \in DOMAIN low : \A i \in 1..Len(l) : ~Hides(l[i], q)}
  IN  [p \in Named(l) \union shown \union UNION {Above(q) : q \in Named(l)} |->
         IF p \in Named(l) THEN Meant(l, n, EntryAt(l, p))
         ELSE IF p \in shown THEN low[p] ELSE Dir]

Was(low, p, kind) == p \in DOMAIN low.tree /\ low.tree[p].kind = kind

(* A layer for which order, links or inodes matter: *)
Odd(low, l) ==
  \* an entry before the marker that hides it,
  \/ \E j \in Markers(l) : \E i \in Added(l) : i < j /\ Hides(l[j], l[i].path)
  \* a directory that is opaque and stays empty,
  \/ \E j \in Markers(l) : l[j].kind = "opaque" /\
       \A i \in Added(l) : i > j => ~IsPrefix(l[j].path, l[i].path)
  \* a file or directory in place of a link, or a whiteout of a link that does
  \* not lead to a file, or leads to one that the layer is about as well,
  \/ \E i \in 1..Len(l) : Was(low, l[i].path, "link") /\
       LET to == low.tree[l[i].path].to IN
       \/ l[i].kind \in {"file", "dir"}
       \/ l[i].kind = "white" /\
            (~Was(low, to, "file") \/ \E j \in 1..Len(l) : j # i /\ IsPrefix(l[j].path, to))
  \* a file in place of one with several names.
  \/ \E i \in 1..Len(l) : l[i].kind = "file" /\ Was(low, l[i].path, "file") /\
       \E q \in DOMAIN low.tree : q # l[i].path /\ low.tree[q] = low.tree[l[i].path]

(* What was a directory, or will be one, and what was or will be none *)
BeDir(low, l, p) ==
  \/ Was(low, p, "dir")
  \/ \E i \in Added(l) : IsStrictPrefix(p, l[i].path) \/ (l[i].path = p /\ l[i].kind = "dir")

BeOther(low, l, p) ==
  \/ p \in DOMAIN low.tree /\ low.tree[p].kind # "dir"
  \/ \E i \in Added(l) : l[i].path = p /\ l[i].kind # "dir"

(* A directory is to be replaced, or to replace something, or what is none   *)
(* to hold an entry; or a file is to replace a link.                         *)
Clash(low, l) ==
  \E i \in Added(l) :
    \/ \E p \in Above(l[i].path) \union {l[i].path} : BeDir(low, l, p) /\ BeOther(low, l, p)
    \/ l[i].kind = "file" /\ Was(low, l[i].path, "link")

(* A layer that is not odd makes of the tree what it means: whiteouts and    *)
(* opaque directories hide what was below, its own entries are there, links  *)
(* and names of files are kept.                                              *)
Overlaid ==
  (ln > 0 /\ Applied /\ ~torn /\ ~Odd(lower, Members)) =>
    View(tree, text) = Overlay(View(lower.tree, lower.text), Members, ln)

(* The extraction ends in an exception only for a layer that is not in the   *)
(* archive under its name, or that clashes with what is there.               *)
TornByClash == torn => ~layers[ln].there \/ Clash(lower, Members)
=============================================================================
