----------------------------- MODULE OrderedTar -----------------------------
(***************************************************************************)
(* _build_ordered_tar of satecode/runtime.py: the files of a bundle go     *)
(* into a tar in the order in which a restore opened them (tier A), then   *)
(* all the others (tier B); mkfs.erofs keeps that order.  _add_ordered is  *)
(* one action per turn of its loop over the parents of a path, and one for *)
(* the path itself.                                                        *)
(*                                                                         *)
(* A path is the sequence of its components.  An entry of a tier, and a    *)
(* member of the tar, is a string that spells one: "a/b", which is the     *)
(* Normal form, but also "a//b" or "./a/b".  Strings are compared as they  *)
(* are, up to slashes at their ends; where they lead is a matter of the    *)
(* path only.  Entries that spell the bundle itself as ".", or have "..",  *)
(* are left out.                                                           *)
(*                                                                         *)
(* A bundle is a record: the kind of every path that exists; which of them *)
(* are real, the others existing through a symbolic link to a directory    *)
(* only (open() follows it, the walk over the bundle does not); sizes; and *)
(* the two tiers, which are whatever the sequence file says.               *)
(***************************************************************************)
EXTENDS Integers, Sequences

CONSTANTS
  Name,    \* components of paths
  Forms,   \* the forms in which a path may be spelled
  Normal,  \* that of "/".join and of the walk
  Bundles  \* the bundles to build an image of

Path == Seq(Name) \ {<<>>}

Up(p, n) == SubSeq(p, 1, n)  \* the first n components

Entry == {e \in [path : Seq(Name), form : Forms] : e.path = <<>> => e.form = Normal}
Member == [path : Path, form : Forms]

Plain(p) == [path |-> p, form |-> Normal]

Kinds == {"dir", "file", "link", "special"}

BundleType(b) ==
  /\ DOMAIN b.kind \subseteq Path
  /\ \A p \in DOMAIN b.kind : b.kind[p] \in Kinds
  /\ b.real \subseteq DOMAIN b.kind
  /\ DOMAIN b.size = DOMAIN b.kind
  /\ \A p \in DOMAIN b.size : b.size[p] \in Nat
  /\ b.tierA \in Seq(Entry) /\ b.tierB \in Seq(Entry)

(* What is real lies in real directories; what is not, below a link. *)
TreeLike(b) ==
  /\ \A p \in b.real : \A n \in 1..Len(p)-1 : Up(p, n) \in b.real /\ b.kind[Up(p, n)] = "dir"
  /\ \A p \in DOMAIN b.kind \ b.real : \E n \in 1..Len(p)-1 :
       /\ Up(p, n) \in b.real /\ b.kind[Up(p, n)] = "link"
       /\ \A m \in 1..n-1 : Up(p, m) \in b.real

ASSUME OrderedTarAssumption ==
  /\ Normal \in Forms
  /\ \A b \in Bundles : BundleType(b) /\ TreeLike(b)

VARIABLES
  bundle,
  at,    \* index in both tiers of the entry being added
  depth, \* how many of its components have been dealt with
  out,   \* the members of the tar, in order
  seen, sym,
  hot    \* hot_bytes

vars == <<bundle, at, depth, out, seen, sym, hot>>

Tiers == bundle.tierA \o bundle.tierB
Adding == at <= Len(Tiers)
entry == Tiers[at]
rel == entry.path
Exists(p) == p \in DOMAIN bundle.kind

TypeOK ==
  /\ at \in 1..Len(Tiers)+1
  /\ depth \in Nat /\ (Adding => depth <= Len(rel))
  /\ out \in Seq(Member)
  /\ seen \subseteq Member /\ sym \subseteq seen
  /\ hot \in Nat

Init ==
  /\ bundle \in Bundles
  /\ at = 1 /\ depth = 0 /\ out = <<>> /\ seen = {} /\ sym = {} /\ hot = 0

-----------------------------------------------------------------------------
NextPath == at' = at + 1 /\ depth' = 0
Deeper == depth' = depth + 1 /\ UNCHANGED at

Emit(e) == out' = Append(out, e) /\ seen' = seen \union {e}
EmitDir(e) == Emit(e) /\ UNCHANGED sym
EmitLink(e) == Emit(e) /\ sym' = sym \union {e}

(* A plausible bug: only the path itself is added, its parents being implied. *)
Enter_ParentsImplied ==
  /\ Adding /\ depth = 0
  /\ IF rel = <<>> \/ entry \in seen \/ ~Exists(rel)
       THEN NextPath
       ELSE depth' = Len(rel) /\ UNCHANGED at
  /\ UNCHANGED <<bundle, out, seen, sym, hot>>

(* Nothing is added for the bundle itself, for a string that was added, or   *)
(* for what is gone.                                                         *)
Enter ==
  /\ Adding /\ depth = 0
  /\ IF rel = <<>> \/ entry \in seen \/ ~Exists(rel) THEN NextPath ELSE Deeper
  /\ UNCHANGED <<bundle, out, seen, sym, hot>>

Parent == Plain(Up(rel, depth))

(* A plausible bug: a link that was added before is entered like a directory. *)
Known_FollowsLink ==
  /\ Adding /\ depth \in 1..Len(rel)-1
  /\ Parent \in seen
  /\ Deeper
  /\ UNCHANGED <<bundle, out, seen, sym, hot>>

(* A parent that is there already; nothing is added below a link. *)
Known ==
  /\ Adding /\ depth \in 1..Len(rel)-1
  /\ Parent \in seen
  /\ IF Parent \in sym THEN NextPath ELSE Deeper
  /\ UNCHANGED <<bundle, out, seen, sym, hot>>

(* A plausible bug: a parent is not remembered. *)
NewParent_Forgotten ==
  /\ Adding /\ depth \in 1..Len(rel)-1
  /\ Parent \notin seen
  /\ IF bundle.kind[Up(rel, depth)] = "link"
       THEN EmitLink(Parent) /\ NextPath
       ELSE out' = Append(out, Parent) /\ Deeper /\ UNCHANGED <<seen, sym>>
  /\ UNCHANGED <<bundle, hot>>

(* A parent that is a link stands for all that is below it. *)
NewParent ==
  /\ Adding /\ depth \in 1..Len(rel)-1
  /\ Parent \notin seen
  /\ IF bundle.kind[Up(rel, depth)] = "link"
       THEN EmitLink(Parent) /\ NextPath
       ELSE EmitDir(Parent) /\ Deeper
  /\ UNCHANGED <<bundle, hot>>

InTierA == at <= Len(bundle.tierA)

(* A plausible bug: a link that is opened is left out, as a special file is. *)
Self_SkipsLinks ==
  /\ Adding /\ depth >= 1 /\ depth = Len(rel)
  /\ CASE bundle.kind[rel] = "dir"  -> EmitDir(entry) /\ UNCHANGED hot
       [] bundle.kind[rel] = "file" ->
            EmitDir(entry) /\ hot' = hot + IF InTierA THEN bundle.size[rel] ELSE 0
       [] OTHER -> UNCHANGED <<out, seen, sym, hot>>
  /\ NextPath
  /\ UNCHANGED bundle

(* Sockets, pipes and devices are left out; only tier A counts as hot. *)
Self ==
  /\ Adding /\ depth >= 1 /\ depth = Len(rel)
  /\ CASE bundle.kind[rel] = "link" -> EmitLink(entry) /\ UNCHANGED hot
       [] bundle.kind[rel] = "dir"  -> EmitDir(entry) /\ UNCHANGED hot
       [] bundle.kind[rel] = "file" ->
            EmitDir(entry) /\ hot' = hot + IF InTierA THEN bundle.size[rel] ELSE 0
       [] OTHER -> UNCHANGED <<out, seen, sym, hot>>
  /\ NextPath
  /\ UNCHANGED bundle

Next == Enter \/ Known \/ NewParent \/ Self

Spec == Init /\ [][Next]_vars /\ WF_vars(Next)

-----------------------------------------------------------------------------
(* Properties *)

Listed(s) == {s[i] : i \in 1..Len(s)}

(* No member is in the tar twice, whatever the tiers repeat: mkfs.erofs      *)
(* would let the second one replace the first.  Only two strings for one     *)
(* path are two members, and then a tier spells that path otherwise than the *)
(* walk does.                                                                *)
Once ==
  \A i, j \in 1..Len(out) : i # j /\ out[i].path = out[j].path =>
    /\ out[i] # out[j]
    /\ \E e \in Listed(Tiers) : e.path = out[i].path /\ e.form # Normal

(* The parents of a member precede it, in any order of the tiers.            *)
ParentsFirst ==
  \A k \in 1..Len(out) : \A n \in 1..Len(out[k].path)-1 :
    \E j \in 1..k-1 : out[j] = Plain(Up(out[k].path, n))

(* Every member is there under its real path: none lies below a symbolic     *)
(* link, although tier A names files by the path by which they were opened.  *)
NothingBelowLinks == \A k \in 1..Len(out) : out[k].path \in bundle.real

PathsOf(s) == {e.path : e \in Listed(s)}
Walked == {p \in bundle.real : bundle.kind[p] \in {"file", "link"}}

(* _tier, as long as the bundle has not changed since it was recorded; it    *)
(* compares strings as well.                                                 *)
Recorded == Listed(bundle.tierB) = {Plain(p) : p \in Walked} \ Listed(bundle.tierA)

(* Every file and every link is in the image, also those that tier A names   *)
(* by another path only.                                                     *)
FilesComplete == (~Adding /\ Recorded) => Walked \subseteq PathsOf(out)
=============================================================================
