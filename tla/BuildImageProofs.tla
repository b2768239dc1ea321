-------------------------- MODULE BuildImageProofs --------------------------
(***************************************************************************)
(* Proofs about BuildImage, the way from a bundle, or from an archive that *)
(* may be patched, to a booted satellite: the order of the tar             *)
(* (OrderedTar), for every bundle and every tiers; the heat boundary and   *)
(* the primer (Primer), for every size of blocks, headroom, buffer and     *)
(* image; the manifests of a patched archive (Patcher), for any archives   *)
(* and any number of patches; the tree that layers make (Layers), for any  *)
(* members in any order, and that it is what the layers mean; and, from    *)
(* all of these but the last, what is in memory when launch.sh runs.       *)
(***************************************************************************)
EXTENDS BuildImage, SequenceTheorems, FiniteSetTheorems, WellFoundedInduction,
        NaturalsInduction, TLAPS

-----------------------------------------------------------------------------
(* The tar of OrderedTar, for every bundle whose paths form a tree with      *)
(* symbolic links, and every pair of tiers.                                  *)
BundleOK(b) == BundleType(b) /\ TreeLike(b)

(* What has been added, and which of it is a link. *)
SeenIsOut == seen = Listed(out)
LinksKnown == \A e \in seen : e \in sym <=> bundle.kind[e.path] = "link"

(* No string is there twice; one that is not in the normal form comes from a *)
(* tier, since parents are put together anew.                                *)
NoneTwice == \A i, j \in 1..Len(out) : i # j => out[i] # out[j]
OddListed == \A k \in 1..Len(out) : out[k].form # Normal => out[k] \in Listed(Tiers)

(* While an entry is dealt with, its parents so far are there, none is a     *)
(* link, and the entry itself is not there yet.                              *)
Walking ==
  (Adding /\ depth > 0) =>
    /\ rel \in DOMAIN bundle.kind /\ entry \notin seen
    /\ \A n \in 1..depth-1 : Plain(Up(rel, n)) \in seen \ sym

TarInv ==
  /\ BundleOK(bundle) /\ TypeOK
  /\ SeenIsOut /\ LinksKnown /\ Walking
  /\ NoneTwice /\ OddListed /\ ParentsFirst /\ NothingBelowLinks

-----------------------------------------------------------------------------
(* Paths *)

(* The first components of a path are a path; those of those are its own.    *)
LEMMA UpIsPath ==
  ASSUME NEW p \in Seq(Name), NEW n \in 1..Len(p)
  PROVE  Up(p, n) \in Path /\ Len(Up(p, n)) = n
<1>0. Len(p) \in Nat /\ \A i \in 1..n : p[i] \in Name
  BY LenProperties, ElementOfSeq
<1>1. Up(p, n) \in Seq(Name) /\ Len(Up(p, n)) = n
  BY <1>0, SubSeqProperties DEF Up
<1> QED
  BY <1>1 DEF Path

LEMMA UpOfUp ==
  ASSUME NEW p \in Seq(Name), NEW n \in 1..Len(p), NEW m \in 1..n
  PROVE  Up(Up(p, n), m) = Up(p, m)
<1>0. Len(p) \in Nat
  BY LenProperties
<1>1. SubSeq(SubSeq(p, 1, n), 1, m) = SubSeq(p, 1 + 1 - 1, 1 + m - 1)
  BY <1>0, SubSeqOfSubSeq
<1> QED
  BY <1>1 DEF Up

LEMMA UpAll ==
  ASSUME NEW p \in Seq(Name)
  PROVE  Up(p, Len(p)) = p
BY SubSeqFull DEF Up

(* Without a link on the way, what exists is where the walk finds it.        *)
LEMMA RealOnTheWay ==
  ASSUME NEW b, BundleOK(b), NEW p \in DOMAIN b.kind, NEW n \in 1..Len(p),
         \A m \in 1..n-1 : b.kind[Up(p, m)] # "link"
  PROVE  Up(p, n) \in b.real
<1>0. BundleType(b) /\ TreeLike(b)
  BY DEF BundleOK
<1>1. p \in Seq(Name) /\ Len(p) \in Nat
  BY <1>0, LenProperties DEF BundleType, Path
<1>2. CASE p \in b.real
  <2>1. CASE n = Len(p)
    BY <1>1, <1>2, <2>1, UpAll
  <2>2. CASE n < Len(p)
    BY <1>0, <1>1, <1>2, <2>2 DEF TreeLike
  <2> QED
    BY <1>1, <2>1, <2>2
<1>3. CASE p \notin b.real
  <2>1. PICK k \in 1..Len(p)-1 :
          /\ Up(p, k) \in b.real /\ b.kind[Up(p, k)] = "link"
          /\ \A m \in 1..k-1 : Up(p, m) \in b.real
    BY <1>0, <1>3 DEF TreeLike
  <2>2. k >= n
    BY <1>1, <2>1
  <2> QED
    BY <1>1, <2>1, <2>2
<1> QED
  BY <1>2, <1>3

-----------------------------------------------------------------------------
(* The tar *)

(* What is spelled in the normal form is a member and leads where it says.   *)
LEMMA PlainIsMember ==
  ASSUME NEW p \in Path
  PROVE  Plain(p) \in Member /\ Plain(p).path = p /\ Plain(p).form = Normal
BY OrderedTarAssumption DEF Plain, Member

LEMMA SameMember ==
  ASSUME NEW d \in Member, NEW e \in Member, d.path = e.path, d.form = e.form
  PROVE  d = e
BY DEF Member

(* Two members for one path are spelled in two forms, one of which a tier    *)
(* must have.                                                                *)
LEMMA TarOnce == TarInv => Once
<1> SUFFICES ASSUME TarInv, NEW i \in 1..Len(out), NEW j \in 1..Len(out),
                    i # j, out[i].path = out[j].path
             PROVE  /\ out[i] # out[j]
                    /\ \E e \in Listed(Tiers) : e.path = out[i].path /\ e.form # Normal
  BY DEF Once
<1>1. out[i] # out[j]
  BY DEF TarInv, NoneTwice
<1>2. out[i] \in Member /\ out[j] \in Member
  BY ElementOfSeq DEF TarInv, TypeOK
<1>3. out[i].form # out[j].form
  BY <1>1, <1>2, SameMember
<1>4. CASE out[i].form # Normal
  BY <1>1, <1>4 DEF TarInv, OddListed
<1>5. CASE out[j].form # Normal
  <2>1. out[j] \in Listed(Tiers) /\ out[j].path = out[i].path
    BY <1>5 DEF TarInv, OddListed
  <2> QED
    BY <1>1, <1>5, <2>1
<1> QED
  BY <1>3, <1>4, <1>5

(* Adding a new string for a real path whose parents are there keeps the tar *)
(* in order.                                                                 *)
LEMMA EmitKeepsOrder ==
  ASSUME out \in Seq(Member), SeenIsOut, NoneTwice, OddListed, ParentsFirst, NothingBelowLinks,
         NEW e \in Member, e \notin seen, e.path \in bundle.real,
         e.form # Normal => e \in Listed(Tiers),
         \A n \in 1..Len(e.path)-1 : Plain(Up(e.path, n)) \in seen,
         Emit(e), bundle' = bundle
  PROVE  /\ out' \in Seq(Member) /\ SeenIsOut'
         /\ NoneTwice' /\ OddListed' /\ ParentsFirst' /\ NothingBelowLinks'
<1>1. /\ out' \in Seq(Member) /\ Len(out') = Len(out) + 1 /\ out'[Len(out) + 1] = e
      /\ \A i \in 1..Len(out) : out'[i] = out[i]
  BY AppendProperties DEF Emit
<1>2. Len(out) \in Nat
  BY LenProperties
<1>3. SeenIsOut'
  <2>1. Listed(out)' = Listed(out) \union {e}
    BY <1>1, <1>2 DEF Listed
  <2> QED
    BY <2>1 DEF SeenIsOut, Emit
<1>4. NoneTwice'
  <2>1. \A i \in 1..Len(out) : out[i] # e
    BY DEF SeenIsOut, Listed
  <2> QED
    BY <1>1, <1>2, <2>1 DEF NoneTwice
<1>5. ParentsFirst'
  <2> SUFFICES ASSUME NEW k \in 1..Len(out'), NEW n \in 1..Len(out'[k].path)-1
               PROVE  \E j \in 1..k-1 : out'[j] = Plain(Up(out'[k].path, n))
    BY DEF ParentsFirst
  <2>1. CASE k \in 1..Len(out)
    <3>1. PICK j \in 1..k-1 : out[j] = Plain(Up(out[k].path, n))
      BY <1>1, <2>1 DEF ParentsFirst
    <3>2. j \in 1..Len(out)
      BY <1>2, <2>1
    <3>3. out'[k] = out[k]
      BY <1>1, <2>1
    <3>4. out'[j] = out[j]
      BY <1>1, <3>2
    <3> QED
      BY <3>1, <3>3, <3>4
  <2>2. CASE k = Len(out) + 1
    <3>1. Plain(Up(e.path, n)) \in Listed(out)
      BY <1>1, <2>2 DEF SeenIsOut
    <3>2. PICK j \in 1..Len(out) : out[j] = Plain(Up(e.path, n))
      BY <3>1 DEF Listed
    <3> QED
      BY <1>1, <1>2, <2>2, <3>2
  <2> QED
    BY <1>1, <1>2, <2>1, <2>2
<1>6. NothingBelowLinks'
  BY <1>1, <1>2 DEF NothingBelowLinks
<1>7. OddListed'
  <2>1. Tiers' = Tiers
    BY DEF Tiers
  <2>2. Listed(Tiers)' = Listed(Tiers)
    BY <2>1 DEF Listed
  <2> QED
    BY <1>1, <1>2, <2>2 DEF OddListed
<1> QED
  BY <1>1, <1>3, <1>4, <1>5, <1>6, <1>7

(* What a bundle of the instance is made of. *)
LEMMA BundleFacts ==
  ASSUME NEW b, BundleOK(b)
  PROVE  /\ DOMAIN b.kind \subseteq Path /\ b.real \subseteq DOMAIN b.kind
         /\ \A p \in DOMAIN b.kind : b.kind[p] \in Kinds /\ b.size[p] \in Nat
         /\ b.tierA \in Seq(Entry) /\ b.tierB \in Seq(Entry)
         /\ b.tierA \o b.tierB \in Seq(Entry) /\ Len(b.tierA \o b.tierB) \in Nat
<1>1. BundleType(b)
  BY DEF BundleOK
<1>2. b.tierA \o b.tierB \in Seq(Entry)
  BY <1>1, ConcatProperties DEF BundleType
<1> QED
  BY <1>1, <1>2, LenProperties DEF BundleType

LEMMA EntryFacts ==
  ASSUME NEW e \in Entry
  PROVE  /\ e.path \in Seq(Name) /\ Len(e.path) \in Nat /\ (e.path # <<>> => Len(e.path) > 0)
         /\ (e.path # <<>> => e \in Member)
<1>1. e.path \in Seq(Name) /\ e.form \in Forms /\ e = [path |-> e.path, form |-> e.form]
  BY DEF Entry
<1>2. e.path # <<>> => e \in Member
  BY <1>1 DEF Member, Path
<1> QED
  BY <1>1, <1>2, LenProperties, EmptySeq

LEMMA InitTarInv == BundleOK(bundle) /\ TarInit => TarInv
<1> SUFFICES ASSUME BundleOK(bundle), TarInit PROVE TarInv
  OBVIOUS
<1>1. Len(Tiers) \in Nat /\ Tiers \in Seq(Entry)
  BY BundleFacts DEF TarInit, Tiers
<1>2. Adding => Len(rel) \in Nat
  BY <1>1, ElementOfSeq, EntryFacts DEF TarInit, Adding, rel, entry
<1>3. out = <<>> /\ Len(out) = 0
  BY EmptySeq DEF TarInit
<1>4. TypeOK
  BY <1>1, <1>2, <1>3, EmptySeq DEF TarInit, TypeOK
<1>5. SeenIsOut /\ NoneTwice /\ OddListed /\ ParentsFirst /\ NothingBelowLinks
  BY <1>3 DEF TarInit, SeenIsOut, Listed, NoneTwice, OddListed, ParentsFirst, NothingBelowLinks
<1> QED
  BY <1>4, <1>5 DEF TarInit, TarInv, LinksKnown, Walking

(* The types of the position, when the entry is over or one component deeper. *)
LEMMA NextPathOK ==
  ASSUME TarInv, Adding, NextPath, bundle' = bundle
  PROVE  at' \in 1..Len(Tiers')+1 /\ depth' = 0 /\ (Adding' => depth' <= Len(rel'))
<1>1. Tiers' = Tiers
  BY DEF Tiers
<1>2. Len(Tiers) \in Nat /\ Tiers \in Seq(Entry)
  BY BundleFacts DEF TarInv, Tiers
<1>3. at' \in 1..Len(Tiers')+1 /\ depth' = 0
  BY <1>1, <1>2 DEF TarInv, TypeOK, Adding, NextPath
<1>4. Adding' => Len(rel') \in Nat
  <2> SUFFICES ASSUME Adding' PROVE Len(rel') \in Nat
    OBVIOUS
  <2>1. at' \in 1..Len(Tiers)
    BY <1>1, <1>2, <1>3 DEF Adding
  <2>2. Tiers[at'] \in Entry
    BY <1>2, <2>1, ElementOfSeq
  <2>3. Len(Tiers[at'].path) \in Nat
    BY <2>2, EntryFacts
  <2> QED
    BY <1>1, <2>3 DEF rel, entry
<1> QED
  BY <1>3, <1>4

LEMMA RelIsPath ==
  ASSUME TarInv, Adding
  PROVE  /\ rel \in Seq(Name) /\ Len(rel) \in Nat /\ (rel # <<>> => Len(rel) > 0)
         /\ (rel # <<>> => entry \in Member) /\ entry \in Listed(Tiers)
<1>1. Len(Tiers) \in Nat /\ Tiers \in Seq(Entry)
  BY BundleFacts DEF TarInv, Tiers
<1>2. at \in 1..Len(Tiers)
  BY <1>1 DEF TarInv, TypeOK, Adding
<1>3. entry \in Entry /\ entry \in Listed(Tiers)
  BY <1>1, <1>2, ElementOfSeq DEF entry, Listed
<1> QED
  BY <1>3, EntryFacts DEF rel

(* Nothing happens to what the tar holds when nothing is added. *)
LEMMA TarStays ==
  ASSUME TarInv, UNCHANGED <<bundle, out, seen, sym>>
  PROVE  /\ SeenIsOut' /\ LinksKnown'
         /\ NoneTwice' /\ OddListed' /\ ParentsFirst' /\ NothingBelowLinks'
<1>1. Tiers' = Tiers
  BY DEF Tiers
<1> QED
  BY <1>1 DEF TarInv, SeenIsOut, LinksKnown, NoneTwice, OddListed, Listed, ParentsFirst,
              NothingBelowLinks

(* Each turn of the loop preserves the invariant.                            *)
LEMMA EnterTarInv == TarInv /\ Enter => TarInv'
<1> SUFFICES ASSUME TarInv, Enter PROVE TarInv'
  OBVIOUS
<1>1. UNCHANGED <<bundle, out, seen, sym, hot>> /\ Adding /\ depth = 0
  BY DEF Enter
<1>2. Tiers' = Tiers
  BY <1>1 DEF Tiers
<1>3. SeenIsOut' /\ LinksKnown' /\ NoneTwice' /\ OddListed' /\ ParentsFirst' /\ NothingBelowLinks'
  BY <1>1, TarStays
<1>4. CASE rel = <<>> \/ entry \in seen \/ ~Exists(rel)
  <2>1. NextPath
    BY <1>4 DEF Enter
  <2>2. TypeOK'
    BY <1>1, <2>1, NextPathOK DEF TarInv, TypeOK
  <2>3. Walking'
    BY <2>1 DEF NextPath, Walking
  <2> QED
    BY <1>1, <1>3, <2>2, <2>3 DEF TarInv
<1>5. CASE ~(rel = <<>> \/ entry \in seen \/ ~Exists(rel))
  <2>1. depth' = 1 /\ at' = at
    BY <1>1, <1>5 DEF Enter, Deeper
  <2>2. entry' = entry /\ rel' = rel /\ Adding'
    BY <1>1, <1>2, <2>1 DEF entry, rel, Adding
  <2>3. TypeOK'
    BY <1>1, <1>2, <1>5, <2>1, <2>2, RelIsPath DEF TarInv, TypeOK
  <2>4. Walking'
    BY <1>1, <1>5, <2>1, <2>2 DEF Walking, Exists
  <2> QED
    BY <1>1, <1>3, <2>3, <2>4 DEF TarInv
<1> QED
  BY <1>4, <1>5

LEMMA KnownTarInv == TarInv /\ Known => TarInv'
<1> SUFFICES ASSUME TarInv, Known PROVE TarInv'
  OBVIOUS
<1>1. UNCHANGED <<bundle, out, seen, sym, hot>> /\ Adding /\ depth \in 1..Len(rel)-1
  BY DEF Known
<1>2. Tiers' = Tiers
  BY <1>1 DEF Tiers
<1>3. SeenIsOut' /\ LinksKnown' /\ NoneTwice' /\ OddListed' /\ ParentsFirst' /\ NothingBelowLinks'
  BY <1>1, TarStays
<1>4. CASE Parent \in sym
  <2>1. NextPath
    BY <1>4 DEF Known
  <2>2. TypeOK'
    BY <1>1, <2>1, NextPathOK DEF TarInv, TypeOK
  <2>3. Walking'
    BY <2>1 DEF NextPath, Walking
  <2> QED
    BY <1>1, <1>3, <2>2, <2>3 DEF TarInv
<1>5. CASE Parent \notin sym
  <2>1. depth' = depth + 1 /\ at' = at
    BY <1>5 DEF Known, Deeper
  <2>2. entry' = entry /\ rel' = rel /\ Adding'
    BY <1>1, <1>2, <2>1 DEF entry, rel, Adding
  <2>3. TypeOK'
    BY <1>1, <1>2, <2>1, <2>2, RelIsPath DEF TarInv, TypeOK
  <2>4. Walking'
    <3>1. Plain(Up(rel, depth)) \in seen \ sym
      BY <1>5 DEF Known, Parent
    <3>2. \A n \in 1..depth : Plain(Up(rel, n)) \in seen \ sym
      BY <1>1, <3>1 DEF TarInv, Walking
    <3>3. rel \in DOMAIN bundle.kind /\ entry \notin seen
      BY <1>1 DEF TarInv, Walking
    <3>4. depth' - 1 = depth
      BY <1>1, <2>1, RelIsPath
    <3> QED
      BY <1>1, <2>2, <3>2, <3>3, <3>4 DEF Walking, Up
  <2> QED
    BY <1>1, <1>3, <2>3, <2>4 DEF TarInv
<1> QED
  BY <1>4, <1>5

(* Where the loop has arrived lies in directories that are there already.    *)
LEMMA Arrived ==
  ASSUME TarInv, Adding, depth \in 1..Len(rel)
  PROVE  /\ Up(rel, depth) \in Path /\ Up(rel, depth) \in bundle.real
         /\ Up(rel, depth) \in DOMAIN bundle.kind
         /\ Len(Up(rel, depth)) = depth
         /\ \A n \in 1..Len(Up(rel, depth))-1 : Plain(Up(Up(rel, depth), n)) \in seen
<1>1. rel \in Seq(Name) /\ Len(rel) \in Nat
  BY RelIsPath
<1>2. Up(rel, depth) \in Path /\ Len(Up(rel, depth)) = depth
  BY <1>1, UpIsPath
<1>3. rel \in DOMAIN bundle.kind /\ \A n \in 1..depth-1 : Plain(Up(rel, n)) \in seen \ sym
  BY <1>1 DEF TarInv, Walking
<1>4. \A n \in 1..depth-1 : bundle.kind[Up(rel, n)] # "link"
  BY <1>3 DEF TarInv, LinksKnown, Plain
<1>5. Up(rel, depth) \in bundle.real
  BY <1>3, <1>4, RealOnTheWay DEF TarInv
<1>6. \A n \in 1..depth-1 : Up(Up(rel, depth), n) = Up(rel, n)
  BY <1>1, UpOfUp
<1> QED
  BY <1>2, <1>3, <1>5, <1>6, BundleFacts DEF TarInv

LEMMA NewParentTarInv == TarInv /\ NewParent => TarInv'
<1> SUFFICES ASSUME TarInv, NewParent PROVE TarInv'
  OBVIOUS
<1> DEFINE d == Up(rel, depth)
           e == Plain(d)
<1>1. /\ Adding /\ depth \in 1..Len(rel)-1 /\ e \notin seen
      /\ bundle' = bundle /\ hot' = hot
  BY DEF NewParent, Parent
<1>2. rel \in Seq(Name) /\ Len(rel) \in Nat
  BY <1>1, RelIsPath
<1>3. /\ d \in Path /\ d \in bundle.real /\ d \in DOMAIN bundle.kind /\ Len(d) = depth
      /\ \A n \in 1..Len(d)-1 : Plain(Up(d, n)) \in seen
  BY <1>1, <1>2, Arrived
<1>4. Emit(e)
  BY DEF NewParent, EmitLink, EmitDir, Parent
<1>e. e \in Member /\ e.path = d /\ e.form = Normal
  BY <1>3, PlainIsMember
<1>5. /\ out' \in Seq(Member) /\ SeenIsOut'
      /\ NoneTwice' /\ OddListed' /\ ParentsFirst' /\ NothingBelowLinks'
  <2> HIDE DEF d, e
  <2> QED
    BY <1>1, <1>3, <1>4, <1>e, EmitKeepsOrder DEF TarInv, TypeOK
<1>6. seen' = seen \union {e} /\ seen' \subseteq Member
  BY <1>4, <1>e DEF Emit, TarInv, TypeOK
<1>7. Tiers' = Tiers
  BY <1>1 DEF Tiers
<1>n. entry # e
  <2>1. depth < Len(rel)
    BY <1>1, <1>2
  <2> QED
    BY <1>3, <1>e, <2>1 DEF rel
<1>8. CASE bundle.kind[d] = "link"
  <2>1. NextPath /\ sym' = sym \union {e}
    BY <1>8 DEF NewParent, EmitLink, Parent
  <2>2. TypeOK'
    BY <1>1, <1>5, <1>6, <2>1, NextPathOK DEF TarInv, TypeOK
  <2>3. LinksKnown'
    <3> HIDE DEF e
    <3> QED
      BY <1>1, <1>6, <1>8, <1>e, <2>1 DEF TarInv, LinksKnown
  <2>4. Walking'
    BY <2>1 DEF NextPath, Walking
  <2> QED
    BY <1>1, <1>5, <2>2, <2>3, <2>4 DEF TarInv
<1>9. CASE bundle.kind[d] # "link"
  <2>1. depth' = depth + 1 /\ at' = at /\ sym' = sym
    BY <1>9 DEF NewParent, EmitDir, Deeper
  <2>2. entry' = entry /\ rel' = rel /\ Adding'
    BY <1>1, <1>7, <2>1 DEF entry, rel, Adding
  <2>3. TypeOK'
    BY <1>1, <1>2, <1>5, <1>6, <1>7, <2>1, <2>2 DEF TarInv, TypeOK
  <2>4. LinksKnown'
    <3> HIDE DEF e
    <3> QED
      BY <1>1, <1>6, <1>9, <1>e, <2>1 DEF TarInv, TypeOK, LinksKnown
  <2>5. Walking'
    <3>1. e \in seen' \ sym'
      BY <1>1, <1>6, <2>1 DEF TarInv, TypeOK
    <3>2. \A n \in 1..depth-1 : Plain(Up(rel, n)) \in seen' \ sym'
      <4> HIDE DEF e
      <4> QED
        BY <1>1, <1>2, <1>6, <2>1 DEF TarInv, Walking
    <3>3. rel \in DOMAIN bundle.kind /\ entry \notin seen'
      <4> HIDE DEF e
      <4> QED
        BY <1>1, <1>2, <1>6, <1>n DEF TarInv, Walking
    <3>4. depth' - 1 = depth
      BY <1>1, <1>2, <2>1
    <3>5. \A n \in 1..depth : Plain(Up(rel, n)) \in seen' \ sym'
      BY <1>1, <1>2, <3>1, <3>2
    <3> QED
      BY <1>1, <2>2, <3>3, <3>4, <3>5 DEF Walking, Up
  <2> QED
    BY <1>1, <1>5, <2>3, <2>4, <2>5 DEF TarInv
<1> QED
  BY <1>8, <1>9

LEMMA SelfTarInv == TarInv /\ Self => TarInv'
<1> SUFFICES ASSUME TarInv, Self PROVE TarInv'
  OBVIOUS
<1>1. Adding /\ depth >= 1 /\ depth = Len(rel) /\ NextPath /\ bundle' = bundle
  BY DEF Self
<1>2. rel \in Seq(Name) /\ Len(rel) \in Nat
  BY <1>1, RelIsPath
<1>3. Up(rel, depth) = rel /\ depth \in 1..Len(rel)
  BY <1>1, <1>2, UpAll DEF TarInv, TypeOK
<1>4. /\ rel \in Path /\ rel \in bundle.real /\ rel \in DOMAIN bundle.kind
      /\ \A n \in 1..Len(rel)-1 : Plain(Up(rel, n)) \in seen
  BY <1>1, <1>3, Arrived
<1>5. entry \notin seen
  BY <1>1, <1>2 DEF TarInv, Walking
<1>e. entry \in Member /\ entry \in Listed(Tiers) /\ entry.path = rel
  BY <1>1, <1>4, RelIsPath DEF Path, rel
<1>6. Walking'
  BY <1>1 DEF NextPath, Walking
<1>7. ASSUME Emit(entry), hot' \in Nat,
             sym' = IF bundle.kind[rel] = "link" THEN sym \union {entry} ELSE sym
      PROVE  TarInv'
  <2>1. /\ out' \in Seq(Member) /\ SeenIsOut'
        /\ NoneTwice' /\ OddListed' /\ ParentsFirst' /\ NothingBelowLinks'
    BY <1>1, <1>4, <1>5, <1>e, <1>7, EmitKeepsOrder DEF TarInv, TypeOK
  <2>2. seen' = seen \union {entry} /\ seen' \subseteq Member
    BY <1>e, <1>7 DEF Emit, TarInv, TypeOK
  <2>3. sym' \subseteq seen'
    BY <1>7, <2>2 DEF TarInv, TypeOK
  <2>4. TypeOK'
    BY <1>1, <1>7, <2>1, <2>2, <2>3, NextPathOK DEF TarInv, TypeOK
  <2>5. LinksKnown'
    BY <1>1, <1>5, <1>e, <1>7, <2>2 DEF TarInv, TypeOK, LinksKnown
  <2> QED
    BY <1>1, <1>6, <2>1, <2>4, <2>5 DEF TarInv
<1>8. bundle.size[rel] \in Nat /\ bundle.kind[rel] \in Kinds /\ hot \in Nat
  BY <1>4, BundleFacts DEF TarInv, TypeOK
<1>9. CASE bundle.kind[rel] = "special"
  <2>1. UNCHANGED <<out, seen, sym, hot>>
    BY <1>9 DEF Self
  <2>2. TypeOK'
    BY <1>1, <2>1, NextPathOK DEF TarInv, TypeOK
  <2> QED
    BY <1>1, <1>6, <2>1, <2>2, TarStays DEF TarInv
<1>10. CASE bundle.kind[rel] = "link"
  BY <1>7, <1>8, <1>10 DEF Self, EmitLink
<1>11. CASE bundle.kind[rel] = "dir"
  BY <1>7, <1>8, <1>11 DEF Self, EmitDir
<1>12. CASE bundle.kind[rel] = "file"
  <2>1. EmitDir(entry) /\ hot' = hot + IF InTierA THEN bundle.size[rel] ELSE 0
    BY <1>12 DEF Self
  <2>2. hot' \in Nat
    BY <1>8, <2>1
  <2> QED
    BY <1>7, <1>12, <2>1, <2>2 DEF EmitDir
<1> QED
  BY <1>8, <1>9, <1>10, <1>11, <1>12 DEF Kinds

LEMMA NextTarInv == TarInv /\ [Next]_vars => TarInv'
<1> SUFFICES ASSUME TarInv, [Next]_vars PROVE TarInv'
  OBVIOUS
<1>1. CASE UNCHANGED vars
  <2>1. /\ UNCHANGED <<bundle, at, depth, out, seen, sym, hot>>
        /\ Tiers' = Tiers /\ entry' = entry /\ rel' = rel /\ Adding' = Adding
    BY <1>1 DEF vars, Tiers, entry, rel, Adding
  <2>2. TypeOK'
    BY <2>1 DEF TarInv, TypeOK
  <2>3. Walking'
    BY <2>1 DEF TarInv, Walking
  <2> QED
    BY <2>1, <2>2, <2>3, TarStays DEF TarInv
<1>2. CASE Next
  BY <1>2, EnterTarInv, KnownTarInv, NewParentTarInv, SelfTarInv DEF Next
<1> QED
  BY <1>1, <1>2

-----------------------------------------------------------------------------
(* Completeness.  An entry of the tiers that is left behind, and leads to a  *)
(* file or a link of the walk, has been added.                               *)
Dealt == \A j \in 1..at-1 : Tiers[j].path \in Walked => Tiers[j] \in seen

TarAllInv == TarInv /\ Dealt

(* A path that leads through a link is not one of the walk.                  *)
LEMMA BelowLinkNotWalked ==
  ASSUME NEW b, BundleOK(b), NEW p \in b.real, NEW n \in 1..Len(p)-1
  PROVE  b.kind[Up(p, n)] # "link"
BY DEF BundleOK, TreeLike

(* Each turn of the loop leaves a path behind only when it has been added,   *)
(* or has no place in the image.                                             *)
LEMMA StepDealt == TarAllInv /\ [Next]_vars => Dealt'
<1> SUFFICES ASSUME TarAllInv, [Next]_vars PROVE Dealt'
  OBVIOUS
<1>1. CASE UNCHANGED vars
  BY <1>1 DEF vars, TarAllInv, Dealt, Tiers, Walked
<1>2. CASE Next
  <2>1. Adding /\ bundle' = bundle /\ Tiers' = Tiers /\ Walked' = Walked
    BY <1>2 DEF Next, Enter, Known, NewParent, Self, Tiers, Walked
  <2>2. seen \subseteq seen'
    BY <1>2, BundleFacts
       DEF Next, Enter, Known, NewParent, Self, EmitDir, EmitLink, Emit, TarAllInv, TarInv
  <2>3. at \in Nat
    BY DEF TarAllInv, TarInv, TypeOK
  <2>4. CASE at' = at
    BY <2>1, <2>2, <2>4 DEF TarAllInv, Dealt
  <2>5. ASSUME NextPath PROVE rel \in Walked => entry \in seen'
    <3> SUFFICES ASSUME rel \in Walked PROVE entry \in seen'
      OBVIOUS
    <3>1. rel \in bundle.real /\ bundle.kind[rel] \in {"file", "link"}
      BY DEF Walked
    <3>2. rel \in DOMAIN bundle.kind /\ rel # <<>>
      BY <3>1, BundleFacts DEF TarAllInv, TarInv, Path
    <3>3. CASE Enter
      BY <2>2, <2>3, <2>5, <3>2, <3>3 DEF Enter, Exists, Deeper, NextPath
    <3>4. CASE Known
      <4>1. depth \in 1..Len(rel)-1 /\ Parent \in seen
        BY <3>4 DEF Known
      <4>2. bundle.kind[Up(rel, depth)] # "link"
        BY <3>1, <4>1, BelowLinkNotWalked DEF TarAllInv, TarInv
      <4>3. Parent \notin sym
        BY <4>1, <4>2 DEF TarAllInv, TarInv, LinksKnown, Parent, Plain
      <4> QED
        BY <2>3, <2>5, <3>4, <4>3 DEF Known, Deeper, NextPath
    <3>5. CASE NewParent
      <4>1. bundle.kind[Up(rel, depth)] # "link"
        BY <3>1, <3>5, BelowLinkNotWalked DEF NewParent, TarAllInv, TarInv
      <4> QED
        BY <2>3, <2>5, <3>5, <4>1 DEF NewParent, Deeper, NextPath
    <3>6. CASE Self
      BY <3>1, <3>6 DEF Self, EmitDir, EmitLink, Emit
    <3> QED
      BY <1>2, <3>3, <3>4, <3>5, <3>6 DEF Next
  <2>6. CASE NextPath
    <3>1. at' = at + 1
      BY <2>6 DEF NextPath
    <3>2. \A j \in 1..at : Tiers[j].path \in Walked => Tiers[j] \in seen'
      BY <2>2, <2>3, <2>5, <2>6 DEF TarAllInv, Dealt, rel, entry
    <3> QED
      BY <2>1, <2>3, <3>1, <3>2 DEF Dealt
  <2> QED
    BY <1>2, <2>4, <2>6 DEF Next, Enter, Known, NewParent, Self, Deeper
<1> QED
  BY <1>1, <1>2

(* What one of the two tiers lists has an index in both together.            *)
LEMMA ListedInBoth ==
  ASSUME NEW b, BundleOK(b), NEW e,
         e \in Listed(b.tierA) \/ e \in Listed(b.tierB)
  PROVE  \E j \in 1..Len(b.tierA \o b.tierB) : (b.tierA \o b.tierB)[j] = e
<1> DEFINE s == b.tierA
           t == b.tierB
<1>1. s \in Seq(Entry) /\ t \in Seq(Entry)
  BY DEF BundleOK, BundleType
<1>2. CASE e \in Listed(s)
  <2>1. PICK i \in 1..Len(s) : s[i] = e
    BY <1>2 DEF Listed
  <2> HIDE DEF s, t
  <2>2. /\ i \in 1..Len(s \o t) /\ (s \o t)[i] = s[i]
    BY <1>1, <2>1, ConcatProperties, LenProperties
  <2>3. \E j \in 1..Len(s \o t) : (s \o t)[j] = e
    BY <2>1, <2>2
  <2> QED
    BY <2>3 DEF s, t
<1>3. CASE e \in Listed(t)
  <2>1. PICK i \in 1..Len(t) : t[i] = e
    BY <1>3 DEF Listed
  <2> HIDE DEF s, t
  <2>2. /\ Len(s) + i \in 1..Len(s \o t) /\ (s \o t)[Len(s) + i] = t[i]
    BY <1>1, <2>1, ConcatProperties, LenProperties
  <2>3. \E j \in 1..Len(s \o t) : (s \o t)[j] = e
    BY <2>1, <2>2
  <2> QED
    BY <2>3 DEF s, t
<1> QED
  BY <1>2, <1>3

(* When the tar is finished nothing is left to deal with. *)
LEMMA DealtComplete == TarAllInv => FilesComplete
<1> SUFFICES ASSUME TarAllInv, ~Adding, Recorded, NEW p \in Walked PROVE p \in PathsOf(out)
  BY DEF FilesComplete
<1>1. Plain(p) \in Listed(bundle.tierA) \/ Plain(p) \in Listed(bundle.tierB)
  BY DEF Recorded
<1>2. PICK j \in 1..Len(Tiers) : Tiers[j] = Plain(p)
  <2>1. BundleOK(bundle)
    BY DEF TarAllInv, TarInv
  <2>2. \E j \in 1..Len(bundle.tierA \o bundle.tierB) : (bundle.tierA \o bundle.tierB)[j] = Plain(p)
    BY <1>1, <2>1, ListedInBoth
  <2> QED
    BY <2>2 DEF Tiers
<1>3. Len(Tiers) \in Nat
  BY BundleFacts DEF TarAllInv, TarInv, Tiers
<1>4. j \in 1..at-1
  BY <1>2, <1>3 DEF TarAllInv, TarInv, TypeOK, Adding
<1>5. Plain(p) \in seen
  BY <1>2, <1>4 DEF TarAllInv, Dealt, Plain
<1> QED
  BY <1>5 DEF TarAllInv, TarInv, SeenIsOut, PathsOf, Plain

(* A bundle of the instance is one. *)
LEMMA InitTarAll == BundleOK(bundle) /\ TarInit => TarAllInv
<1>1. TarInit => Dealt
  BY DEF TarInit, Dealt
<1> QED
  BY <1>1, InitTarInv DEF TarAllInv

LEMMA NextTarAll == TarAllInv /\ [Next]_vars => TarAllInv'
  BY NextTarInv, StepDealt DEF TarAllInv

(* For any bundle and tiers, whatever they repeat and name: a path is in the *)
(* tar twice only in two spellings, of which a tier has one; parents precede *)
(* what they hold, no member lies below a link, and every file and link of a *)
(* recorded bundle is there at the end.                                      *)
THEOREM TarCorrect ==
  Spec => [](TypeOK /\ Once /\ ParentsFirst /\ NothingBelowLinks /\ FilesComplete)
<1>1. Init => TarAllInv
  BY InitTarAll, OrderedTarAssumption DEF Init, TarInit, BundleOK
<1>2. TarAllInv => TypeOK /\ Once /\ ParentsFirst /\ NothingBelowLinks /\ FilesComplete
  BY DealtComplete, TarOnce DEF TarAllInv, TarInv
<1> QED
  BY <1>1, <1>2, NextTarAll, PTL DEF Spec

-----------------------------------------------------------------------------
(* The boundary and the primer. *)

(* The quotient times the divisor, and what remains. *)
LEMMA Division ==
  ASSUME NEW k \in Nat, NEW b \in Nat \ {0}
  PROVE  /\ k \div b \in Nat
         /\ (k \div b) * b \in Nat
         /\ (k \div b) * b <= k
         /\ k < (k \div b) * b + b
<1> DEFINE q == k \div b
           r == k % b
<1>1. q \in Int /\ r \in Int /\ 0 <= r /\ r < b /\ k = b * q + r
  BY SMT
<1>2. q * b \in Int /\ q * b = b * q
  BY <1>1, SMT
<1>3. q * b <= k /\ k < q * b + b
  BY <1>1, <1>2, SMT
<1>4. q >= 0
  BY SMT
<1>5. q \in Nat /\ q * b \in Nat
  BY <1>1, <1>4, SMT
<1> QED
  BY <1>3, <1>5

(* _round_up rounds up, by less than a block. *)
LEMMA RoundUpBounds ==
  ASSUME NEW n \in Nat
  PROVE  RoundUp(n) \in Nat /\ n <= RoundUp(n) /\ RoundUp(n) < n + Block
<1>1. Block \in Nat \ {0} /\ n + Block - 1 \in Nat
  BY PrimerAssumption, SMT
<1> DEFINE up == ((n + Block - 1) \div Block) * Block
<1>2. up \in Nat /\ up <= n + Block - 1 /\ n + Block - 1 < up + Block
  BY <1>1, Division
<1> QED
  BY <1>1, <1>2, SMT DEF RoundUp

(* The boundary does not lie beyond the image, and bytes files that end within *)
(* their bytes and as much more as the headroom end below it: build_image    *)
(* counts the bytes only, mkfs.erofs puts metadata before and padding        *)
(* between them.                                                             *)
THEOREM BoundaryCovers ==
  ASSUME NEW n \in Nat, NEW bytes \in Nat, NEW extra \in 0..Headroom, NEW end \in 0..n,
         end <= bytes + extra
  PROVE  /\ Boundary(n, bytes) \in 0..n
         /\ end <= Boundary(n, bytes)
<1>1. RoundUp(bytes) \in Nat /\ bytes <= RoundUp(bytes)
  BY RoundUpBounds
<1> DEFINE whole == RoundUp(bytes) + Headroom
<1>2. whole \in Nat /\ end <= whole
  BY <1>1, PrimerAssumption, SMT
<1> HIDE DEF whole
<1>3. Boundary(n, bytes) = Lower(n, whole)
  BY DEF Boundary, whole
<1> QED
  BY <1>2, <1>3, SMT DEF Lower

-----------------------------------------------------------------------------
(* What the primer is to read. *)
Goal == IF want = 0 THEN size ELSE Lower(want, size)

(* It never reads more than that; when it is done without an error it has    *)
(* read all; and the application waits for it.                               *)
Progress ==
  /\ done <= Goal
  /\ primer = "active" /\ ~broken => done = Goal
  /\ app = "started" => primer = "active"
  /\ app = "failed" => primer = "failed"

PrimerInv == PrimerTypeOK /\ Progress

(* Nothing has been read of the image at first. *)
LEMMA InitPrimer == PrimerInit => PrimerInv
<1> SUFFICES ASSUME NEW n \in Nat, NEW w \in Nat, PrimerOff(n, w) PROVE PrimerInv
  BY DEF PrimerInit
<1>1. PrimerTypeOK
  <2>1. broken \in BOOLEAN
    BY Zenon DEF PrimerOff
  <2>2. {size, want, done} \subseteq Nat /\ primer = "off" /\ app = "off"
    BY DEF PrimerOff
  <2> QED
    BY <2>1, <2>2 DEF PrimerTypeOK
<1>2. Progress
  BY DEF PrimerOff, Progress, Goal, Lower
<1> QED
  BY <1>1, <1>2 DEF PrimerInv

(* Each step of the primer and of the units preserves the invariant. *)
LEMMA NextPrimer == PrimerInv /\ [Boot]_primerVars => PrimerInv'
<1> SUFFICES ASSUME PrimerInv, [Boot]_primerVars PROVE PrimerInv'
  OBVIOUS
<1>0. Buf \in Nat \ {0}
  BY PrimerAssumption
<1> USE DEF PrimerInv, PrimerTypeOK, Progress, Goal, Lower
<1>1. CASE Open
  BY <1>1 DEF Open
<1>2. CASE Read
  <2>1. PICK k \in 1..Lower(Chunk, size - done) : done' = done + k
    BY <1>2 DEF Read
  <2>2. UNCHANGED <<size, want, primer, broken, app>> /\ primer = "read"
    BY <1>2 DEF Read
  <2>3. done' \in Nat /\ done' <= Goal
    BY <1>0, <2>1 DEF Chunk
  <2> QED
    BY <2>2, <2>3
<1>3. CASE Close
  <2>1. primer' = "active" /\ primer = "read" /\ UNCHANGED <<size, want, done, app>>
    BY <1>3 DEF Close
  <2>2. broken' \in BOOLEAN /\ app \notin {"started", "failed"}
    BY <1>3, <2>1 DEF Close
  <2>3. ~broken' => done = Goal
    BY <1>0, <1>3 DEF Close, Chunk
  <2> QED
    BY <2>1, <2>2, <2>3
<1>4. CASE StartApp
  BY <1>4 DEF StartApp
<1>5. CASE UNCHANGED primerVars
  BY <1>5 DEF primerVars
<1> QED
  BY <1>1, <1>2, <1>3, <1>4, <1>5 DEF Boot

(* The types of the primer's variables, for every buffer and image. *)
THEOREM PrimerTypeCorrect == PrimerSpec => []PrimerTypeOK
<1>1. PrimerInv => PrimerTypeOK
  BY DEF PrimerInv
<1> QED
  BY <1>1, InitPrimer, NextPrimer, PTL DEF PrimerSpec

(* launch.sh runs only after the primer has read the image up to the         *)
(* boundary, or to its end, in however many pieces, unless a read failed.    *)
THEOREM Primed == PrimerSpec => []AppFindsPrimed
<1>1. PrimerInv => AppFindsPrimed
  BY DEF PrimerInv, PrimerTypeOK, Progress, Goal, Lower, AppFindsPrimed
<1> QED
  BY <1>1, InitPrimer, NextPrimer, PTL DEF PrimerSpec

-----------------------------------------------------------------------------
(* The patched archive. *)

LayerName == [kind : {"base", "layer"}, n : Nat]
AnyName == [kind : {"base", "layer", "digest"}, n : Nat]

(* The names in the manifests.  Those of the configuration and the manifest  *)
(* are of the last patch, so that what a patch removes is nowhere named any  *)
(* more.                                                                     *)
NameKinds ==
  /\ patches \in Nat /\ layout \in {"oci", "docker", "dual"}
  /\ manifest.layers \in Seq(LayerName) /\ docker.layers \in Seq(AnyName)
  /\ layout # "docker" =>
       manifest.config = P!Blob("config", patches) /\ manifest.at = P!Blob("manifest", patches)
  /\ layout = "docker" => docker.config = P!Blob("config", patches)
  /\ layout = "dual" => docker = [config |-> manifest.config, layers |-> manifest.layers]

(* All that is named is in the archive, except the digests of added layers. *)
Named ==
  /\ layout # "docker" =>
       /\ {manifest.config, manifest.at} \subseteq names
       /\ \A i \in 1..Len(manifest.layers) : manifest.layers[i] \in names
  /\ layout = "docker" =>
       /\ docker.config \in names
       /\ \A i \in 1..Len(docker.layers) :
            docker.layers[i] \in names \union {P!Digest(n) : n \in 1..patches}

(* Before the first patch the configuration is the original one; by the      *)
(* first it is put away.                                                     *)
PutAway ==
  /\ \A c \in {original, dockerfile} : c = [ep |-> c.ep, cmd |-> c.cmd]
  /\ patches = 0 => config.ep = original.ep /\ config.cmd = original.cmd /\ config.orig = P!Nothing
  /\ patches = 1 =>
       config = [ep |-> P!Wrapper, cmd |-> <<>>,
                 orig |-> IF original = P!Nothing THEN dockerfile ELSE original]

PatchInv == NameKinds /\ Named /\ PutAway

(* An archive that is not patched, with a command or none. *)
LEMMA InitPatch ==
  ASSUME NEW l \in {"oci", "docker", "dual"}, NEW k \in Nat, NEW c, NEW d,
         c = [ep |-> c.ep, cmd |-> c.cmd], d = [ep |-> d.ep, cmd |-> d.cmd],
         P!PatcherInit(l, k, c, d)
  PROVE  PatchInv
<1> USE DEF P!PatcherInit
<1>1. P!Base(k) \in [1..k -> LayerName] /\ P!Base(k) \in [1..k -> AnyName]
  BY DEF P!Base, LayerName, AnyName
<1>2. P!Base(k) \in Seq(LayerName) /\ P!Base(k) \in Seq(AnyName) /\ Len(P!Base(k)) = k
  BY <1>1, SeqDef, LenProperties
<1>3. NameKinds
  BY <1>2 DEF NameKinds
<1>4. Named
  BY <1>2 DEF Named
<1>5. PutAway
  BY DEF PutAway
<1> QED
  BY <1>3, <1>4, <1>5 DEF PatchInv

(* What is added to a sequence is its last element. *)
LEMMA Appended ==
  ASSUME NEW S, NEW s \in Seq(S), NEW x \in S
  PROVE  /\ Append(s, x) \in Seq(S) /\ Len(Append(s, x)) = Len(s) + 1 /\ Len(s) \in Nat
         /\ \A i \in 1..Len(s) : Append(s, x)[i] = s[i]
         /\ Append(s, x)[Len(s) + 1] = x
OBVIOUS

(* A patch names what it adds, and removes only what it names no more. *)
LEMMA PatchPatchInv == PatchInv /\ P!Patch => PatchInv'
<1> SUFFICES ASSUME PatchInv, P!Patch PROVE PatchInv'
  OBVIOUS
<1> DEFINE n == patches + 1
<1>0. /\ patches \in Nat /\ n \in Nat /\ n # patches /\ patches' = n
      /\ UNCHANGED <<layout, original, dockerfile>> /\ config' = P!Wrapped
  BY DEF P!Patch, PatchInv, NameKinds
<1>1. /\ P!Blob("layer", n) \in LayerName /\ P!Blob("layer", n) \in AnyName
      /\ P!Digest(n) \in AnyName
  BY <1>0 DEF P!Blob, P!Digest, LayerName, AnyName
<1> HIDE DEF n
<1>2. NameKinds' /\ Named'
  <2>1. CASE layout # "docker"
    <3>1. /\ manifest' = [at |-> P!Blob("manifest", n), config |-> P!Blob("config", n),
                          layers |-> Append(manifest.layers, P!Blob("layer", n))]
          /\ docker' = IF layout = "oci" THEN docker
                       ELSE [config |-> P!Blob("config", n),
                             layers |-> Append(docker.layers, P!Blob("layer", n))]
          /\ names' = (names \ {manifest.config, manifest.at})
                        \union {P!Blob("layer", n), P!Blob("config", n), P!Blob("manifest", n)}
      BY <2>1 DEF P!Patch, P!ApplyOci, n
    <3>2. manifest.layers \in Seq(LayerName) /\ docker.layers \in Seq(AnyName)
      BY DEF PatchInv, NameKinds
    <3>3. manifest'.layers \in Seq(LayerName) /\ docker'.layers \in Seq(AnyName)
      BY <1>1, <3>1, <3>2, Appended
    <3>4. layout = "dual" => docker' = [config |-> manifest'.config, layers |-> manifest'.layers]
      <4>1. layout = "dual" => docker.layers = manifest.layers
        BY DEF PatchInv, NameKinds
      <4> QED
        BY <3>1, <4>1
    <3>5. NameKinds'
      BY <1>0, <2>1, <3>1, <3>3, <3>4 DEF NameKinds, PatchInv
    <3>6. ASSUME NEW i \in 1..Len(manifest'.layers) PROVE manifest'.layers[i] \in names'
      <4>1. CASE i \in 1..Len(manifest.layers)
        <5>1. manifest'.layers[i] = manifest.layers[i] /\ manifest.layers[i] \in LayerName
          BY <1>1, <3>1, <3>2, <4>1, Appended
        <5>2. manifest.layers[i] \in names
          BY <2>1, <4>1 DEF PatchInv, Named
        <5>3. manifest.layers[i] \notin {manifest.config, manifest.at}
          BY <2>1, <5>1 DEF PatchInv, NameKinds, LayerName, P!Blob
        <5> QED
          BY <3>1, <5>1, <5>2, <5>3
      <4>2. CASE i = Len(manifest.layers) + 1
        BY <1>1, <3>1, <3>2, <4>2, Appended
      <4> QED
        BY <1>1, <3>1, <3>2, <3>6, <4>1, <4>2, Appended
    <3>7. Named'
      BY <1>0, <2>1, <3>1, <3>6 DEF Named
    <3> QED
      BY <3>5, <3>7
  <2>2. CASE layout = "docker"
    <3>1. /\ docker' = [config |-> P!Blob("config", n), layers |-> Append(docker.layers, P!Digest(n))]
          /\ manifest' = manifest
          /\ names' = (names \ {docker.config}) \union {P!Blob("layer", n), P!Blob("config", n)}
      BY <2>2 DEF P!Patch, P!ApplyDocker, n
    <3>2. manifest.layers \in Seq(LayerName) /\ docker.layers \in Seq(AnyName)
      BY DEF PatchInv, NameKinds
    <3>3. docker'.layers \in Seq(AnyName)
      BY <1>1, <3>1, <3>2, Appended
    <3>4. NameKinds'
      BY <1>0, <2>2, <3>1, <3>2, <3>3 DEF NameKinds
    <3>5. ASSUME NEW i \in 1..Len(docker'.layers)
          PROVE  docker'.layers[i] \in names' \union {P!Digest(k) : k \in 1..n}
      <4>1. CASE i \in 1..Len(docker.layers)
        <5>1. docker'.layers[i] = docker.layers[i] /\ docker.layers[i] \in AnyName
          BY <1>1, <3>1, <3>2, <4>1, Appended
        <5>2. docker.layers[i] \in names \union {P!Digest(k) : k \in 1..patches}
          BY <2>2, <4>1 DEF PatchInv, Named
        <5>3. docker.layers[i] # docker.config
          BY <2>2, <5>1 DEF PatchInv, NameKinds, AnyName, P!Blob
        <5>4. 1..patches \subseteq 1..n
          BY <1>0 DEF n
        <5> QED
          BY <3>1, <5>1, <5>2, <5>3, <5>4
      <4>2. CASE i = Len(docker.layers) + 1
        <5>1. docker'.layers[i] = P!Digest(n) /\ n \in 1..n
          BY <1>0, <1>1, <3>1, <3>2, <4>2, Appended DEF n
        <5> QED
          BY <5>1
      <4> QED
        BY <1>1, <3>1, <3>2, <3>5, <4>1, <4>2, Appended
    <3>6. Named'
      BY <1>0, <2>2, <3>1, <3>5 DEF Named
    <3> QED
      BY <3>4, <3>6
  <2> QED
    BY <2>1, <2>2
<1>3. PutAway'
  <2>1. patches' # 0 /\ (patches' = 1 => patches = 0)
    BY <1>0 DEF n
  <2>2. ASSUME patches = 0 PROVE P!Command = IF original = P!Nothing THEN dockerfile ELSE original
    <3>1. config.ep = original.ep /\ config.cmd = original.cmd
      BY <2>2 DEF PatchInv, PutAway
    <3>2. original = [ep |-> original.ep, cmd |-> original.cmd]
      BY DEF PatchInv, PutAway
    <3>3. original = P!Nothing <=> original.ep = <<>> /\ original.cmd = <<>>
      BY <3>2 DEF P!Nothing
    <3> QED
      BY <3>1, <3>2, <3>3 DEF P!Command
  <2>3. config' = [ep |-> P!Wrapper, cmd |-> <<>>, orig |-> P!Command]
    BY <1>0 DEF P!Wrapped
  <2>4. \A c \in {original, dockerfile} : c = [ep |-> c.ep, cmd |-> c.cmd]
    BY DEF PatchInv, PutAway
  <2> QED
    BY <1>0, <2>1, <2>2, <2>3, <2>4 DEF PutAway
<1> QED
  BY <1>2, <1>3 DEF PatchInv

(* Whatever comes before the archive is patched, and after it, leaves it.    *)
LEMMA InitBuild == BuildInit => PatchInv
<1> SUFFICES ASSUME BuildInit PROVE PatchInv
  OBVIOUS
<1>1. /\ archive.layout \in {"oci", "docker", "dual"} /\ Len(archive.layers) \in Nat
      /\ archive.command = [ep |-> archive.command.ep, cmd |-> archive.command.cmd]
      /\ archive.dockerfile = [ep |-> archive.dockerfile.ep, cmd |-> archive.dockerfile.cmd]
  <2>1. CASE archive = Empty
    BY <2>1 DEF Empty, P!Nothing
  <2>2. CASE archive \in Archives
    BY <2>2, BuildAssumption
  <2> QED
    BY <2>1, <2>2 DEF BuildInit
<1>2. P!PatcherInit(archive.layout, Len(archive.layers), archive.command, archive.dockerfile)
  BY DEF BuildInit
<1> QED
  BY <1>1, <1>2, InitPatch

LEMMA NextBuild == PatchInv /\ [BuildNext]_allVars => PatchInv'
<1> SUFFICES ASSUME PatchInv, [BuildNext]_allVars PROVE PatchInv'
  OBVIOUS
<1>1. P!Patch \/ UNCHANGED patchVars
  BY Zenon DEF BuildNext, Patch, Begin, ExtractStep, Order, AddStep, Mkfs, BootStep, allVars
<1>2. CASE P!Patch
  BY <1>2, PatchPatchInv
<1>3. CASE UNCHANGED patchVars
  BY <1>3 DEF patchVars, PatchInv, NameKinds, Named, PutAway
<1> QED
  BY <1>1, <1>2, <1>3

(* However often it is patched, an archive is described by the invariant. *)
THEOREM PatchInvariance == BuildSpec => []PatchInv
BY InitBuild, NextBuild, PTL DEF BuildSpec

(* A container of an image patched once runs what the original ran, with any *)
(* arguments whatever.                                                       *)
LEMMA RunsWithArguments ==
  ASSUME PatchInv, patches = 1, NEW arguments
  PROVE  P!Runs(config, arguments) =
           LET c == IF original = P!Nothing THEN dockerfile ELSE original
           IN  c.ep \o P!Or(arguments, c.cmd)
<1> DEFINE c == IF original = P!Nothing THEN dockerfile ELSE original
<1>1. config = [ep |-> P!Wrapper, cmd |-> <<>>, orig |-> c]
  BY DEF PatchInv, PutAway
<1> HIDE DEF c
<1>2. P!Runs(config, arguments) = c.ep \o P!Or(arguments, c.cmd)
  BY <1>1 DEF P!Runs
<1> QED
  BY <1>2 DEF c

(* A container of an image that was patched once on its way to a booted      *)
(* satellite runs what one of the original image runs.                       *)
THEOREM PatchedRunsOriginal == BuildSpec => []RunsOriginal
<1>1. PatchInv => RunsOriginal
  BY RunsWithArguments DEF RunsOriginal, P!RunsOriginal
<1> QED
  BY PatchInvariance, <1>1, PTL

(* The manifests of an archive, patched or not, lead to what is in it.       *)
THEOREM PatchedNamesResolve == BuildSpec => []NamesResolve
<1>1. PatchInv => NamesResolve
  BY DEF PatchInv, NameKinds, Named, NamesResolve, P!NamesResolve
<1> QED
  BY PatchInvariance, <1>1, PTL

-----------------------------------------------------------------------------
(* The tree that the layers of an image make (Layers). *)

(* An inode is named by the layer and the member that made it. *)
NodeOK(x) ==
  /\ x = [kind |-> x.kind, to |-> x.to] /\ x.kind \in {"dir", "link", "file"}
  /\ x.kind = "dir" => x = L!Dir
  /\ x.kind = "link" => x.to \in Seq(Name)
  /\ x.kind = "file" => x.to \in Nat \X Nat

IsDirIn(t, p) == p \in DOMAIN t /\ t[p].kind = "dir"

(* What is above a path that exists exists, and is a directory. *)
TreeOK(t) ==
  /\ IsFiniteSet(DOMAIN t) /\ DOMAIN t \subseteq Path
  /\ \A p \in DOMAIN t : NodeOK(t[p]) /\ \A q \in L!Above(p) : IsDirIn(t, q)

(* What is above a path are finitely many shorter ones. *)
LEMMA AbovePath ==
  ASSUME NEW p \in Path
  PROVE  /\ L!Above(p) \subseteq Path /\ IsFiniteSet(L!Above(p)) /\ p \notin L!Above(p)
         /\ \A q \in L!Above(p) : L!Above(q) \subseteq L!Above(p)
<1> DEFINE D == 1..Len(p) - 1
           f == [n \in D |-> Up(p, n)]
<1>1. p \in Seq(Name) /\ Len(p) \in Nat
  BY LenProperties DEF Path
<1>2. L!Above(p) = {Up(p, n) : n \in D}
  BY DEF L!Above, L!First, Up
<1>3. \A n \in D : Up(p, n) \in Path /\ Len(Up(p, n)) = n
  BY <1>1, UpIsPath
<1>4. IsFiniteSet(L!Above(p))
  <2>1. IsFiniteSet(D)
    BY <1>1, FS_Interval
  <2>2. f \in Surjection(D, L!Above(p))
    BY <1>2 DEF Surjection
  <2> QED
    BY <2>1, <2>2, FS_Surjection
<1>5. p \notin L!Above(p)
  BY <1>1, <1>2, <1>3
<1>6. ASSUME NEW q \in L!Above(p)
      PROVE  L!Above(q) \subseteq L!Above(p)
  <2>1. PICK n \in D : q = Up(p, n)
    BY <1>2
  <2>2. Len(q) = n
    BY <1>3, <2>1
  <2>3. L!Above(q) = {Up(q, k) : k \in 1..n - 1}
    BY <2>2 DEF L!Above, L!First, Up
  <2>4. \A k \in 1..n - 1 : Up(q, k) = Up(p, k) /\ k \in D
    BY <1>1, <2>1, UpOfUp
  <2> QED
    BY <1>2, <2>3, <2>4
<1> QED
  BY <1>2, <1>3, <1>4, <1>5, <1>6

(* The parents of a path are made. *)
LEMMA TreeGrown ==
  ASSUME NEW t, TreeOK(t),
         NEW p \in Path, \A q \in L!Above(p) : q \in DOMAIN t => t[q].kind = "dir",
         NEW g, g = [q \in DOMAIN t \union L!Above(p) |-> IF q \in DOMAIN t THEN t[q] ELSE L!Dir]
  PROVE  TreeOK(g) /\ \A q \in L!Above(p) : IsDirIn(g, q)
<1>1. DOMAIN g = DOMAIN t \union L!Above(p)
  OBVIOUS
<1>2. IsFiniteSet(DOMAIN g) /\ DOMAIN g \subseteq Path
  BY <1>1, AbovePath, FS_Union DEF TreeOK
<1>3. \A q \in DOMAIN t : g[q] = t[q]
  OBVIOUS
<1>4. \A q \in L!Above(p) : IsDirIn(g, q)
  BY <1>1 DEF IsDirIn, L!Dir
<1>5. ASSUME NEW q \in DOMAIN g
      PROVE  NodeOK(g[q]) /\ \A r \in L!Above(q) : IsDirIn(g, r)
  <2>1. CASE q \in DOMAIN t
    BY <1>1, <1>3, <2>1 DEF TreeOK, IsDirIn
  <2>2. CASE q \in L!Above(p) \ DOMAIN t
    <3>1. NodeOK(g[q])
      BY <1>1, <2>2 DEF NodeOK, L!Dir
    <3>2. L!Above(q) \subseteq L!Above(p)
      BY <2>2, AbovePath
    <3> QED
      BY <1>4, <3>1, <3>2
  <2> QED
    BY <1>1, <2>1, <2>2
<1> QED
  BY <1>2, <1>4, <1>5 DEF TreeOK

(* An entry is made where it lies in directories and does not replace one. *)
LEMMA TreeWith ==
  ASSUME NEW t, TreeOK(t), NEW p \in Path, \A q \in L!Above(p) : IsDirIn(t, q),
         NEW x, NodeOK(x), IsDirIn(t, p) => x.kind = "dir"
  PROVE  TreeOK(L!With(t, p, x))
<1> DEFINE g == L!With(t, p, x)
<1>1. /\ DOMAIN g = DOMAIN t \union {p} /\ g[p] = x
      /\ \A q \in DOMAIN t : q # p => g[q] = t[q]
  BY DEF L!With
<1> HIDE DEF g
<1>2. IsFiniteSet(DOMAIN g) /\ DOMAIN g \subseteq Path
  <2>1. IsFiniteSet({p})
    BY FS_Singleton
  <2> QED
    BY <1>1, <2>1, FS_Union DEF TreeOK
<1>3. \A q : IsDirIn(t, q) => IsDirIn(g, q)
  BY <1>1 DEF IsDirIn
<1>4. ASSUME NEW q \in DOMAIN g
      PROVE  NodeOK(g[q]) /\ \A r \in L!Above(q) : IsDirIn(g, r)
  <2>1. CASE q = p
    BY <1>1, <1>3, <2>1
  <2>2. CASE q # p
    BY <1>1, <1>3, <2>2 DEF TreeOK
  <2> QED
    BY <2>1, <2>2
<1> QED
  BY <1>2, <1>4 DEF TreeOK, g

(* What is removed leaves nothing below it. *)
LEMMA TreeWithout ==
  ASSUME TreeOK(tree), NEW R, \A p \in DOMAIN tree \ R : \A q \in L!Above(p) : q \notin R
  PROVE  TreeOK(L!Without(R))
<1> DEFINE g == L!Without(R)
<1>1. DOMAIN g = DOMAIN tree \ R /\ \A q \in DOMAIN g : g[q] = tree[q]
  BY DEF L!Without, L!Restrict
<1> HIDE DEF g
<1>2. IsFiniteSet(DOMAIN g) /\ DOMAIN g \subseteq Path
  BY <1>1, FS_Subset DEF TreeOK
<1>3. ASSUME NEW p \in DOMAIN g
      PROVE  NodeOK(g[p]) /\ \A q \in L!Above(p) : IsDirIn(g, q)
  BY <1>1 DEF TreeOK, IsDirIn
<1> QED
  BY <1>2, <1>3 DEF TreeOK, g

(* What is within a directory is removed as a whole, *)
LEMMA WithoutWithin ==
  ASSUME TreeOK(tree), NEW p \in Seq(Name)
  PROVE  TreeOK(L!Without(L!Within(p)))
<1>1. ASSUME NEW q \in DOMAIN tree \ L!Within(p), NEW r \in L!Above(q), r \in L!Within(p)
      PROVE  FALSE
  <2>1. q \in Path /\ q \in Seq(Name) /\ Len(q) \in Nat /\ Len(p) \in Nat
    BY LenProperties DEF TreeOK, Path
  <2>2. PICK n \in 1..Len(q) - 1 : r = Up(q, n)
    BY DEF L!Above, L!First, Up
  <2>3. Len(r) = n
    BY <2>1, <2>2, UpIsPath
  <2>4. Len(p) <= n /\ SubSeq(p, 1, Len(p)) = SubSeq(r, 1, Len(p))
    BY <1>1, <2>3 DEF L!Within, L!IsPrefix
  <2>5. SubSeq(r, 1, Len(p)) = SubSeq(q, 1, Len(p))
    <3>1. CASE Len(p) = 0
      <4>1. r \in Seq(Name)
        BY <2>1, <2>2, UpIsPath DEF Path
      <4> QED
        BY <2>1, <3>1, <4>1, SubSeqEmpty
    <3>2. CASE Len(p) # 0
      <4>1. Len(p) \in 1..n /\ n \in 1..Len(q)
        BY <2>1, <2>2, <2>4, <3>2
      <4> QED
        BY <2>1, <2>2, <4>1, UpOfUp DEF Up
    <3> QED
      BY <3>1, <3>2
  <2>6. L!IsPrefix(p, q)
    BY <2>1, <2>2, <2>4, <2>5 DEF L!IsPrefix
  <2> QED
    BY <2>6 DEF L!Within
<1>2. \A q \in DOMAIN tree \ L!Within(p) : \A r \in L!Above(q) : r \notin L!Within(p)
  BY <1>1
<1> QED
  BY <1>2, TreeWithout

(* and a file or a link has nothing within. *)
LEMMA WithoutOne ==
  ASSUME TreeOK(tree), NEW p, p \in DOMAIN tree => tree[p].kind # "dir"
  PROVE  TreeOK(L!Without({p}))
<1>1. \A q \in DOMAIN tree \ {p} : \A r \in L!Above(q) : r \notin {p}
  BY DEF TreeOK, IsDirIn
<1> QED
  BY <1>1, TreeWithout

LayerType == {x \in [there : BOOLEAN, members : Seq(MemberType)] : L!WellMade(x.members)}

LayersInv ==
  /\ layers \in Seq(LayerType) /\ ln \in 0..Len(layers) /\ mn \in Nat \ {0}
  /\ TreeOK(tree)

(* The member to apply is one of a layer, and names a path. *)
LEMMA MemberHere ==
  ASSUME LayersInv, ~L!Applied
  PROVE  /\ L!m \in MemberType /\ L!m.path \in Seq(Name) /\ L!m.to \in Seq(Name)
         /\ L!m.kind # "opaque" => L!m.path \in Path
<1>1. layers \in Seq(LayerType) /\ Len(layers) \in Nat /\ ln \in 0..Len(layers) /\ mn \in Nat \ {0}
  BY LenProperties DEF LayersInv
<1>2. ln # 0
  <2>1. SUFFICES ASSUME ln = 0 PROVE FALSE
    OBVIOUS
  <2>2. L!Members = <<>> /\ Len(<<>>) = 0
    BY <2>1 DEF L!Members
  <2> QED
    BY <1>1, <2>2 DEF L!Applied
<1>3. L!Members = layers[ln].members /\ layers[ln] \in LayerType
  BY <1>1, <1>2 DEF L!Members
<1>4. L!Members \in Seq(MemberType)
  BY <1>3 DEF LayerType
<1>5. mn \in 1..Len(L!Members)
  BY <1>1, <1>4, LenProperties DEF L!Applied
<1>6. L!m \in MemberType
  BY <1>4, <1>5, ElementOfSeq DEF L!m
<1> QED
  BY <1>6 DEF MemberType, Path

LEMMA MemberAt ==
  ASSUME LayersInv, NEW k, k # "opaque", L!At({k})
  PROVE  L!m.path \in Path /\ L!m.path \in Seq(Name) /\ L!m.to \in Seq(Name)
<1>1. ~L!Applied /\ L!m.kind # "opaque"
  BY DEF L!At
<1> QED
  BY <1>1, MemberHere

(* Below the top, what there is is in the tree. *)
LEMMA HasPath ==
  ASSUME NEW p \in Path, NEW k
  PROVE  L!Has(p, k) <=> p \in DOMAIN tree /\ tree[p].kind = k
BY DEF L!Has, Path

LEMMA StepTree ==
  ASSUME LayersInv, NEW t, NEW x, L!Step(t, x), TreeOK(t)
  PROVE  LayersInv'
<1>1. tree' = t /\ mn' = mn + 1 /\ UNCHANGED <<layers, ln>>
  BY DEF L!Step
<1>2. TreeOK(tree')
  BY <1>1
<1>3. TreeOK(tree)'
  BY <1>2 DEF TreeOK, NodeOK, IsDirIn
<1> QED
  BY <1>1, <1>3 DEF LayersInv

LEMMA RaiseTree == LayersInv /\ L!Raise => LayersInv'
  BY DEF L!Raise, LayersInv, TreeOK, IsDirIn

(* Where all that is above its path is a directory, an entry may be made.    *)
LEMMA GrownOK ==
  ASSUME LayersInv, NEW p \in Path, L!m.path = p, L!Holds(p)
  PROVE  /\ TreeOK(L!Grown) /\ \A q \in L!Above(p) : IsDirIn(L!Grown, q)
         /\ \A q \in DOMAIN tree : q \in DOMAIN L!Grown /\ L!Grown[q] = tree[q]
         /\ p \notin DOMAIN tree => p \notin DOMAIN L!Grown
<1> DEFINE g == L!Grown
<1>1. g = [q \in DOMAIN tree \union L!Above(p) |-> IF q \in DOMAIN tree THEN tree[q] ELSE L!Dir]
  BY DEF L!Grown
<1>2. \A q \in L!Above(p) : q \in DOMAIN tree => tree[q].kind = "dir"
  BY DEF L!Holds
<1>3. TreeOK(tree)
  BY DEF LayersInv
<1> HIDE DEF g
<1>4. TreeOK(g) /\ \A q \in L!Above(p) : IsDirIn(g, q)
  BY <1>1, <1>2, <1>3, TreeGrown
<1>5. \A q \in DOMAIN tree : q \in DOMAIN g /\ g[q] = tree[q]
  BY <1>1
<1>6. p \notin DOMAIN tree => p \notin DOMAIN g
  BY <1>1, AbovePath
<1> QED
  BY <1>4, <1>5, <1>6 DEF g

(* An entry for the path of the member that does not replace a directory *)
LEMMA EntryOK ==
  ASSUME LayersInv, NEW p \in Path, L!m.path = p, L!Holds(p),
         NEW x, NodeOK(x), IsDirIn(tree, p) => x.kind = "dir"
  PROVE  TreeOK(L!With(L!Grown, p, x))
<1>1. /\ TreeOK(L!Grown) /\ \A q \in L!Above(p) : IsDirIn(L!Grown, q)
      /\ IsDirIn(L!Grown, p) => x.kind = "dir"
  BY GrownOK DEF IsDirIn
<1> QED
  BY <1>1, TreeWith

(* A new file has an inode named by its member. *)
LEMMA InodeOK == LayersInv => NodeOK(L!FileOf(<<ln, mn>>))
<1>1. LayersInv => ln \in Nat /\ mn \in Nat
  BY LenProperties DEF LayersInv
<1> QED
  BY <1>1 DEF NodeOK, L!FileOf, L!Dir

LEMMA ExtractLayers == LayersInv /\ L!Extract => LayersInv'
<1> SUFFICES ASSUME LayersInv, L!Extract PROVE LayersInv'
  OBVIOUS
<1>0. TreeOK(tree)
  BY DEF LayersInv
<1>1. CASE L!OpenLayer
  <2>1. ln < Len(layers) /\ ln' = ln + 1 /\ mn' = 1 /\ UNCHANGED <<layers, tree>>
    BY <1>1 DEF L!OpenLayer
  <2>2. ln' \in 0..Len(layers')
    BY <2>1, LenProperties DEF LayersInv
  <2>3. TreeOK(tree)'
    BY <1>0, <2>1 DEF TreeOK, IsDirIn
  <2> QED
    BY <2>1, <2>2, <2>3 DEF LayersInv
<1> DEFINE p == L!m.path
<1>2. CASE L!Opaque
  <2>1. p \in Seq(Name)
    BY <1>2, MemberHere DEF L!Opaque, L!At
  <2>2. TreeOK(L!Without(L!Within(p)))
    BY <1>0, <2>1, WithoutWithin
  <2> QED
    BY <1>0, <1>2, <2>2, StepTree DEF L!Opaque
<1>3. CASE L!Whiteout
  <2>1. p \in Path /\ p \in Seq(Name)
    <3>1. L!At({"white"})
      BY <1>3 DEF L!Whiteout
    <3> QED
      BY <3>1, MemberAt
  <2>2. CASE L!Has(p, "dir")
    <3>1. TreeOK(L!Without(L!Within(p)))
      BY <1>0, <2>1, WithoutWithin
    <3> QED
      BY <1>3, <2>2, <3>1, StepTree DEF L!Whiteout
  <2>3. CASE ~L!Has(p, "dir")
    <3>1. TreeOK(L!Without({p}))
      BY <1>0, <2>1, <2>3, HasPath, WithoutOne
    <3> QED
      BY <1>0, <1>3, <2>3, <3>1, StepTree DEF L!Whiteout
  <2> QED
    BY <2>2, <2>3
<1>4. CASE L!MakeDir
  <2>1. p \in Path
    <3>1. L!At({"dir"})
      BY <1>4 DEF L!MakeDir
    <3> QED
      BY <3>1, MemberAt
  <2>2. CASE L!Holds(p) /\ (p \in DOMAIN tree => L!Has(L!LeadsTo(p), "dir"))
    <3> DEFINE x == IF p \in DOMAIN tree THEN tree[p] ELSE L!Dir
    <3>1. NodeOK(x) /\ (IsDirIn(tree, p) => x.kind = "dir")
      BY <1>0 DEF TreeOK, NodeOK, IsDirIn, L!Dir
    <3>2. L!Step(L!With(L!Grown, p, x), text)
      BY <1>4, <2>2 DEF L!MakeDir
    <3> HIDE DEF x
    <3>3. TreeOK(L!With(L!Grown, p, x))
      BY <2>1, <2>2, <3>1, EntryOK
    <3> QED
      BY <3>2, <3>3, StepTree
  <2>3. CASE ~(L!Holds(p) /\ (p \in DOMAIN tree => L!Has(L!LeadsTo(p), "dir")))
    BY <1>4, <2>3, RaiseTree DEF L!MakeDir
  <2> QED
    BY <2>2, <2>3
<1>5. CASE L!MakeLink
  <2>1. p \in Path /\ L!m.to \in Seq(Name)
    <3>1. L!At({"link"})
      BY <1>5 DEF L!MakeLink
    <3> QED
      BY <3>1, MemberAt
  <2>2. CASE L!Holds(p) /\ ~L!Has(p, "dir")
    <3>1. NodeOK(L!LinkTo(L!m.to)) /\ ~IsDirIn(tree, p)
      BY <2>1, <2>2, HasPath DEF NodeOK, L!LinkTo, IsDirIn
    <3>2. TreeOK(L!With(L!Grown, p, L!LinkTo(L!m.to)))
      BY <2>1, <2>2, <3>1, EntryOK
    <3> QED
      BY <1>5, <2>2, <3>2, StepTree DEF L!MakeLink, L!Entry
  <2>3. CASE ~(L!Holds(p) /\ ~L!Has(p, "dir"))
    BY <1>5, <2>3, RaiseTree DEF L!MakeLink
  <2> QED
    BY <2>2, <2>3
<1>6. CASE L!HardLink
  <2>1. p \in Path /\ L!m.to \in Seq(Name)
    <3>1. L!At({"hard"})
      BY <1>6 DEF L!HardLink
    <3> QED
      BY <3>1, MemberAt
  <2>2. CASE ~L!Holds(p) \/ L!Has(p, "dir")
    BY <1>6, <2>2, RaiseTree DEF L!HardLink
  <2>3. ASSUME L!Holds(p), ~L!Has(p, "dir"), NEW x, NodeOK(x), NEW y, L!Step(L!Entry(x), y)
        PROVE  LayersInv'
    <3>1. ~IsDirIn(tree, p)
      BY <2>1, <2>3, HasPath DEF IsDirIn
    <3>2. TreeOK(L!With(L!Grown, p, x))
      BY <2>1, <2>3, <3>1, EntryOK
    <3> QED
      BY <2>3, <3>2, StepTree DEF L!Entry
  <2>4. CASE L!Holds(p) /\ ~L!Has(p, "dir") /\ L!m.to \in DOMAIN tree /\ ~L!Has(L!m.to, "dir")
    <3>1. NodeOK(tree[L!m.to])
      BY <1>0, <2>4 DEF TreeOK
    <3>2. L!Step(L!Entry(tree[L!m.to]), text)
      BY <1>6, <2>4 DEF L!HardLink
    <3> QED
      BY <2>3, <2>4, <3>1, <3>2
  <2>5. CASE L!Holds(p) /\ ~L!Has(p, "dir") /\ ~(L!m.to \in DOMAIN tree /\ ~L!Has(L!m.to, "dir"))
    <3>1. \E y : L!Step(L!Entry(L!FileOf(<<ln, mn>>)), y)
      BY <1>6, <2>5 DEF L!HardLink
    <3>2. NodeOK(L!FileOf(<<ln, mn>>))
      BY InodeOK
    <3> QED
      BY <2>3, <2>5, <3>1, <3>2
  <2> QED
    BY <2>2, <2>4, <2>5
<1>7. CASE L!WriteFile
  <2>1. p \in Path
    <3>1. L!At({"file"})
      BY <1>7 DEF L!WriteFile
    <3> QED
      BY <3>1, MemberAt
  <2> DEFINE w == L!LeadsTo(p)
             bad == ~L!Holds(p) \/ L!Has(w, "dir") \/ L!Has(w, "link")
                      \/ (w # p /\ \E q \in L!Above(w) : ~L!Has(q, "dir"))
  <2>2. CASE bad
    BY <1>7, <2>2, RaiseTree DEF L!WriteFile
  <2>3. CASE ~bad
    <3>1. L!Holds(p) /\ w # <<>>
      BY <2>3 DEF L!Has
    <3>2. TreeOK(L!Grown) /\ \A q \in DOMAIN tree : q \in DOMAIN L!Grown /\ L!Grown[q] = tree[q]
      BY <2>1, <3>1, GrownOK
    <3>3. CASE L!Has(w, "file")
      <4>1. \E y : L!Step(L!Grown, y)
        BY <1>7, <2>3, <3>3 DEF L!WriteFile
      <4> QED
        BY <3>2, <4>1, StepTree
    <3>4. CASE ~L!Has(w, "file")
      <4> DEFINE x == L!FileOf(<<ln, mn>>)
      <4>1. \E y : L!Step(L!With(L!Grown, w, x), y)
        BY <1>7, <2>3, <3>4 DEF L!WriteFile
      <4>2. NodeOK(x)
        BY InodeOK
      <4> HIDE DEF x
      <4>3. CASE w = p
        <5>1. ~IsDirIn(tree, p)
          BY <2>1, <2>3, <4>3, HasPath DEF IsDirIn
        <5>2. TreeOK(L!With(L!Grown, p, x))
          BY <2>1, <3>1, <4>2, <5>1, EntryOK
        <5> QED
          BY <4>1, <4>3, <5>2, StepTree
      \* The link is there, and so is what is above it: nothing is grown.
      <4>4. CASE w # p
        <5>1. p \in DOMAIN tree /\ tree[p].kind = "link" /\ w = tree[p].to
          BY <2>1, <4>4, HasPath DEF L!LeadsTo
        <5>2. w \in Path
          BY <1>0, <3>1, <5>1 DEF TreeOK, NodeOK, Path
        <5>3. \A q \in L!Above(w) : IsDirIn(tree, q)
          BY <2>3, <4>4, <5>2, AbovePath, HasPath DEF IsDirIn
        <5>4. \A q \in L!Above(w) : IsDirIn(L!Grown, q)
          BY <3>2, <5>3 DEF IsDirIn
        <5>5. w \notin DOMAIN tree
          BY <1>0, <2>3, <3>4, <5>2, HasPath DEF TreeOK, NodeOK
        <5>6. L!Above(p) \subseteq DOMAIN tree
          BY <1>0, <5>1 DEF TreeOK, IsDirIn
        <5>7. w \notin DOMAIN L!Grown
          BY <5>5, <5>6 DEF L!Grown
        <5>8. TreeOK(L!With(L!Grown, w, x))
          BY <3>2, <4>2, <5>2, <5>4, <5>7, TreeWith DEF IsDirIn
        <5> QED
          BY <4>1, <5>8, StepTree
      <4> QED
        BY <4>3, <4>4
    <3> QED
      BY <3>3, <3>4
  <2> QED
    BY <2>2, <2>3
<1> QED
  BY <1>1, <1>2, <1>3, <1>4, <1>5, <1>6, <1>7 DEF L!Extract

-----------------------------------------------------------------------------
(* What a layer means (Layers).  Below, l are the members of layer k, of     *)
(* which those before n are applied; low is what was there when the layer    *)
(* was begun; t and x are tree and text, t2 and x2 what a member makes of    *)
(* them.                                                                     *)

LayerOK(l) == l \in Seq(MemberType) /\ L!WellMade(l)

Past(l, n) == {i \in L!Added(l) : i < n}
PastNames(l, n) == {l[i].path : i \in Past(l, n)}
HiddenYet(l, n, p) == \E j \in 1..Len(l) : j < n /\ L!Hides(l[j], p)

(* An opaque marker has removed p, and no entry has made it again. *)
Emptied(l, n, p) ==
  \E j \in 1..Len(l) :
    /\ j < n /\ l[j].kind = "opaque" /\ l[j].path = p
    /\ \A i \in Past(l, n) : i > j => ~L!IsPrefix(p, l[i].path)

Sight(t, x, p) == IF t[p].kind = "file" THEN L!FileOf(x[t[p].to]) ELSE t[p]

(* What the layer names is there, *)
EntriesThere(l, n, k, t, x) ==
  \A i \in Past(l, n) :
    \/ l[i].path \in DOMAIN t /\ Sight(t, x, l[i].path) = L!Meant(l, k, i)
    \/ l[i].path \notin DOMAIN t /\ l[i].kind = "dir" /\ Emptied(l, n, l[i].path)

(* and so is what was there and is not hidden, *)
LowerThere(l, n, low, t, x) ==
  \A p \in DOMAIN low.tree : ~HiddenYet(l, n, p) /\ p \notin PastNames(l, n) =>
    \/ /\ p \in DOMAIN t /\ t[p] = low.tree[p]
       /\ t[p].kind = "file" => x[t[p].to] = low.text[t[p].to]
    \/ low.tree[p].kind = "dir" /\ Emptied(l, n, p)

(* and nothing else but directories on the way. *)
NothingElse(l, n, low, t) ==
  \A p \in DOMAIN t :
    \/ p \in PastNames(l, n)
    \/ t[p] = L!Dir /\ \E q \in PastNames(l, n) : p \in L!Above(q)
    \/ p \in DOMAIN low.tree /\ ~HiddenYet(l, n, p) /\ t[p] = low.tree[p]

(* A file that the layer names is a new one, or was there under such a name. *)
OwnFiles(l, n, k, low, t) ==
  \A p \in PastNames(l, n) \intersect DOMAIN t : t[p].kind = "file" =>
    \/ t[p].to[1] = k
    \/ \E q \in PastNames(l, n) \intersect DOMAIN low.tree : low.tree[q] = t[p]

(* Each file has a content, and an inode of this layer or one before. *)
Inodes(n, k, low, t, x) ==
  /\ TreeOK(t) /\ TreeOK(low.tree)
  /\ \A p \in DOMAIN t : t[p].kind = "file" =>
       /\ t[p].to \in DOMAIN x /\ t[p].to[1] <= k
       /\ t[p].to[1] = k => t[p].to[2] < n
  /\ \A p \in DOMAIN low.tree : low.tree[p].kind = "file" => low.tree[p].to[1] < k

(* A layer that is not odd has made this of the tree so far. *)
Sofar(l, n, k, low, t, x) ==
  /\ EntriesThere(l, n, k, t, x) /\ LowerThere(l, n, low, t, x)
  /\ NothingElse(l, n, low, t) /\ OwnFiles(l, n, k, low, t)

-----------------------------------------------------------------------------
(* Prefixes *)

LEMMA PrefixSelf == ASSUME NEW p \in Seq(Name) PROVE L!IsPrefix(p, p)
BY LenProperties DEF L!IsPrefix

(* What is above a path are its strict prefixes below the top. *)
LEMMA PrefixAbove ==
  ASSUME NEW p \in Path, NEW q \in Seq(Name)
  PROVE  L!IsStrictPrefix(p, q) <=> p \in L!Above(q)
<1>1. p \in Seq(Name) /\ p # <<>> /\ Len(p) \in Nat \ {0} /\ Len(q) \in Nat
  BY LenProperties, EmptySeq DEF Path
<1>2. ASSUME L!IsStrictPrefix(p, q) PROVE p \in L!Above(q)
  <2>1. Len(p) <= Len(q) /\ SubSeq(p, 1, Len(p)) = SubSeq(q, 1, Len(p)) /\ p # q
    BY <1>2 DEF L!IsStrictPrefix, L!IsPrefix
  <2>2. SubSeq(p, 1, Len(p)) = p /\ SubSeq(q, 1, Len(q)) = q
    BY <1>1, SubSeqFull
  <2>3. Len(p) # Len(q)
    BY <2>1, <2>2
  <2>4. Len(p) \in 1..Len(q) - 1 /\ p = SubSeq(q, 1, Len(p))
    <3>1. SubSeq(p, 1, Len(p)) = SubSeq(q, 1, Len(p))
      BY <2>1
    <3>2. p = SubSeq(q, 1, Len(p))
      BY <2>2, <3>1
    <3> QED
      BY <1>1, <2>1, <2>3, <3>2
  <2> QED
    BY <2>4 DEF L!Above, L!First
<1>3. ASSUME p \in L!Above(q) PROVE L!IsStrictPrefix(p, q)
  <2>1. PICK n \in 1..Len(q) - 1 : p = SubSeq(q, 1, n)
    BY <1>3 DEF L!Above, L!First
  <2>2. Len(p) = n
    BY <1>1, <2>1, UpIsPath DEF Up
  <2>3. SubSeq(p, 1, Len(p)) = p
    BY <1>1, SubSeqFull
  <2>4. p # q /\ Len(p) <= Len(q) /\ SubSeq(p, 1, Len(p)) = SubSeq(q, 1, Len(p))
    BY <1>1, <2>1, <2>2, <2>3
  <2> QED
    BY <2>4 DEF L!IsStrictPrefix, L!IsPrefix
<1> QED
  BY <1>2, <1>3

(* What lies below a path lies in a directory. *)
LEMMA BelowDir ==
  ASSUME NEW t, TreeOK(t), NEW q \in DOMAIN t, NEW p \in Path, L!IsStrictPrefix(p, q)
  PROVE  IsDirIn(t, p)
<1>1. q \in Seq(Name)
  BY DEF TreeOK, Path
<1>2. p \in L!Above(q)
  BY <1>1, PrefixAbove
<1> QED
  BY <1>2 DEF TreeOK

-----------------------------------------------------------------------------
(* Members *)

LEMMA MemberOK ==
  ASSUME NEW l, LayerOK(l), NEW i \in 1..Len(l)
  PROVE  /\ Len(l) \in Nat /\ l[i] \in MemberType
         /\ l[i].path \in Seq(Name) /\ l[i].to \in Seq(Name)
         /\ i \in L!Added(l) <=> l[i].kind \in {"dir", "link", "hard", "file"}
         /\ i \in L!Markers(l) <=> l[i].kind \in {"white", "opaque"}
         /\ i \in L!Added(l) => l[i].path \in Path
         /\ l[i].kind = "white" => l[i].path \in Path
<1>1. Len(l) \in Nat /\ l[i] \in MemberType
  BY LenProperties, ElementOfSeq DEF LayerOK
<1>2. l[i].kind \in {"dir", "link", "hard", "file", "white", "opaque"}
  BY <1>1 DEF MemberType
<1> QED
  BY <1>1, <1>2 DEF MemberType, L!Added, L!Markers, Path

(* Every name is given once. *)
LEMMA NamedOnce ==
  ASSUME NEW l, LayerOK(l), NEW i \in L!Added(l), NEW j \in L!Added(l), l[i].path = l[j].path
  PROVE  i = j
BY DEF LayerOK, L!WellMade

LEMMA EntryAtIs ==
  ASSUME NEW l, LayerOK(l), NEW i \in L!Added(l)
  PROVE  L!EntryAt(l, l[i].path) = i
<1> DEFINE c == L!EntryAt(l, l[i].path)
<1>1. c \in L!Added(l) /\ l[c].path = l[i].path
  BY DEF L!EntryAt
<1> HIDE DEF c
<1>2. c = i
  BY <1>1, NamedOnce
<1> QED
  BY <1>2 DEF c

LEMMA PastGrows ==
  ASSUME NEW l, LayerOK(l), NEW n \in 1..Len(l)
  PROVE  /\ n \in L!Added(l) => /\ Past(l, n + 1) = Past(l, n) \union {n} /\ n \notin Past(l, n)
                                /\ PastNames(l, n + 1) = PastNames(l, n) \union {l[n].path}
                                /\ l[n].path \notin PastNames(l, n)
         /\ n \notin L!Added(l) => /\ Past(l, n + 1) = Past(l, n)
                                   /\ PastNames(l, n + 1) = PastNames(l, n)
         /\ \A p : HiddenYet(l, n + 1, p) <=> HiddenYet(l, n, p) \/ L!Hides(l[n], p)
<1>1. L!Added(l) \subseteq 1..Len(l) /\ Len(l) \in Nat
  BY MemberOK DEF L!Added
<1>2. n \in L!Added(l) => Past(l, n + 1) = Past(l, n) \union {n} /\ n \notin Past(l, n)
  BY <1>1 DEF Past
<1>3. n \notin L!Added(l) => Past(l, n + 1) = Past(l, n)
  BY <1>1 DEF Past
<1>4. n \in L!Added(l) => l[n].path \notin PastNames(l, n)
  BY <1>2, NamedOnce DEF PastNames, Past
<1>5. \A p : HiddenYet(l, n + 1, p) <=> HiddenYet(l, n, p) \/ L!Hides(l[n], p)
  BY <1>1 DEF HiddenYet
<1> QED
  BY <1>2, <1>3, <1>4, <1>5 DEF PastNames

LEMMA MeantKind ==
  ASSUME NEW l, NEW k, NEW i
  PROVE  /\ L!Meant(l, k, i).kind = "dir" <=> l[i].kind = "dir"
         /\ l[i].kind = "dir" => L!Meant(l, k, i) = L!Dir
         /\ l[i].kind = "link" => L!Meant(l, k, i) = L!LinkTo(l[i].to)
         /\ l[i].kind = "hard" => L!Meant(l, k, i) = L!FileOf(<<k, L!EntryAt(l, l[i].to)>>)
         /\ l[i].kind = "file" => L!Meant(l, k, i) = L!FileOf(<<k, i>>)
BY DEF L!Meant, L!Dir, L!LinkTo, L!FileOf

(* A marker does not empty what it has emptied before. *)
LEMMA EmptiedStays ==
  ASSUME NEW l, LayerOK(l), NEW n \in 1..Len(l), NEW p, Emptied(l, n, p),
         n \in L!Added(l) => ~L!IsPrefix(p, l[n].path)
  PROVE  Emptied(l, n + 1, p)
<1>1. PICK j \in 1..Len(l) : /\ j < n /\ l[j].kind = "opaque" /\ l[j].path = p
                            /\ \A i \in Past(l, n) : i > j => ~L!IsPrefix(p, l[i].path)
  BY DEF Emptied
<1>2. \A i \in Past(l, n + 1) : i > j => ~L!IsPrefix(p, l[i].path)
  BY <1>1, PastGrows
<1>3. j < n + 1
  BY <1>1
<1> QED
  BY <1>1, <1>2, <1>3 DEF Emptied

-----------------------------------------------------------------------------
(* A marker removes what it hides; an opaque one its directory as well.      *)
Cleared(e, t, t2) ==
  /\ DOMAIN t2 \subseteq DOMAIN t /\ \A q \in DOMAIN t2 : t2[q] = t[q]
  /\ \A q \in DOMAIN t \ DOMAIN t2 :
       L!Hides(e, q) \/ (e.kind = "opaque" /\ q = e.path /\ t[q].kind = "dir")
  /\ \A q \in DOMAIN t2 : ~L!Hides(e, q)

LEMMA ClearEntries ==
  ASSUME NEW l, LayerOK(l), NEW n \in L!Markers(l), NEW low, ~L!Odd(low, l), NEW k,
         NEW t, NEW x, NEW t2, Cleared(l[n], t, t2), EntriesThere(l, n, k, t, x)
  PROVE  EntriesThere(l, n + 1, k, t2, x)
<1>0. n \in 1..Len(l) /\ n \notin L!Added(l) /\ Len(l) \in Nat
  BY MemberOK DEF L!Markers
<1> SUFFICES ASSUME NEW i \in Past(l, n)
             PROVE  \/ l[i].path \in DOMAIN t2 /\ Sight(t2, x, l[i].path) = L!Meant(l, k, i)
                    \/ /\ l[i].path \notin DOMAIN t2 /\ l[i].kind = "dir"
                       /\ Emptied(l, n + 1, l[i].path)
  BY <1>0, PastGrows DEF EntriesThere
<1> DEFINE p == l[i].path
<1>1. ~L!Hides(l[n], p)
  BY DEF L!Odd, Past
<1>2. CASE p \in DOMAIN t2
  <2>1. p \in DOMAIN t /\ t2[p] = t[p]
    BY <1>2 DEF Cleared
  <2> QED
    BY <1>2, <2>1 DEF EntriesThere, Sight
<1>3. CASE p \notin DOMAIN t2 /\ p \notin DOMAIN t
  <2>1. l[i].kind = "dir" /\ Emptied(l, n, p)
    BY <1>3 DEF EntriesThere
  <2> QED
    BY <1>0, <1>3, <2>1, EmptiedStays
<1>4. CASE p \notin DOMAIN t2 /\ p \in DOMAIN t
  <2>1. l[n].kind = "opaque" /\ p = l[n].path /\ t[p].kind = "dir"
    BY <1>1, <1>4 DEF Cleared
  <2>2. L!Meant(l, k, i).kind = "dir"
    BY <1>4, <2>1 DEF EntriesThere, Sight
  <2>3. l[i].kind = "dir"
    BY <2>2, MeantKind
  <2>4. \A h \in Past(l, n + 1) : ~(h > n)
    BY <1>0 DEF Past, L!Added
  <2>5. Emptied(l, n + 1, p)
    BY <1>0, <2>1, <2>4 DEF Emptied
  <2> QED
    BY <1>4, <2>3, <2>5
<1> QED
  BY <1>2, <1>3, <1>4

LEMMA ClearLower ==
  ASSUME NEW l, LayerOK(l), NEW n \in L!Markers(l), NEW low,
         NEW t, NEW x, NEW t2, Cleared(l[n], t, t2), LowerThere(l, n, low, t, x)
  PROVE  LowerThere(l, n + 1, low, t2, x)
<1>0. n \in 1..Len(l) /\ n \notin L!Added(l) /\ Len(l) \in Nat
  BY MemberOK DEF L!Markers
<1> SUFFICES ASSUME NEW p \in DOMAIN low.tree, ~HiddenYet(l, n + 1, p),
                    p \notin PastNames(l, n + 1)
             PROVE  \/ /\ p \in DOMAIN t2 /\ t2[p] = low.tree[p]
                       /\ t2[p].kind = "file" => x[t2[p].to] = low.text[t2[p].to]
                    \/ low.tree[p].kind = "dir" /\ Emptied(l, n + 1, p)
  BY DEF LowerThere
<1>1. ~L!Hides(l[n], p) /\ ~HiddenYet(l, n, p) /\ p \notin PastNames(l, n)
  BY <1>0, PastGrows
<1>2. CASE low.tree[p].kind = "dir" /\ Emptied(l, n, p)
  BY <1>0, <1>2, EmptiedStays
<1>3. CASE /\ p \in DOMAIN t /\ t[p] = low.tree[p]
           /\ t[p].kind = "file" => x[t[p].to] = low.text[t[p].to]
  <2>1. CASE p \in DOMAIN t2
    BY <1>3, <2>1 DEF Cleared
  <2>2. CASE p \notin DOMAIN t2
    <3>1. l[n].kind = "opaque" /\ p = l[n].path /\ t[p].kind = "dir"
      BY <1>1, <1>3, <2>2 DEF Cleared
    <3>2. \A h \in Past(l, n + 1) : ~(h > n)
      BY <1>0 DEF Past, L!Added
    <3>3. Emptied(l, n + 1, p)
      BY <1>0, <3>1, <3>2 DEF Emptied
    <3> QED
      BY <1>3, <3>1, <3>3
  <2> QED
    BY <2>1, <2>2
<1> QED
  BY <1>1, <1>2, <1>3 DEF LowerThere

LEMMA ClearSofar ==
  ASSUME NEW l, LayerOK(l), NEW n \in L!Markers(l), NEW low, ~L!Odd(low, l), NEW k,
         NEW t, NEW x, NEW t2, Cleared(l[n], t, t2), Sofar(l, n, k, low, t, x)
  PROVE  Sofar(l, n + 1, k, low, t2, x)
<1>0. n \in 1..Len(l) /\ n \notin L!Added(l)
  BY DEF L!Markers
<1>1. PastNames(l, n + 1) = PastNames(l, n)
  BY <1>0, PastGrows
<1>2. NothingElse(l, n + 1, low, t2)
  <2>1. SUFFICES ASSUME NEW p \in DOMAIN t2
                 PROVE  \/ p \in PastNames(l, n)
                        \/ t2[p] = L!Dir /\ \E q \in PastNames(l, n) : p \in L!Above(q)
                        \/ p \in DOMAIN low.tree /\ ~HiddenYet(l, n + 1, p) /\ t2[p] = low.tree[p]
    BY <1>1 DEF NothingElse
  <2>2. p \in DOMAIN t /\ t2[p] = t[p] /\ ~L!Hides(l[n], p)
    BY DEF Cleared
  <2>3. HiddenYet(l, n + 1, p) => HiddenYet(l, n, p)
    BY <1>0, <2>2, PastGrows
  <2> QED
    BY <2>2, <2>3 DEF Sofar, NothingElse
<1>3. OwnFiles(l, n + 1, k, low, t2)
  BY <1>1 DEF Sofar, OwnFiles, Cleared
<1> QED
  BY <1>2, <1>3, ClearEntries, ClearLower DEF Sofar

-----------------------------------------------------------------------------
(* An entry is made at its path, with directories above it.                  *)
Placed(l, k, n, t, x, t2, x2) ==
  /\ DOMAIN t2 = DOMAIN t \union L!Above(l[n].path) \union {l[n].path}
  /\ \A q \in DOMAIN t2 : q # l[n].path => t2[q] = IF q \in DOMAIN t THEN t[q] ELSE L!Dir
  /\ \A q \in L!Above(l[n].path) : t2[q] = L!Dir
  /\ \/ l[n].kind = "dir" /\ t2[l[n].path] = L!Dir /\ x2 = x
     \/ l[n].kind = "link" /\ t2[l[n].path] = L!LinkTo(l[n].to) /\ x2 = x
     \/ /\ l[n].kind = "hard" /\ t2[l[n].path].kind = "file"
        /\ l[n].to \in DOMAIN t /\ t[l[n].to].kind = "file" =>
             t2[l[n].path] = t[l[n].to] /\ x2 = x
     \/ /\ l[n].kind = "file" /\ t2[l[n].path].kind = "file"
        /\ x2 = L!With(x, t2[l[n].path].to, <<k, n>>)
        /\ t2[l[n].path] = IF l[n].path \in DOMAIN t THEN t[l[n].path] ELSE L!FileOf(<<k, n>>)

(* The link is made to a file that the layer names. *)
HardTo(l, n, t) ==
  l[n].kind = "hard" => l[n].to \in PastNames(l, n) \intersect DOMAIN t /\ t[l[n].to].kind = "file"

LEMMA HardThere ==
  ASSUME NEW l, LayerOK(l), NEW n \in L!Added(l), NEW k, NEW t, NEW x,
         EntriesThere(l, n, k, t, x), l[n].kind = "hard"
  PROVE  /\ HardTo(l, n, t)
         /\ Sight(t, x, l[n].to) = L!Meant(l, k, n)
<1>1. PICK i \in 1..n-1 : l[i].path = l[n].to /\ l[i].kind = "file"
  BY DEF LayerOK, L!WellMade
<1>2. n \in 1..Len(l) /\ Len(l) \in Nat
  BY MemberOK DEF L!Added
<1>3. i \in L!Added(l) /\ i \in Past(l, n)
  BY <1>1, <1>2 DEF L!Added, Past
<1>4. l[n].to \in DOMAIN t /\ Sight(t, x, l[n].to) = L!Meant(l, k, i)
  BY <1>1, <1>3 DEF EntriesThere
<1>5. L!Meant(l, k, i) = L!FileOf(<<k, i>>) /\ L!Meant(l, k, n) = L!FileOf(<<k, i>>)
  <2>1. L!EntryAt(l, l[n].to) = i
    BY <1>1, <1>3, EntryAtIs
  <2>2. L!Meant(l, k, n) = L!FileOf(<<k, L!EntryAt(l, l[n].to)>>)
    BY MeantKind
  <2>3. L!Meant(l, k, i) = L!FileOf(<<k, i>>)
    BY <1>1, MeantKind
  <2> QED
    BY <2>1, <2>2, <2>3
<1>6. t[l[n].to].kind = "file"
  BY <1>4, <1>5 DEF Sight, L!FileOf
<1>7. l[n].to \in PastNames(l, n)
  BY <1>1, <1>3 DEF PastNames
<1> QED
  BY <1>4, <1>5, <1>6, <1>7 DEF HardTo

(* Nodes are what they are by kind and aim. *)
LEMMA SameFile ==
  ASSUME NEW a, NEW b, NodeOK(a), NodeOK(b), a.kind = "file", b.kind = "file", a.to = b.to
  PROVE  a = b
BY DEF NodeOK

(* A file that is written over is of a layer below, and has one name there.  *)
LEMMA WrittenOver ==
  ASSUME NEW l, LayerOK(l), NEW n \in L!Added(l), NEW low, ~L!Odd(low, l),
         NEW t, NothingElse(l, n, low, t), l[n].kind = "file",
         l[n].path \in DOMAIN t, t[l[n].path].kind = "file"
  PROVE  /\ l[n].path \in DOMAIN low.tree /\ t[l[n].path] = low.tree[l[n].path]
         /\ \A q \in DOMAIN low.tree : q # l[n].path => low.tree[q] # low.tree[l[n].path]
<1>0. n \in 1..Len(l)
  BY DEF L!Added
<1>1. l[n].path \notin PastNames(l, n)
  BY <1>0, PastGrows
<1>2. t[l[n].path] # L!Dir
  BY DEF L!Dir
<1>3. l[n].path \in DOMAIN low.tree /\ t[l[n].path] = low.tree[l[n].path]
  BY <1>1, <1>2 DEF NothingElse
<1>4. L!Was(low, l[n].path, "file")
  BY <1>3 DEF L!Was
<1>5. ASSUME NEW q \in DOMAIN low.tree, q # l[n].path, low.tree[q] = low.tree[l[n].path]
      PROVE  FALSE
  <2>1. L!Odd(low, l)
    BY <1>0, <1>4, <1>5 DEF L!Odd
  <2> QED
    BY <2>1
<1> QED
  BY <1>3, <1>5

LEMMA PlaceNothing ==
  ASSUME NEW l, LayerOK(l), NEW n \in L!Added(l), NEW low,
         NEW t, NEW x, NEW t2, NEW x2, NEW k, Placed(l, k, n, t, x, t2, x2), TreeOK(t2),
         NothingElse(l, n, low, t)
  PROVE  NothingElse(l, n + 1, low, t2)
<1> DEFINE p == l[n].path
<1>0. n \in 1..Len(l) /\ p \in Path
  BY MemberOK DEF L!Added
<1>1. PastNames(l, n + 1) = PastNames(l, n) \union {p}
  BY <1>0, PastGrows
<1> SUFFICES ASSUME NEW q \in DOMAIN t2, q \notin PastNames(l, n + 1)
             PROVE  \/ t2[q] = L!Dir /\ \E r \in PastNames(l, n + 1) : q \in L!Above(r)
                    \/ q \in DOMAIN low.tree /\ ~HiddenYet(l, n + 1, q) /\ t2[q] = low.tree[q]
  BY DEF NothingElse
<1>2. q # p /\ q \notin PastNames(l, n)
  BY <1>1
<1>3. CASE q \notin DOMAIN t
  <2>1. q \in L!Above(p) /\ t2[q] = L!Dir
    BY <1>2, <1>3 DEF Placed
  <2> QED
    BY <1>1, <2>1
<1>4. CASE q \in DOMAIN t
  <2>1. t2[q] = t[q]
    BY <1>2, <1>4 DEF Placed
  <2>2. CASE q \in DOMAIN low.tree /\ ~HiddenYet(l, n, q) /\ t[q] = low.tree[q]
    <3>1. ~L!Hides(l[n], q)
      <4>1. SUFFICES ASSUME l[n].kind # "dir" /\ L!IsStrictPrefix(p, q) PROVE FALSE
        BY MemberOK, <1>0 DEF L!Hides
      <4>2. IsDirIn(t2, p)
        BY <1>0, <4>1, BelowDir
      <4>3. t2[p].kind # "dir"
        BY <4>1 DEF Placed, L!LinkTo
      <4> QED
        BY <4>2, <4>3 DEF IsDirIn
    <3>2. ~HiddenYet(l, n + 1, q)
      BY <1>0, <2>2, <3>1, PastGrows
    <3> QED
      BY <2>1, <2>2, <3>2
  <2> QED
    BY <1>1, <1>2, <1>4, <2>1, <2>2 DEF NothingElse
<1> QED
  BY <1>3, <1>4

LEMMA PlaceOwn ==
  ASSUME NEW l, LayerOK(l), NEW n \in L!Added(l), NEW low, ~L!Odd(low, l), NEW k,
         NEW t, NEW x, NEW t2, NEW x2, Placed(l, k, n, t, x, t2, x2),
         HardTo(l, n, t), NothingElse(l, n, low, t), OwnFiles(l, n, k, low, t)
  PROVE  OwnFiles(l, n + 1, k, low, t2)
<1> DEFINE p == l[n].path
<1>0. n \in 1..Len(l)
  BY DEF L!Added
<1>1. PastNames(l, n + 1) = PastNames(l, n) \union {p}
  BY <1>0, PastGrows
<1> SUFFICES ASSUME NEW q \in PastNames(l, n + 1) \intersect DOMAIN t2, t2[q].kind = "file"
             PROVE  \/ t2[q].to[1] = k
                    \/ \E r \in PastNames(l, n + 1) \intersect DOMAIN low.tree : low.tree[r] = t2[q]
  BY DEF OwnFiles
<1>2. ASSUME NEW r \in PastNames(l, n) \intersect DOMAIN t, t2[q] = t[r]
      PROVE  \/ t2[q].to[1] = k
             \/ \E s \in PastNames(l, n + 1) \intersect DOMAIN low.tree : low.tree[s] = t2[q]
  BY <1>1, <1>2 DEF OwnFiles
<1>3. CASE q # p
  <2>1. q \in DOMAIN t /\ t2[q] = t[q]
    BY <1>3 DEF Placed, L!Dir
  <2> QED
    BY <1>1, <1>2, <1>3, <2>1
<1>4. CASE q = p /\ l[n].kind = "hard"
  BY <1>2, <1>4 DEF Placed, HardTo
<1>5. CASE q = p /\ l[n].kind = "file" /\ p \in DOMAIN t
  <2>1. t2[p] = t[p] /\ t[p].kind = "file"
    BY <1>5 DEF Placed
  <2>2. p \in DOMAIN low.tree /\ t[p] = low.tree[p]
    BY <1>5, <2>1, WrittenOver
  <2> QED
    BY <1>1, <1>5, <2>1, <2>2
<1>6. CASE q = p /\ l[n].kind = "file" /\ p \notin DOMAIN t
  <2>1. t2[p] = L!FileOf(<<k, n>>)
    BY <1>6 DEF Placed
  <2> QED
    BY <1>6, <2>1 DEF L!FileOf
<1> QED
  BY <1>3, <1>4, <1>5, <1>6 DEF Placed, L!Dir, L!LinkTo

(* The content of a file is kept that is written by another member, or that  *)
(* the layer does not name.                                                  *)
LEMMA TextKept ==
  ASSUME NEW l, LayerOK(l), NEW n \in L!Added(l), NEW low, ~L!Odd(low, l), NEW k,
         NEW t, NEW x, NEW t2, NEW x2, Placed(l, k, n, t, x, t2, x2),
         HardTo(l, n, t), NothingElse(l, n, low, t), OwnFiles(l, n, k, low, t),
         Inodes(n, k, low, t, x)
  PROVE  \A q \in DOMAIN t :
           /\ t[q].kind = "file" /\ q # l[n].path
           /\ q \in PastNames(l, n) \/ (q \in DOMAIN low.tree /\ t[q] = low.tree[q])
           => x2[t[q].to] = x[t[q].to]
<1> SUFFICES ASSUME NEW q \in DOMAIN t, t[q].kind = "file", q # l[n].path,
                    q \in PastNames(l, n) \/ (q \in DOMAIN low.tree /\ t[q] = low.tree[q])
             PROVE  x2[t[q].to] = x[t[q].to]
  OBVIOUS
<1> DEFINE p == l[n].path
<1>0. n \in 1..Len(l)
  BY DEF L!Added
<1>1. p \notin PastNames(l, n)
  BY <1>0, PastGrows
<1>2. t[q].to \in DOMAIN x /\ NodeOK(t[q]) /\ (t[q].to[1] = k => t[q].to[2] < n)
  BY DEF Inodes, TreeOK
<1>3. CASE l[n].kind # "file"
  BY <1>3 DEF Placed, HardTo
<1>4. CASE l[n].kind = "file"
  <2>1. x2 = L!With(x, t2[p].to, <<k, n>>)
    BY <1>4 DEF Placed
  <2>2. t2[p].to # t[q].to
    <3>1. CASE p \notin DOMAIN t
      <4>1. t2[p].to = <<k, n>>
        BY <1>4, <3>1 DEF Placed, L!FileOf
      <4>2. ~(n < n)
        BY MemberOK DEF L!Added
      <4> QED
        BY <1>2, <4>1, <4>2
    <3>2. CASE p \in DOMAIN t
      <4>1. t2[p] = t[p] /\ t[p].kind = "file" /\ NodeOK(t[p])
        BY <1>4, <3>2 DEF Placed, Inodes, TreeOK
      <4>2. /\ p \in DOMAIN low.tree /\ t[p] = low.tree[p]
            /\ \A r \in DOMAIN low.tree : r # p => low.tree[r] # low.tree[p]
        BY <1>4, <3>2, <4>1, WrittenOver
      <4>3. t[p].to[1] # k
        <5>1. low.tree[p].to[1] < k /\ low.tree[p].to \in Nat \X Nat
          BY <4>1, <4>2 DEF Inodes, NodeOK
        <5> QED
          BY <4>2, <5>1
      <4>4. SUFFICES ASSUME t[p].to = t[q].to PROVE FALSE
        BY <4>1
      <4>5. t[p] = t[q]
        BY <1>2, <4>1, <4>4, SameFile
      <4>6. CASE q \in PastNames(l, n)
        <5>1. PICK r \in PastNames(l, n) \intersect DOMAIN low.tree : low.tree[r] = t[q]
          BY <4>3, <4>4, <4>6 DEF OwnFiles
        <5> QED
          BY <1>1, <4>2, <4>5, <5>1
      <4>7. CASE q \in DOMAIN low.tree /\ t[q] = low.tree[q]
        BY <4>2, <4>5, <4>7
      <4> QED
        BY <4>6, <4>7
    <3> QED
      BY <3>1, <3>2
  <2> QED
    BY <1>2, <2>1, <2>2 DEF L!With
<1> QED
  BY <1>3, <1>4

LEMMA PlaceEntries ==
  ASSUME NEW l, LayerOK(l), NEW n \in L!Added(l), NEW low, ~L!Odd(low, l), NEW k \in Nat,
         NEW t, NEW x, NEW t2, NEW x2, Placed(l, k, n, t, x, t2, x2), TreeOK(t2),
         Inodes(n, k, low, t, x), Sofar(l, n, k, low, t, x)
  PROVE  EntriesThere(l, n + 1, k, t2, x2)
<1> DEFINE p == l[n].path
<1>0. n \in 1..Len(l) /\ p \in Path /\ n \in Nat
  BY MemberOK DEF L!Added
<1>1. /\ EntriesThere(l, n, k, t, x) /\ NothingElse(l, n, low, t) /\ OwnFiles(l, n, k, low, t)
      /\ HardTo(l, n, t)
  BY HardThere DEF Sofar, HardTo
<1>2. Past(l, n + 1) = Past(l, n) \union {n} /\ p \notin PastNames(l, n)
  BY <1>0, PastGrows
<1>5. \A q \in DOMAIN t :
        t[q].kind = "file" /\ q # p /\ q \in PastNames(l, n) => x2[t[q].to] = x[t[q].to]
  BY <1>1, TextKept
<1>3. p \in DOMAIN t2 /\ Sight(t2, x2, p) = L!Meant(l, k, n)
  <2>0. p \in DOMAIN t2
    BY DEF Placed
  <2>1. CASE l[n].kind = "dir" \/ l[n].kind = "link"
    <3>1. Sight(t2, x2, p) = t2[p]
      BY <2>1 DEF Placed, Sight, L!Dir, L!LinkTo
    <3> QED
      BY <2>0, <2>1, <3>1, MeantKind DEF Placed
  <2>2. CASE l[n].kind = "hard"
    <3>1. t2[p] = t[l[n].to] /\ x2 = x /\ Sight(t, x, l[n].to) = L!Meant(l, k, n)
      BY <1>1, <2>2, HardThere DEF Placed, HardTo
    <3> QED
      BY <2>0, <3>1 DEF Sight
  <2>3. CASE l[n].kind = "file"
    <3>1. x2 = L!With(x, t2[p].to, <<k, n>>) /\ t2[p].kind = "file"
      BY <2>3 DEF Placed
    <3>2. x2[t2[p].to] = <<k, n>>
      BY <3>1 DEF L!With
    <3>3. L!Meant(l, k, n) = L!FileOf(<<k, n>>)
      BY <2>3, MeantKind
    <3> QED
      BY <2>0, <3>1, <3>2, <3>3 DEF Sight
  <2> QED
    BY <1>0, <2>1, <2>2, <2>3 DEF L!Added
<1>4. ASSUME NEW i \in Past(l, n)
      PROVE  \/ l[i].path \in DOMAIN t2 /\ Sight(t2, x2, l[i].path) = L!Meant(l, k, i)
             \/ l[i].path \notin DOMAIN t2 /\ l[i].kind = "dir" /\ Emptied(l, n + 1, l[i].path)
  <2> DEFINE q == l[i].path
  <2>1. q \in PastNames(l, n) /\ q # p
    BY <1>2 DEF PastNames
  <2>2. CASE q \in DOMAIN t /\ Sight(t, x, q) = L!Meant(l, k, i)
    <3>1. q \in DOMAIN t2 /\ t2[q] = t[q]
      BY <2>1, <2>2 DEF Placed
    <3>2. t[q].kind = "file" => x2[t[q].to] = x[t[q].to]
      BY <1>5, <2>1, <2>2
    <3> QED
      BY <2>2, <3>1, <3>2 DEF Sight
  <2>3. CASE q \notin DOMAIN t /\ l[i].kind = "dir" /\ Emptied(l, n, q)
    <3>1. CASE q \in DOMAIN t2
      <4>1. t2[q] = L!Dir
        BY <2>1, <2>3, <3>1 DEF Placed
      <4> QED
        BY <2>3, <3>1, <4>1, MeantKind DEF Sight, L!Dir
    <3>2. CASE q \notin DOMAIN t2
      <4>1. q \notin L!Above(p) /\ q \in Path
        BY <3>2, MemberOK DEF Placed, Past, L!Added
      <4>2. ~L!IsPrefix(q, p)
        BY <1>0, <2>1, <4>1, PrefixAbove DEF L!IsStrictPrefix, Path
      <4> QED
        BY <1>0, <2>3, <3>2, <4>2, EmptiedStays
    <3> QED
      BY <3>1, <3>2
  <2> QED
    BY <1>1, <2>2, <2>3 DEF EntriesThere
<1> QED
  BY <1>2, <1>3, <1>4 DEF EntriesThere

LEMMA PlaceLower ==
  ASSUME NEW l, LayerOK(l), NEW n \in L!Added(l), NEW low, ~L!Odd(low, l), NEW k \in Nat,
         NEW t, NEW x, NEW t2, NEW x2, Placed(l, k, n, t, x, t2, x2), TreeOK(t2),
         Inodes(n, k, low, t, x), Sofar(l, n, k, low, t, x)
  PROVE  LowerThere(l, n + 1, low, t2, x2)
<1> DEFINE p == l[n].path
<1>0. n \in 1..Len(l) /\ p \in Path
  BY MemberOK DEF L!Added
<1>1. /\ LowerThere(l, n, low, t, x) /\ NothingElse(l, n, low, t) /\ OwnFiles(l, n, k, low, t)
      /\ HardTo(l, n, t)
  BY HardThere DEF Sofar, HardTo
<1>5. \A q \in DOMAIN t :
        /\ t[q].kind = "file" /\ q # p /\ q \in DOMAIN low.tree /\ t[q] = low.tree[q]
        => x2[t[q].to] = x[t[q].to]
  BY <1>1, TextKept
<1> SUFFICES ASSUME NEW q \in DOMAIN low.tree, ~HiddenYet(l, n + 1, q),
                    q \notin PastNames(l, n + 1)
             PROVE  \/ /\ q \in DOMAIN t2 /\ t2[q] = low.tree[q]
                       /\ t2[q].kind = "file" => x2[t2[q].to] = low.text[t2[q].to]
                    \/ low.tree[q].kind = "dir" /\ Emptied(l, n + 1, q)
  BY DEF LowerThere
<1>2. ~HiddenYet(l, n, q) /\ q \notin PastNames(l, n) /\ q # p
  BY <1>0, PastGrows
<1>3. CASE /\ q \in DOMAIN t /\ t[q] = low.tree[q]
           /\ t[q].kind = "file" => x[t[q].to] = low.text[t[q].to]
  <2>1. q \in DOMAIN t2 /\ t2[q] = t[q]
    BY <1>2, <1>3 DEF Placed
  <2>2. t[q].kind = "file" => x2[t[q].to] = x[t[q].to]
    BY <1>2, <1>3, <1>5
  <2> QED
    BY <1>3, <2>1, <2>2
<1>4. CASE low.tree[q].kind = "dir" /\ Emptied(l, n, q)
  <2>0. q \in Path /\ low.tree[q] = L!Dir
    BY <1>4 DEF Inodes, TreeOK, NodeOK
  <2>1. CASE q \in L!Above(p)
    <3>1. q \in DOMAIN t2 /\ t2[q] = L!Dir
      BY <2>1 DEF Placed
    <3> QED
      BY <2>0, <3>1 DEF L!Dir
  <2>2. CASE q \notin L!Above(p)
    <3>1. ~L!IsPrefix(q, p)
      BY <1>0, <1>2, <2>0, <2>2, PrefixAbove DEF L!IsStrictPrefix, Path
    <3> QED
      BY <1>0, <1>4, <3>1, EmptiedStays
  <2> QED
    BY <2>1, <2>2
<1> QED
  BY <1>1, <1>2, <1>3, <1>4 DEF LowerThere

LEMMA PlaceSofar ==
  ASSUME NEW l, LayerOK(l), NEW n \in L!Added(l), NEW low, ~L!Odd(low, l), NEW k \in Nat,
         NEW t, NEW x, NEW t2, NEW x2, Placed(l, k, n, t, x, t2, x2), TreeOK(t2),
         Inodes(n, k, low, t, x), Sofar(l, n, k, low, t, x)
  PROVE  Sofar(l, n + 1, k, low, t2, x2)
<1>1. HardTo(l, n, t)
  BY HardThere DEF Sofar, HardTo
<1>2. NothingElse(l, n + 1, low, t2)
  BY PlaceNothing DEF Sofar
<1>3. OwnFiles(l, n + 1, k, low, t2)
  BY <1>1, PlaceOwn DEF Sofar
<1> QED
  BY <1>2, <1>3, PlaceEntries, PlaceLower DEF Sofar

-----------------------------------------------------------------------------
(* When all members are applied, the tree is what the layer means. *)

LEMMA ViewIs ==
  ASSUME NEW t, NEW x
  PROVE  /\ DOMAIN L!View(t, x) = DOMAIN t
         /\ \A p \in DOMAIN t : L!View(t, x)[p] = Sight(t, x, p)
BY DEF L!View, Sight, L!FileOf

LEMMA NoneEmptied ==
  ASSUME NEW l, LayerOK(l), NEW n \in Nat, n > Len(l), NEW low, ~L!Odd(low, l), NEW p
  PROVE  ~Emptied(l, n, p)
<1>1. SUFFICES ASSUME Emptied(l, n, p) PROVE FALSE
  OBVIOUS
<1>2. PICK j \in 1..Len(l) : /\ l[j].kind = "opaque" /\ l[j].path = p
                            /\ \A i \in Past(l, n) : i > j => ~L!IsPrefix(p, l[i].path)
  BY <1>1 DEF Emptied
<1>3. j \in L!Markers(l)
  BY <1>2, MemberOK
<1>4. PICK i \in L!Added(l) : i > j /\ L!IsPrefix(p, l[i].path)
  BY <1>2, <1>3 DEF L!Odd
<1>5. i \in Past(l, n)
  BY <1>4, MemberOK DEF Past, L!Added
<1> QED
  BY <1>2, <1>4, <1>5

LEMMA LayerMeans ==
  ASSUME NEW l, LayerOK(l), NEW n \in Nat, n > Len(l), NEW low, ~L!Odd(low, l), NEW k,
         NEW t, NEW x, Inodes(n, k, low, t, x), Sofar(l, n, k, low, t, x)
  PROVE  L!View(t, x) = L!Overlay(L!View(low.tree, low.text), l, k)
<1> DEFINE u == L!View(low.tree, low.text)
           shown == {q \in DOMAIN u : \A i \in 1..Len(l) : ~L!Hides(l[i], q)}
           way == UNION {L!Above(q) : q \in L!Named(l)}
           o == L!Overlay(u, l, k)
<1>1. Past(l, n) = L!Added(l) /\ PastNames(l, n) = L!Named(l)
  <2>1. \A i \in L!Added(l) : i < n
    BY MemberOK DEF L!Added
  <2> QED
    BY <2>1 DEF Past, PastNames, L!Named
<1>2. \A q : HiddenYet(l, n, q) <=> \E i \in 1..Len(l) : L!Hides(l[i], q)
  <2>1. Len(l) \in Nat
    BY LenProperties DEF LayerOK
  <2> QED
    BY <2>1 DEF HiddenYet
<1>3. DOMAIN u = DOMAIN low.tree /\ \A q \in DOMAIN u : u[q] = Sight(low.tree, low.text, q)
  BY ViewIs
<1>4. /\ DOMAIN o = L!Named(l) \union shown \union way
      /\ \A q \in DOMAIN o :
           o[q] = IF q \in L!Named(l) THEN L!Meant(l, k, L!EntryAt(l, q))
                  ELSE IF q \in shown THEN u[q] ELSE L!Dir
  BY DEF L!Overlay
<1> HIDE DEF u, o
<1>5. \A q \in shown : q \in DOMAIN low.tree /\ ~HiddenYet(l, n, q)
  BY <1>2, <1>3
<1>6. \A q \in DOMAIN low.tree : ~HiddenYet(l, n, q) => q \in shown
  BY <1>2, <1>3
<1> HIDE DEF shown
<1>7. ASSUME NEW q \in L!Named(l)
      PROVE  q \in DOMAIN t /\ Sight(t, x, q) = o[q]
  <2>1. PICK i \in L!Added(l) : q = l[i].path
    BY DEF L!Named
  <2>2. q \in DOMAIN t /\ Sight(t, x, q) = L!Meant(l, k, i)
    BY <1>1, <2>1, NoneEmptied DEF Sofar, EntriesThere
  <2>3. L!EntryAt(l, q) = i
    BY <2>1, EntryAtIs
  <2> QED
    BY <1>4, <2>2, <2>3
<1>8. ASSUME NEW q \in shown, q \notin L!Named(l)
      PROVE  q \in DOMAIN t /\ Sight(t, x, q) = o[q]
  <2>1. /\ q \in DOMAIN t /\ t[q] = low.tree[q]
        /\ t[q].kind = "file" => x[t[q].to] = low.text[t[q].to]
    BY <1>1, <1>5, <1>8, NoneEmptied DEF Sofar, LowerThere
  <2>2. o[q] = Sight(low.tree, low.text, q)
    BY <1>3, <1>4, <1>5, <1>8
  <2> QED
    BY <2>1, <2>2 DEF Sight
<1>9. ASSUME NEW q \in way PROVE q \in DOMAIN t
  <2>1. PICK r \in L!Named(l) : q \in L!Above(r)
    OBVIOUS
  <2> QED
    BY <1>7, <2>1 DEF Inodes, TreeOK, IsDirIn
<1>10. ASSUME NEW q \in DOMAIN t, q \notin L!Named(l), q \notin shown
       PROVE  q \in way /\ Sight(t, x, q) = o[q]
  <2>1. t[q] = L!Dir /\ q \in way
    BY <1>1, <1>6, <1>10 DEF Sofar, NothingElse
  <2> QED
    BY <1>4, <1>10, <2>1 DEF Sight, L!Dir
<1>11. DOMAIN o = DOMAIN t
  BY <1>4, <1>7, <1>8, <1>9, <1>10
<1>12. \A q \in DOMAIN t : L!View(t, x)[q] = o[q]
  BY <1>7, <1>8, <1>10, ViewIs
<1>13. L!View(t, x) = [q \in DOMAIN t |-> L!View(t, x)[q]] /\ o = [q \in DOMAIN o |-> o[q]]
  BY DEF L!View, L!Overlay, o
<1> QED
  BY <1>11, <1>12, <1>13 DEF o, u

-----------------------------------------------------------------------------
(* The members of the layer that is being applied *)
K == L!Members

LEMMA Here ==
  ASSUME LayersInv, ln > 0 \/ ~L!Applied
  PROVE  /\ ln \in 1..Len(layers) /\ ln \in Nat /\ mn \in Nat /\ LayerOK(K) /\ Len(K) \in Nat
         /\ ~L!Applied => mn \in 1..Len(K) /\ L!m = K[mn]
<1>1. layers \in Seq(LayerType) /\ Len(layers) \in Nat /\ ln \in 0..Len(layers) /\ mn \in Nat \ {0}
  BY LenProperties DEF LayersInv
<1>2. ln # 0
  <2>1. SUFFICES ASSUME ln = 0 PROVE FALSE
    OBVIOUS
  <2>2. L!Members = <<>> /\ Len(<<>>) = 0
    BY <2>1 DEF L!Members
  <2> QED
    BY <1>1, <2>1, <2>2 DEF L!Applied
<1>3. K = layers[ln].members /\ layers[ln] \in LayerType
  BY <1>1, <1>2, ElementOfSeq DEF K, L!Members
<1>4. LayerOK(K) /\ Len(K) \in Nat
  BY <1>3, LenProperties DEF LayerType, LayerOK
<1> QED
  BY <1>1, <1>2, <1>4 DEF K, L!Applied, L!m

LEMMA WithoutIs ==
  ASSUME NEW R
  PROVE  /\ DOMAIN L!Without(R) = DOMAIN tree \ R
         /\ \A q \in DOMAIN tree \ R : L!Without(R)[q] = tree[q]
BY DEF L!Without, L!Restrict

(* To remove a directory with what is in it is to remove what is hidden. *)
LEMMA ClearedDir ==
  ASSUME LayersInv, NEW e, e.kind \in {"white", "opaque"}, e.path \in Seq(Name),
         L!Has(e.path, "dir")
  PROVE  Cleared(e, tree, L!Without(L!Within(e.path)))
<1> DEFINE t2 == L!Without(L!Within(e.path))
<1>1. DOMAIN t2 = {q \in DOMAIN tree : ~L!IsPrefix(e.path, q)} /\ \A q \in DOMAIN t2 : t2[q] = tree[q]
  BY WithoutIs DEF L!Within
<1> HIDE DEF t2
<1>2. ASSUME NEW q \in DOMAIN tree \ DOMAIN t2
      PROVE  L!Hides(e, q) \/ (e.kind = "opaque" /\ q = e.path /\ tree[q].kind = "dir")
  <2>1. L!IsPrefix(e.path, q)
    BY <1>1
  <2>2. q = e.path => tree[q].kind = "dir"
    BY HasPath DEF LayersInv, TreeOK
  <2> QED
    BY <2>1, <2>2 DEF L!Hides, L!IsStrictPrefix
<1>3. \A q \in DOMAIN t2 : ~L!Hides(e, q)
  BY <1>1 DEF L!Hides, L!IsStrictPrefix
<1> QED
  BY <1>1, <1>2, <1>3 DEF Cleared, t2

(* Where there is no directory, there is nothing below. *)
LEMMA NothingBelow ==
  ASSUME LayersInv, NEW p \in Seq(Name), ~L!Has(p, "dir"), NEW q \in DOMAIN tree
  PROVE  ~L!IsStrictPrefix(p, q)
<1>1. p \in Path
  BY DEF L!Has, Path
<1>2. SUFFICES ASSUME L!IsStrictPrefix(p, q) PROVE FALSE
  OBVIOUS
<1>3. IsDirIn(tree, p)
  BY <1>1, <1>2, BelowDir DEF LayersInv
<1> QED
  BY <1>1, <1>3, HasPath DEF IsDirIn

(* The next member of the same layer *)
NextMember == mn' = mn + 1 /\ UNCHANGED <<layers, ln, torn, lower>>

(* Each action, in terms of what is removed, or made *)
LEMMA OpaqueEffect ==
  ASSUME LayersInv, L!Opaque
  PROVE  /\ ~L!Applied /\ ~torn /\ mn \in L!Markers(K) /\ NextMember
         /\ Cleared(K[mn], tree, tree') /\ text' = text
<1>1. ~L!Applied /\ ~torn /\ L!m.kind = "opaque"
  BY DEF L!Opaque, L!At
<1>2. LayerOK(K) /\ mn \in 1..Len(K) /\ L!m = K[mn]
  BY <1>1, Here
<1>3. mn \in L!Markers(K) /\ K[mn].path \in Seq(Name) /\ K[mn].kind = "opaque"
  BY <1>1, <1>2, MemberOK
<1>4. NextMember /\ text' = text
  BY DEF L!Opaque, L!Step, NextMember
<1>5. CASE L!Has(L!m.path, "dir")
  <2>1. tree' = L!Without(L!Within(L!m.path))
    BY <1>5 DEF L!Opaque, L!Step
  <2> QED
    BY <1>1, <1>2, <1>3, <1>4, <1>5, <2>1, ClearedDir
<1>6. CASE ~L!Has(L!m.path, "dir")
  <2>1. tree' = tree
    BY <1>6 DEF L!Opaque, L!Step
  <2>2. \A q \in DOMAIN tree : ~L!Hides(K[mn], q)
    BY <1>2, <1>3, <1>6, NothingBelow DEF L!Hides
  <2>3. Cleared(K[mn], tree, tree)
    BY <2>2 DEF Cleared
  <2> QED
    BY <1>1, <1>3, <1>4, <2>1, <2>3
<1> QED
  BY <1>5, <1>6

LEMMA WhiteoutEffect ==
  ASSUME LayersInv, L!Whiteout
  PROVE  /\ ~L!Applied /\ ~torn /\ mn \in L!Markers(K) /\ NextMember /\ text' = text
         /\ K[mn].kind = "white" /\ K[mn].path \in Path
         /\ DOMAIN tree' \subseteq DOMAIN tree /\ \A q \in DOMAIN tree' : tree'[q] = tree[q]
         /\ (L!Has(K[mn].path, "link") => L!Has(tree[K[mn].path].to, "file"))
              => Cleared(K[mn], tree, tree')
<1> DEFINE p == L!m.path
<1>1. ~L!Applied /\ ~torn /\ L!m.kind = "white"
  BY DEF L!Whiteout, L!At
<1>2. LayerOK(K) /\ mn \in 1..Len(K) /\ L!m = K[mn]
  BY <1>1, Here
<1>3. mn \in L!Markers(K) /\ p \in Path /\ p \in Seq(Name)
  BY <1>1, <1>2, MemberOK
<1>4. NextMember /\ text' = text
  BY DEF L!Whiteout, L!Step, NextMember
<1>5. CASE L!Has(p, "dir")
  <2>1. tree' = L!Without(L!Within(p))
    BY <1>5 DEF L!Whiteout, L!Step
  <2>2. Cleared(K[mn], tree, tree')
    BY <1>1, <1>2, <1>3, <1>5, <2>1, ClearedDir
  <2> QED
    BY <1>1, <1>2, <1>3, <1>4, <2>2 DEF Cleared
<1>6. CASE ~L!Has(p, "dir") /\ L!Has(L!LeadsTo(p), "file")
  <2>1. tree' = L!Without({p})
    BY <1>6 DEF L!Whiteout, L!Step
  <2>2. DOMAIN tree' = DOMAIN tree \ {p} /\ \A q \in DOMAIN tree' : tree'[q] = tree[q]
    BY <2>1, WithoutIs
  <2>3. L!Hides(K[mn], p)
    BY <1>1, <1>2, <1>3, PrefixSelf DEF L!Hides
  <2>4. \A q \in DOMAIN tree' : ~L!Hides(K[mn], q)
    BY <1>1, <1>2, <1>3, <1>6, <2>2, NothingBelow DEF L!Hides, L!IsStrictPrefix
  <2>5. Cleared(K[mn], tree, tree')
    BY <2>2, <2>3, <2>4 DEF Cleared
  <2> QED
    BY <1>1, <1>2, <1>3, <1>4, <2>2, <2>5
<1>7. CASE ~L!Has(p, "dir") /\ ~L!Has(L!LeadsTo(p), "file")
  <2>1. tree' = tree
    BY <1>7 DEF L!Whiteout, L!Step
  <2>2. ASSUME L!Has(p, "link") => L!Has(tree[p].to, "file")
        PROVE  Cleared(K[mn], tree, tree')
    <3>1. p \notin DOMAIN tree
      <4>1. SUFFICES ASSUME p \in DOMAIN tree PROVE FALSE
        OBVIOUS
      <4>2. tree[p].kind \in {"dir", "link", "file"}
        BY <4>1 DEF LayersInv, TreeOK, NodeOK
      <4>3. CASE tree[p].kind = "link"
        BY <1>3, <1>7, <2>2, <4>1, <4>3, HasPath DEF L!LeadsTo
      <4>4. CASE tree[p].kind # "link"
        BY <1>3, <1>7, <4>1, <4>2, <4>4, HasPath DEF L!LeadsTo
      <4> QED
        BY <4>3, <4>4
    <3>2. \A q \in DOMAIN tree : ~L!Hides(K[mn], q)
      BY <1>1, <1>2, <1>3, <1>7, <3>1, NothingBelow DEF L!Hides, L!IsStrictPrefix
    <3> QED
      BY <2>1, <3>2 DEF Cleared
  <2> QED
    BY <1>1, <1>2, <1>3, <1>4, <2>1, <2>2
<1> QED
  BY <1>5, <1>6, <1>7

(* The tree with directories above p, and node v at p *)
LEMMA GrownWith ==
  ASSUME LayersInv, NEW p \in Path, L!m.path = p, L!Holds(p),
         NEW v, NEW g, g = L!With(L!Grown, p, v)
  PROVE  /\ DOMAIN g = DOMAIN tree \union L!Above(p) \union {p} /\ g[p] = v
         /\ \A q \in DOMAIN g : q # p => g[q] = IF q \in DOMAIN tree THEN tree[q] ELSE L!Dir
         /\ \A q \in L!Above(p) : g[q] = L!Dir
<1>1. /\ DOMAIN L!Grown = DOMAIN tree \union L!Above(p)
      /\ \A q \in DOMAIN L!Grown : L!Grown[q] = IF q \in DOMAIN tree THEN tree[q] ELSE L!Dir
  BY DEF L!Grown
<1>2. /\ DOMAIN g = DOMAIN L!Grown \union {p} /\ g[p] = v
      /\ \A q \in DOMAIN L!Grown : q # p => g[q] = L!Grown[q]
  BY DEF L!With
<1>3. p \notin L!Above(p)
  BY AbovePath
<1>4. \A q \in DOMAIN tree : tree[q].kind = "dir" => tree[q] = L!Dir
  BY DEF LayersInv, TreeOK, NodeOK
<1>5. \A q \in L!Above(p) : g[q] = L!Dir
  BY <1>1, <1>2, <1>3, <1>4 DEF L!Holds
<1> QED
  BY <1>1, <1>2, <1>5

(* What stands in the way of an entry *)
Blocked(l, n, t) ==
  \/ \E q \in L!Above(l[n].path) : q \in DOMAIN t /\ t[q].kind # "dir"
  \/ l[n].path \in DOMAIN t /\ (t[l[n].path].kind = "dir" <=> l[n].kind # "dir")

(* A file or directory does not replace a link, nor is one linked to. *)
NoLinks(l, n, t) ==
  /\ l[n].kind \in {"dir", "file"} /\ l[n].path \in DOMAIN t => t[l[n].path].kind # "link"
  /\ l[n].kind = "hard" /\ l[n].to \in DOMAIN t => t[l[n].to].kind # "link"

Raised(l, n, t) == torn' /\ Blocked(l, n, t) /\ UNCHANGED <<layers, ln, mn, tree, text, lower>>

LEMMA MakeDirEffect ==
  ASSUME LayersInv, ~L!Applied, LayerOK(K), mn \in L!Added(K), L!m = K[mn],
         L!MakeDir, NoLinks(K, mn, tree)
  PROVE  Raised(K, mn, tree) \/ (NextMember /\ Placed(K, ln, mn, tree, text, tree', text'))
<1> DEFINE p == L!m.path
           v == IF p \in DOMAIN tree THEN tree[p] ELSE L!Dir
<1>1. p \in Path /\ L!m.kind = "dir"
  BY MemberOK DEF L!Added, L!MakeDir, L!At
<1>2. p \in DOMAIN tree => tree[p].kind # "link" /\ L!LeadsTo(p) = p
  BY <1>1, HasPath DEF NoLinks, L!LeadsTo
<1>3. CASE L!Holds(p) /\ (p \in DOMAIN tree => L!Has(L!LeadsTo(p), "dir"))
  <2>1. tree' = L!With(L!Grown, p, v) /\ text' = text /\ NextMember
    BY <1>3 DEF L!MakeDir, L!Step, NextMember
  <2>2. v = L!Dir
    BY <1>1, <1>2, <1>3, HasPath DEF LayersInv, TreeOK, NodeOK
  <2> HIDE DEF v
  <2>3. /\ DOMAIN tree' = DOMAIN tree \union L!Above(p) \union {p} /\ tree'[p] = v
        /\ \A q \in DOMAIN tree' : q # p => tree'[q] = IF q \in DOMAIN tree THEN tree[q] ELSE L!Dir
        /\ \A q \in L!Above(p) : tree'[q] = L!Dir
    BY <1>1, <1>3, <2>1, GrownWith
  <2> QED
    BY <1>1, <2>1, <2>2, <2>3 DEF Placed
<1>4. CASE ~(L!Holds(p) /\ (p \in DOMAIN tree => L!Has(L!LeadsTo(p), "dir")))
  <2>1. torn' /\ UNCHANGED <<layers, ln, mn, tree, text, lower>>
    BY <1>4 DEF L!MakeDir, L!Raise
  <2>2. Blocked(K, mn, tree)
    BY <1>1, <1>2, <1>4, HasPath DEF Blocked, L!Holds
  <2> QED
    BY <2>1, <2>2 DEF Raised
<1> QED
  BY <1>3, <1>4

LEMMA MakeLinkEffect ==
  ASSUME LayersInv, ~L!Applied, LayerOK(K), mn \in L!Added(K), L!m = K[mn],
         L!MakeLink
  PROVE  Raised(K, mn, tree) \/ (NextMember /\ Placed(K, ln, mn, tree, text, tree', text'))
<1> DEFINE p == L!m.path
<1>1. p \in Path /\ L!m.kind = "link"
  BY MemberOK DEF L!Added, L!MakeLink, L!At
<1>3. CASE L!Holds(p) /\ ~L!Has(p, "dir")
  <2>1. tree' = L!With(L!Grown, p, L!LinkTo(L!m.to)) /\ text' = text /\ NextMember
    BY <1>3 DEF L!MakeLink, L!Step, L!Entry, NextMember
  <2>3. /\ DOMAIN tree' = DOMAIN tree \union L!Above(p) \union {p} /\ tree'[p] = L!LinkTo(L!m.to)
        /\ \A q \in DOMAIN tree' : q # p => tree'[q] = IF q \in DOMAIN tree THEN tree[q] ELSE L!Dir
        /\ \A q \in L!Above(p) : tree'[q] = L!Dir
    BY <1>1, <1>3, <2>1, GrownWith
  <2> QED
    BY <1>1, <2>1, <2>3 DEF Placed
<1>4. CASE ~(L!Holds(p) /\ ~L!Has(p, "dir"))
  <2>1. torn' /\ UNCHANGED <<layers, ln, mn, tree, text, lower>>
    BY <1>4 DEF L!MakeLink, L!Raise
  <2>2. Blocked(K, mn, tree)
    BY <1>1, <1>4, HasPath DEF Blocked, L!Holds
  <2> QED
    BY <2>1, <2>2 DEF Raised
<1> QED
  BY <1>3, <1>4

LEMMA HardLinkEffect ==
  ASSUME LayersInv, ~L!Applied, LayerOK(K), mn \in L!Added(K), L!m = K[mn],
         L!HardLink, NoLinks(K, mn, tree)
  PROVE  Raised(K, mn, tree) \/ (NextMember /\ Placed(K, ln, mn, tree, text, tree', text'))
<1> DEFINE p == L!m.path
<1>1. p \in Path /\ L!m.kind = "hard"
  BY MemberOK DEF L!Added, L!HardLink, L!At
<1>2. CASE ~L!Holds(p) \/ L!Has(p, "dir")
  <2>1. torn' /\ UNCHANGED <<layers, ln, mn, tree, text, lower>>
    BY <1>2 DEF L!HardLink, L!Raise
  <2>2. Blocked(K, mn, tree)
    BY <1>1, <1>2, HasPath DEF Blocked, L!Holds
  <2> QED
    BY <2>1, <2>2 DEF Raised
<1>3. ASSUME L!Holds(p), NEW v, NEW y, L!Step(L!Entry(v), y), v.kind = "file",
             L!m.to \in DOMAIN tree /\ tree[L!m.to].kind = "file" => v = tree[L!m.to] /\ y = text
      PROVE  NextMember /\ Placed(K, ln, mn, tree, text, tree', text')
  <2>1. tree' = L!With(L!Grown, p, v) /\ text' = y /\ NextMember
    BY <1>3 DEF L!Step, L!Entry, NextMember
  <2>3. /\ DOMAIN tree' = DOMAIN tree \union L!Above(p) \union {p} /\ tree'[p] = v
        /\ \A q \in DOMAIN tree' : q # p => tree'[q] = IF q \in DOMAIN tree THEN tree[q] ELSE L!Dir
        /\ \A q \in L!Above(p) : tree'[q] = L!Dir
    BY <1>1, <1>3, <2>1, GrownWith
  <2> QED
    BY <1>1, <1>3, <2>1, <2>3 DEF Placed
<1>4. CASE L!Holds(p) /\ ~L!Has(p, "dir") /\ L!m.to \in DOMAIN tree /\ ~L!Has(L!m.to, "dir")
  <2>1. L!Step(L!Entry(tree[L!m.to]), text)
    BY <1>4 DEF L!HardLink
  <2>2. tree[L!m.to].kind = "file"
    <3>1. L!m.to \in Path /\ tree[L!m.to].kind \in {"dir", "link", "file"}
      BY <1>4 DEF LayersInv, TreeOK, NodeOK
    <3> QED
      BY <1>1, <1>4, <3>1, HasPath DEF NoLinks
  <2> QED
    BY <1>3, <1>4, <2>1, <2>2
<1>5. CASE L!Holds(p) /\ ~L!Has(p, "dir") /\ ~(L!m.to \in DOMAIN tree /\ ~L!Has(L!m.to, "dir"))
  <2>1. \E y : L!Step(L!Entry(L!FileOf(<<ln, mn>>)), y)
    BY <1>5 DEF L!HardLink
  <2>2. L!FileOf(<<ln, mn>>).kind = "file"
    BY DEF L!FileOf
  <2>3. L!m.to \in DOMAIN tree => tree[L!m.to].kind # "file"
    <3>1. L!m.to \in DOMAIN tree => L!m.to \in Path
      BY DEF LayersInv, TreeOK
    <3> QED
      BY <1>5, <3>1, HasPath
  <2> QED
    BY <1>3, <1>5, <2>1, <2>2, <2>3
<1> QED
  BY <1>2, <1>4, <1>5

LEMMA WriteFileEffect ==
  ASSUME LayersInv, ~L!Applied, LayerOK(K), mn \in L!Added(K), L!m = K[mn],
         L!WriteFile, NoLinks(K, mn, tree)
  PROVE  Raised(K, mn, tree) \/ (NextMember /\ Placed(K, ln, mn, tree, text, tree', text'))
<1> DEFINE p == L!m.path
<1>1. p \in Path /\ L!m.kind = "file"
  BY MemberOK DEF L!Added, L!WriteFile, L!At
<1>2. L!LeadsTo(p) = p /\ ~L!Has(p, "link")
  BY <1>1, HasPath DEF NoLinks, L!LeadsTo
<1>3. CASE ~L!Holds(p) \/ L!Has(p, "dir")
  <2>1. torn' /\ UNCHANGED <<layers, ln, mn, tree, text, lower>>
    BY <1>2, <1>3 DEF L!WriteFile, L!Raise
  <2>2. Blocked(K, mn, tree)
    BY <1>1, <1>3, HasPath DEF Blocked, L!Holds
  <2> QED
    BY <2>1, <2>2 DEF Raised
<1>4. CASE L!Holds(p) /\ ~L!Has(p, "dir") /\ L!Has(p, "file")
  <2>1. L!Step(L!Grown, L!With(text, tree[p].to, <<ln, mn>>))
    BY <1>2, <1>4 DEF L!WriteFile
  <2>2. tree' = L!Grown /\ text' = L!With(text, tree[p].to, <<ln, mn>>) /\ NextMember
    BY <2>1 DEF L!Step, NextMember
  <2>3. p \in DOMAIN tree /\ tree[p].kind = "file"
    BY <1>1, <1>4, HasPath
  <2>4. /\ DOMAIN tree' = DOMAIN tree \union L!Above(p)
        /\ \A q \in DOMAIN tree' : tree'[q] = IF q \in DOMAIN tree THEN tree[q] ELSE L!Dir
    BY <2>2 DEF L!Grown
  <2>5. \A q \in L!Above(p) : tree'[q] = L!Dir
    <3>1. \A q \in DOMAIN tree : tree[q].kind = "dir" => tree[q] = L!Dir
      BY DEF LayersInv, TreeOK, NodeOK
    <3> QED
      BY <1>4, <2>4, <3>1 DEF L!Holds
  <2> QED
    BY <1>1, <2>2, <2>3, <2>4, <2>5 DEF Placed
<1>5. CASE L!Holds(p) /\ ~L!Has(p, "dir") /\ ~L!Has(p, "file")
  <2> DEFINE v == L!FileOf(<<ln, mn>>)
  <2>1. L!Step(L!With(L!Grown, p, v), L!With(text, <<ln, mn>>, <<ln, mn>>))
    BY <1>2, <1>5 DEF L!WriteFile
  <2>2. tree' = L!With(L!Grown, p, v) /\ text' = L!With(text, <<ln, mn>>, <<ln, mn>>) /\ NextMember
    BY <2>1 DEF L!Step, NextMember
  <2>3. p \notin DOMAIN tree
    <3>1. p \in DOMAIN tree => tree[p].kind \in {"dir", "link", "file"}
      BY DEF LayersInv, TreeOK, NodeOK
    <3> QED
      BY <1>1, <1>2, <1>5, <3>1, HasPath
  <2>4. v.kind = "file" /\ v.to = <<ln, mn>>
    BY DEF L!FileOf
  <2> HIDE DEF v
  <2>5. /\ DOMAIN tree' = DOMAIN tree \union L!Above(p) \union {p} /\ tree'[p] = v
        /\ \A q \in DOMAIN tree' : q # p => tree'[q] = IF q \in DOMAIN tree THEN tree[q] ELSE L!Dir
        /\ \A q \in L!Above(p) : tree'[q] = L!Dir
    BY <1>1, <1>5, <2>2, GrownWith
  <2>6. tree'[p].kind = "file" /\ text' = L!With(text, tree'[p].to, <<ln, mn>>)
    BY <2>2, <2>4, <2>5
  <2> QED
    BY <1>1, <2>2, <2>3, <2>5, <2>6 DEF Placed, v
<1> QED
  BY <1>3, <1>4, <1>5

(* What is there was there before or is an entry's, and so is its kind.      *)
Sources(l, n, low, t) ==
  \A p \in DOMAIN t :
    /\ t[p].kind = "dir" => L!BeDir(low, l, p)
    /\ t[p].kind # "dir" => L!BeOther(low, l, p)
    /\ t[p].kind = "link" =>
         L!Was(low, p, "link") \/ \E i \in Past(l, n) : l[i].path = p /\ l[i].kind = "link"

(* Nothing comes from elsewhere when something is removed, or an entry made. *)
LEMMA SourcesStay ==
  ASSUME NEW l, LayerOK(l), NEW n \in 1..Len(l), NEW low, NEW t, Sources(l, n, low, t),
         NEW t2, DOMAIN t2 \subseteq DOMAIN t, \A q \in DOMAIN t2 : t2[q] = t[q]
  PROVE  Sources(l, n + 1, low, t2)
<1>1. Past(l, n) \subseteq Past(l, n + 1)
  BY PastGrows
<1> QED
  BY <1>1 DEF Sources

LEMMA PlaceSources ==
  ASSUME NEW l, LayerOK(l), NEW n \in L!Added(l), NEW low,
         NEW k, NEW t, NEW x, NEW t2, NEW x2, Placed(l, k, n, t, x, t2, x2), TreeOK(t2),
         Sources(l, n, low, t)
  PROVE  Sources(l, n + 1, low, t2)
<1> DEFINE p == l[n].path
<1>0. n \in 1..Len(l) /\ p \in Path /\ p \in Seq(Name)
  BY MemberOK DEF L!Added
<1>1. Past(l, n + 1) = Past(l, n) \union {n}
  BY <1>0, PastGrows
<1> SUFFICES ASSUME NEW q \in DOMAIN t2
             PROVE  /\ t2[q].kind = "dir" => L!BeDir(low, l, q)
                    /\ t2[q].kind # "dir" => L!BeOther(low, l, q)
                    /\ t2[q].kind = "link" =>
                         \/ L!Was(low, q, "link")
                         \/ \E i \in Past(l, n + 1) : l[i].path = q /\ l[i].kind = "link"
  BY DEF Sources
<1>2. CASE q # p /\ q \in DOMAIN t
  <2>1. t2[q] = t[q]
    BY <1>2 DEF Placed
  <2> QED
    BY <1>1, <1>2, <2>1 DEF Sources
<1>3. CASE q # p /\ q \notin DOMAIN t
  <2>1. q \in L!Above(p) /\ t2[q] = L!Dir
    BY <1>3 DEF Placed
  <2>2. L!IsStrictPrefix(q, p)
    BY <1>0, <2>1, PrefixAbove DEF TreeOK
  <2>3. L!BeDir(low, l, q)
    BY <2>2 DEF L!BeDir
  <2> QED
    BY <2>1, <2>3 DEF L!Dir
<1>4. CASE q = p
  <2>1. l[n].kind = "dir" => L!BeDir(low, l, p)
    BY DEF L!BeDir
  <2>2. l[n].kind # "dir" => L!BeOther(low, l, p)
    BY DEF L!BeOther
  <2>3. t2[p].kind = "dir" <=> l[n].kind = "dir"
    BY DEF Placed, L!Dir, L!LinkTo
  <2>4. t2[p].kind = "link" => l[n].kind = "link"
    BY DEF Placed, L!Dir
  <2> QED
    BY <1>1, <1>4, <2>1, <2>2, <2>3, <2>4
<1> QED
  BY <1>2, <1>3, <1>4

(* There are no links to write through when the layer does not clash,        *)
LEMMA NoLinksClash ==
  ASSUME NEW l, LayerOK(l), NEW n \in L!Added(l), NEW low, ~L!Clash(low, l),
         NEW t, Sources(l, n, low, t)
  PROVE  NoLinks(l, n, t)
<1>1. ASSUME NEW i \in L!Added(l), i <= n, l[i].kind \in {"dir", "file"},
             l[i].path \in DOMAIN t, t[l[i].path].kind = "link"
      PROVE  FALSE
  <2>1. ~L!Was(low, l[i].path, "link")
    <3>1. SUFFICES ASSUME L!Was(low, l[i].path, "link") PROVE FALSE
      OBVIOUS
    <3>2. CASE l[i].kind = "file"
      BY <3>1, <3>2 DEF L!Clash
    <3>3. CASE l[i].kind = "dir"
      <4>1. L!BeDir(low, l, l[i].path)
        BY <3>3 DEF L!BeDir
      <4>2. L!BeOther(low, l, l[i].path)
        BY <3>1 DEF L!BeOther, L!Was
      <4> QED
        BY <4>1, <4>2 DEF L!Clash
    <3> QED
      BY <1>1, <3>2, <3>3
  <2>2. PICK j \in Past(l, n) : l[j].path = l[i].path /\ l[j].kind = "link"
    BY <1>1, <2>1 DEF Sources
  <2>3. j = i
    BY <2>2, NamedOnce DEF Past
  <2> QED
    BY <1>1, <2>2, <2>3
<1>2. n <= n
  BY MemberOK DEF L!Added
<1>3. ASSUME l[n].kind = "hard", l[n].to \in DOMAIN t, t[l[n].to].kind = "link"
      PROVE  FALSE
  <2>1. PICK i \in 1..n-1 : l[i].path = l[n].to /\ l[i].kind = "file"
    BY <1>3 DEF LayerOK, L!WellMade
  <2>2. i \in L!Added(l) /\ i <= n
    BY <2>1, MemberOK DEF L!Added
  <2> QED
    BY <1>1, <1>3, <2>1, <2>2
<1> QED
  BY <1>1, <1>2, <1>3 DEF NoLinks

(* or is not odd. *)
LEMMA NoLinksOdd ==
  ASSUME NEW l, LayerOK(l), NEW n \in L!Added(l), NEW low, ~L!Odd(low, l),
         NEW k, NEW t, NEW x, Sofar(l, n, k, low, t, x)
  PROVE  NoLinks(l, n, t)
<1>0. n \in 1..Len(l)
  BY DEF L!Added
<1>1. ASSUME l[n].kind \in {"dir", "file"}, l[n].path \in DOMAIN t, t[l[n].path].kind = "link"
      PROVE  FALSE
  <2>1. l[n].path \notin PastNames(l, n)
    BY <1>0, PastGrows
  <2>2. t[l[n].path] # L!Dir
    BY <1>1 DEF L!Dir
  <2>3. L!Was(low, l[n].path, "link")
    BY <1>1, <2>1, <2>2 DEF Sofar, NothingElse, L!Was
  <2>4. L!Odd(low, l)
    BY <1>0, <1>1, <2>3 DEF L!Odd
  <2> QED
    BY <2>4
<1>2. ASSUME l[n].kind = "hard" PROVE t[l[n].to].kind # "link"
  BY <1>2, HardThere DEF Sofar, HardTo
<1> QED
  BY <1>1, <1>2 DEF NoLinks

(* An entry that is blocked clashes with what is there. *)
LEMMA BlockedClash ==
  ASSUME NEW l, LayerOK(l), NEW n \in L!Added(l), NEW low,
         NEW t, TreeOK(t), Sources(l, n, low, t), Blocked(l, n, t)
  PROVE  L!Clash(low, l)
<1> DEFINE p == l[n].path
<1>0. p \in Path /\ p \in Seq(Name)
  BY MemberOK DEF L!Added
<1>1. CASE \E q \in L!Above(p) : q \in DOMAIN t /\ t[q].kind # "dir"
  <2>1. PICK q \in L!Above(p) : q \in DOMAIN t /\ t[q].kind # "dir"
    BY <1>1
  <2>2. L!IsStrictPrefix(q, p)
    BY <1>0, <2>1, PrefixAbove DEF TreeOK
  <2>3. L!BeDir(low, l, q)
    BY <2>2 DEF L!BeDir
  <2>4. L!BeOther(low, l, q)
    BY <2>1 DEF Sources
  <2> QED
    BY <2>1, <2>3, <2>4 DEF L!Clash
<1>2. CASE p \in DOMAIN t /\ t[p].kind = "dir" /\ l[n].kind # "dir"
  <2>1. L!BeDir(low, l, p)
    BY <1>2 DEF Sources
  <2>2. L!BeOther(low, l, p)
    BY <1>2 DEF L!BeOther
  <2> QED
    BY <2>1, <2>2 DEF L!Clash
<1>3. CASE p \in DOMAIN t /\ t[p].kind # "dir" /\ l[n].kind = "dir"
  <2>1. L!BeDir(low, l, p)
    BY <1>3 DEF L!BeDir
  <2>2. L!BeOther(low, l, p)
    BY <1>3 DEF Sources
  <2> QED
    BY <2>1, <2>2 DEF L!Clash
<1> QED
  BY <1>1, <1>2, <1>3 DEF Blocked

(* A link that is whited out leads to a file that is still there.            *)
LEMMA WhiteLink ==
  ASSUME NEW l, LayerOK(l), NEW n \in L!Markers(l), l[n].kind = "white",
         NEW low, ~L!Odd(low, l), NEW k, NEW t, TreeOK(t), NEW x, Sofar(l, n, k, low, t, x),
         l[n].path \in DOMAIN t, t[l[n].path].kind = "link"
  PROVE  t[l[n].path].to \in DOMAIN t /\ t[t[l[n].path].to].kind = "file"
<1> DEFINE p == l[n].path
           to == t[p].to
<1>0. n \in 1..Len(l) /\ p \in Seq(Name) /\ to \in Seq(Name) /\ Len(l) \in Nat
  BY MemberOK DEF L!Markers, TreeOK, NodeOK
<1>1. p \notin PastNames(l, n)
  <2>1. SUFFICES ASSUME NEW i \in Past(l, n), l[i].path = p PROVE FALSE
    BY DEF PastNames
  <2>2. L!Hides(l[n], l[i].path)
    BY <1>0, <2>1, PrefixSelf DEF L!Hides
  <2>3. i < n /\ i \in L!Added(l)
    BY DEF Past
  <2>4. L!Odd(low, l)
    BY <2>2, <2>3 DEF L!Odd
  <2> QED
    BY <2>4
<1>2. p \in DOMAIN low.tree /\ t[p] = low.tree[p]
  BY <1>1 DEF Sofar, NothingElse, L!Dir
<1>3. L!Was(low, p, "link") /\ low.tree[p].to = to
  BY <1>2 DEF L!Was
<1>4. L!Was(low, to, "file") /\ \A j \in 1..Len(l) : j # n => ~L!IsPrefix(l[j].path, to)
  <2>1. SUFFICES ASSUME \/ ~L!Was(low, to, "file")
                        \/ \E j \in 1..Len(l) : j # n /\ L!IsPrefix(l[j].path, to)
                 PROVE  L!Odd(low, l)
    OBVIOUS
  <2> HIDE DEF to
  <2> QED
    BY <1>0, <1>3, <2>1 DEF L!Odd
<1>5. ~HiddenYet(l, n, to)
  BY <1>4 DEF HiddenYet, L!Hides, L!IsStrictPrefix
<1>6. to \notin PastNames(l, n)
  <2>1. SUFFICES ASSUME NEW i \in Past(l, n), l[i].path = to PROVE FALSE
    BY DEF PastNames
  <2>2. i \in 1..Len(l) /\ i # n
    BY <1>0 DEF Past, L!Added
  <2>3. L!IsPrefix(l[i].path, to)
    BY <1>0, <2>1, PrefixSelf
  <2> QED
    BY <1>4, <2>2, <2>3
<1>7. to \in DOMAIN low.tree /\ low.tree[to].kind = "file"
  BY <1>4 DEF L!Was
<1> HIDE DEF to
<1>8. to \in DOMAIN t /\ t[to] = low.tree[to]
  BY <1>5, <1>6, <1>7 DEF Sofar, LowerThere
<1> QED
  BY <1>7, <1>8 DEF to

(* A file keeps its inode, or has that of the member.                        *)
LEMMA InodesStay ==
  ASSUME NEW n \in Nat, NEW k \in Nat, NEW low, NEW t, NEW x, Inodes(n, k, low, t, x),
         NEW t2, TreeOK(t2), NEW x2, DOMAIN x \subseteq DOMAIN x2,
         \A q \in DOMAIN t2 : t2[q].kind = "file" =>
           \/ \E r \in DOMAIN t : t[r] = t2[q]
           \/ t2[q].to = <<k, n>> /\ <<k, n>> \in DOMAIN x2
  PROVE  Inodes(n + 1, k, low, t2, x2)
<1> SUFFICES ASSUME NEW q \in DOMAIN t2, t2[q].kind = "file"
             PROVE  /\ t2[q].to \in DOMAIN x2 /\ t2[q].to[1] <= k
                    /\ t2[q].to[1] = k => t2[q].to[2] < n + 1
  BY DEF Inodes
<1>1. CASE \E r \in DOMAIN t : t[r] = t2[q]
  <2>1. PICK r \in DOMAIN t : t[r] = t2[q]
    BY <1>1
  <2>2. t[r].to \in DOMAIN x /\ t[r].to[1] <= k /\ (t[r].to[1] = k => t[r].to[2] < n)
    BY <2>1 DEF Inodes
  <2>3. t2[q].to \in Nat \X Nat
    BY DEF TreeOK, NodeOK
  <2> QED
    BY <2>1, <2>2, <2>3
<1>2. CASE t2[q].to = <<k, n>> /\ <<k, n>> \in DOMAIN x2
  BY <1>2
<1> QED
  BY <1>1, <1>2

-----------------------------------------------------------------------------
(* The invariants of the extraction *)

(* Inodes are numbered as they are made, for odd layers as well. *)
FilesNumbered == Inodes(mn, ln, lower, tree, text)

LEMMA StepInodes ==
  ASSUME LayersInv, LayersInv', FilesNumbered, NEW t, NEW x, L!Step(t, x),
         DOMAIN text \subseteq DOMAIN x,
         \A q \in DOMAIN t : t[q].kind = "file" =>
           \/ \E r \in DOMAIN tree : tree[r] = t[q]
           \/ t[q].to = <<ln, mn>> /\ <<ln, mn>> \in DOMAIN x
  PROVE  FilesNumbered'
<1>1. tree' = t /\ text' = x /\ mn' = mn + 1 /\ UNCHANGED <<ln, lower>>
  BY DEF L!Step
<1>2. mn \in Nat /\ ln \in Nat
  BY LenProperties DEF LayersInv
<1>3. TreeOK(t)
  <2>1. TreeOK(tree')
    BY DEF LayersInv
  <2> QED
    BY <1>1, <2>1
<1>4. Inodes(mn, ln, lower, tree, text)
  BY DEF FilesNumbered
<1>5. Inodes(mn + 1, ln, lower, t, x)
  BY <1>2, <1>3, <1>4, InodesStay
<1> QED
  BY <1>1, <1>5 DEF FilesNumbered

LEMMA ExtractInodes == LayersInv /\ LayersInv' /\ FilesNumbered /\ L!Extract => FilesNumbered'
<1> SUFFICES ASSUME LayersInv, LayersInv', FilesNumbered, L!Extract PROVE FilesNumbered'
  OBVIOUS
<1>1. ASSUME L!Raise PROVE FilesNumbered'
  <2>1. UNCHANGED <<mn, ln, lower, tree, text>>
    BY <1>1 DEF L!Raise
  <2> QED
    BY <2>1 DEF FilesNumbered
<1>2. ASSUME NEW R, L!Step(L!Without(R), text) PROVE FilesNumbered'
  BY <1>2, WithoutIs, StepInodes
<1>3. ASSUME L!Step(tree, text) PROVE FilesNumbered'
  BY <1>3, StepInodes
<1>4. DOMAIN L!Grown = DOMAIN tree \union L!Above(L!m.path) /\
      \A q \in DOMAIN L!Grown : L!Grown[q] = IF q \in DOMAIN tree THEN tree[q] ELSE L!Dir
  BY DEF L!Grown
<1>5. ASSUME NEW p, NEW v, NEW x, L!Step(L!With(L!Grown, p, v), x), DOMAIN text \subseteq DOMAIN x,
             v.kind = "file" => \/ \E r \in DOMAIN tree : tree[r] = v
                                \/ v.to = <<ln, mn>> /\ <<ln, mn>> \in DOMAIN x
      PROVE  FilesNumbered'
  <2> DEFINE g == L!With(L!Grown, p, v)
  <2>1. /\ DOMAIN g = DOMAIN L!Grown \union {p} /\ g[p] = v
        /\ \A q \in DOMAIN L!Grown : q # p => g[q] = L!Grown[q]
    BY DEF L!With
  <2>2. L!Step(g, x)
    BY <1>5
  <2> HIDE DEF g
  <2>3. \A q \in DOMAIN g : g[q].kind = "file" =>
           \/ \E r \in DOMAIN tree : tree[r] = g[q]
           \/ g[q].to = <<ln, mn>> /\ <<ln, mn>> \in DOMAIN x
    BY <1>4, <1>5, <2>1 DEF L!Dir
  <2> QED
    BY <1>5, <2>2, <2>3, StepInodes
<1>6. ASSUME NEW i, NEW v
      PROVE  /\ DOMAIN text \subseteq DOMAIN L!With(text, i, v)
             /\ i \in DOMAIN L!With(text, i, v)
  BY DEF L!With
<1> DEFINE new == L!FileOf(<<ln, mn>>)
<1>7. new.to = <<ln, mn>>
  BY DEF L!FileOf
<1>8. CASE L!OpenLayer
  <2>1. /\ ln' = ln + 1 /\ mn' = 1 /\ UNCHANGED <<tree, text>>
        /\ lower' = [tree |-> tree, text |-> text]
    BY <1>8 DEF L!OpenLayer
  <2>2. lower'.tree = tree /\ TreeOK(tree) /\ ln \in Nat
    BY <2>1, LenProperties DEF LayersInv
  <2>3. \A q \in DOMAIN tree : tree[q].kind = "file" =>
          tree[q].to \in DOMAIN text /\ tree[q].to[1] <= ln /\ tree[q].to[1] \in Nat
    BY <2>2 DEF FilesNumbered, Inodes, TreeOK, NodeOK
  <2>4. \A q \in DOMAIN tree : tree[q].kind = "file" =>
          /\ tree[q].to \in DOMAIN text /\ tree[q].to[1] < ln + 1
          /\ tree[q].to[1] <= ln + 1 /\ tree[q].to[1] # ln + 1
    BY <2>2, <2>3
  <2>5. Inodes(1, ln + 1, lower', tree, text)
    BY <2>2, <2>4 DEF Inodes
  <2> QED
    BY <2>1, <2>5 DEF FilesNumbered
<1>9. CASE L!Opaque
  BY <1>2, <1>3, <1>9 DEF L!Opaque
<1>10. CASE L!Whiteout
  BY <1>2, <1>3, <1>10 DEF L!Whiteout
<1>11. CASE L!MakeDir
  <2> DEFINE p == L!m.path
             v == IF p \in DOMAIN tree THEN tree[p] ELSE L!Dir
  <2>1. L!Raise \/ L!Step(L!With(L!Grown, p, v), text)
    BY <1>11 DEF L!MakeDir
  <2>2. v.kind = "file" => \E r \in DOMAIN tree : tree[r] = v
    BY DEF L!Dir
  <2> HIDE DEF v
  <2> QED
    BY <1>1, <1>5, <2>1, <2>2
<1>12. CASE L!MakeLink
  <2>1. L!Raise \/ L!Step(L!With(L!Grown, L!m.path, L!LinkTo(L!m.to)), text)
    BY <1>12 DEF L!MakeLink, L!Entry
  <2>2. L!LinkTo(L!m.to).kind # "file"
    BY DEF L!LinkTo
  <2> QED
    BY <1>1, <1>5, <2>1, <2>2
<1>13. CASE L!HardLink
  <2>1. CASE L!Raise
    BY <1>1, <2>1
  <2>2. CASE L!m.to \in DOMAIN tree /\ L!Step(L!Entry(tree[L!m.to]), text)
    BY <1>5, <2>2 DEF L!Entry
  <2>3. CASE \E y : L!Step(L!Entry(new), L!With(text, <<ln, mn>>, y))
    BY <1>5, <1>6, <1>7, <2>3 DEF L!Entry
  <2> QED
    BY <1>13, <2>1, <2>2, <2>3 DEF L!HardLink
<1>14. CASE L!WriteFile
  <2>1. CASE L!Raise
    BY <1>1, <2>1
  <2>2. CASE \E i : L!Step(L!Grown, L!With(text, i, <<ln, mn>>))
    <3>1. PICK i : L!Step(L!Grown, L!With(text, i, <<ln, mn>>))
      BY <2>2
    <3>2. \A q \in DOMAIN L!Grown : L!Grown[q].kind = "file" =>
            \E r \in DOMAIN tree : tree[r] = L!Grown[q]
      BY <1>4 DEF L!Dir
    <3> QED
      BY <1>6, <3>1, <3>2, StepInodes
  <2>3. CASE \E p : L!Step(L!With(L!Grown, p, new), L!With(text, <<ln, mn>>, <<ln, mn>>))
    BY <1>5, <1>6, <1>7, <2>3
  <2> QED
    BY <1>14, <2>1, <2>2, <2>3 DEF L!WriteFile
<1> QED
  BY <1>8, <1>9, <1>10, <1>11, <1>12, <1>13, <1>14 DEF L!Extract

(* A layer that is not odd has made of the tree what it means so far; if it  *)
(* does not clash, it is known where each path comes from; and it is known   *)
(* what has torn the extraction.                                             *)
MeansSofar ==
  (ln > 0 /\ ~torn /\ ~L!Odd(lower, K)) => Sofar(K, mn, ln, lower, tree, text)

SourcesKnown ==
  (ln > 0 /\ ~torn /\ ~L!Clash(lower, K)) => Sources(K, mn, lower, tree)

TornWhy == torn => ln > 0 /\ (~layers[ln].there \/ L!Clash(lower, K))

LayersMeant == FilesNumbered /\ MeansSofar /\ SourcesKnown /\ TornWhy

LEMMA SameLayer ==
  ASSUME UNCHANGED <<layers, ln>>
  PROVE  K' = K
BY DEF K, L!Members

(* A layer is opened. *)
LEMMA OpenMeant ==
  ASSUME LayersInv, LayersInv', FilesNumbered, L!OpenLayer
  PROVE  MeansSofar' /\ SourcesKnown' /\ TornWhy'
<1>1. /\ ln' = ln + 1 /\ mn' = 1 /\ UNCHANGED <<layers, tree, text>>
      /\ lower' = [tree |-> tree, text |-> text] /\ torn' = ~layers[ln'].there
  BY DEF L!OpenLayer
<1>2. ln \in Nat /\ lower'.tree = tree /\ lower'.text = text
  BY <1>1, LenProperties DEF LayersInv
<1>3. Past(K', 1) = {} /\ PastNames(K', 1) = {} /\ \A p : ~HiddenYet(K', 1, p)
  BY DEF Past, PastNames, HiddenYet, L!Added
<1> DEFINE l == K'
           low == lower'
<1>4. Sofar(l, 1, ln', low, tree, text)
  <2>1. EntriesThere(l, 1, ln', tree, text)
    BY <1>3 DEF EntriesThere
  <2>2. LowerThere(l, 1, low, tree, text)
    BY <1>2 DEF LowerThere
  <2>3. NothingElse(l, 1, low, tree)
    BY <1>2, <1>3 DEF NothingElse
  <2>4. OwnFiles(l, 1, ln', low, tree)
    BY <1>3 DEF OwnFiles
  <2> QED
    BY <2>1, <2>2, <2>3, <2>4 DEF Sofar
<1>5. Sources(l, 1, low, tree)
  BY <1>2 DEF Sources, L!BeDir, L!BeOther, L!Was
<1>6. MeansSofar'
  BY <1>1, <1>4 DEF MeansSofar
<1>7. SourcesKnown'
  BY <1>1, <1>5 DEF SourcesKnown
<1>8. TornWhy'
  <2>1. torn' => ~layers'[ln'].there
    <3>1. torn' = ~layers[ln'].there /\ layers' = layers
      BY <1>1
    <3> QED
      BY <3>1, Zenon
  <2>2. ln' > 0
    BY <1>1, <1>2
  <2> QED
    BY <2>1, <2>2, Zenon DEF TornWhy
<1> QED
  BY <1>6, <1>7, <1>8

(* A marker is applied. *)
LEMMA MarkerMeant ==
  ASSUME LayersInv, LayersMeant, L!Opaque \/ L!Whiteout
  PROVE  MeansSofar' /\ SourcesKnown' /\ TornWhy'
<1>1. /\ ~L!Applied /\ ~torn /\ mn \in L!Markers(K) /\ NextMember /\ text' = text
      /\ DOMAIN tree' \subseteq DOMAIN tree /\ \A q \in DOMAIN tree' : tree'[q] = tree[q]
  BY OpaqueEffect, WhiteoutEffect DEF Cleared
<1>2. ln > 0 /\ LayerOK(K) /\ mn \in 1..Len(K) /\ TreeOK(tree)
  BY <1>1, Here DEF LayersInv
<1>3. K' = K /\ mn' = mn + 1 /\ UNCHANGED <<layers, ln, torn, lower>>
  BY <1>1, SameLayer DEF NextMember
<1>4. ASSUME ~L!Odd(lower, K) PROVE Sofar(K, mn + 1, ln, lower, tree', text)
  <2>1. Sofar(K, mn, ln, lower, tree, text)
    BY <1>1, <1>2, <1>4 DEF LayersMeant, MeansSofar
  <2>2. Cleared(K[mn], tree, tree')
    <3>1. CASE L!Opaque
      BY <3>1, OpaqueEffect
    <3>2. CASE L!Whiteout
      <4>1. K[mn].kind = "white" /\ K[mn].path \in Path
        BY <3>2, WhiteoutEffect
      <4>2. L!Has(K[mn].path, "link") => L!Has(tree[K[mn].path].to, "file")
        <5>1. SUFFICES ASSUME K[mn].path \in DOMAIN tree, tree[K[mn].path].kind = "link"
                       PROVE  L!Has(tree[K[mn].path].to, "file")
          BY <4>1, HasPath
        <5>2. tree[K[mn].path].to \in DOMAIN tree /\ tree[tree[K[mn].path].to].kind = "file"
          BY <1>1, <1>2, <1>4, <2>1, <4>1, <5>1, WhiteLink
        <5>3. tree[K[mn].path].to \in Path
          BY <1>2, <5>2 DEF TreeOK
        <5> QED
          BY <5>2, <5>3, HasPath
      <4> QED
        BY <3>2, <4>2, WhiteoutEffect
    <3> QED
      BY <3>1, <3>2
  <2> QED
    BY <1>1, <1>2, <1>4, <2>1, <2>2, ClearSofar
<1>5. ASSUME ~L!Clash(lower, K) PROVE Sources(K, mn + 1, lower, tree')
  <2>1. Sources(K, mn, lower, tree)
    BY <1>1, <1>2, <1>5 DEF LayersMeant, SourcesKnown
  <2> QED
    BY <1>1, <1>2, <2>1, SourcesStay
<1>6. MeansSofar'
  BY <1>1, <1>3, <1>4 DEF MeansSofar
<1>7. SourcesKnown'
  BY <1>3, <1>5 DEF SourcesKnown
<1> QED
  BY <1>1, <1>3, <1>6, <1>7 DEF TornWhy

(* An entry is made. *)
LEMMA EntryMeant ==
  ASSUME LayersInv, LayersInv', LayersMeant,
         L!MakeDir \/ L!MakeLink \/ L!HardLink \/ L!WriteFile
  PROVE  MeansSofar' /\ SourcesKnown' /\ TornWhy'
<1>1. ~L!Applied /\ ~torn /\ L!m.kind \in {"dir", "link", "hard", "file"}
  BY DEF L!MakeDir, L!MakeLink, L!HardLink, L!WriteFile, L!At
<1>2. /\ ln > 0 /\ ln \in Nat /\ LayerOK(K) /\ mn \in 1..Len(K) /\ L!m = K[mn] /\ TreeOK(tree)
      /\ mn \in L!Added(K)
  BY <1>1, Here DEF LayersInv, L!Added
<1>3. TreeOK(tree')
  BY DEF LayersInv
<1>4. UNCHANGED <<layers, ln, lower>> /\ K' = K
  <2>1. UNCHANGED <<layers, ln, lower>>
    BY DEF L!MakeDir, L!MakeLink, L!HardLink, L!WriteFile, L!Step, L!Raise
  <2> QED
    BY <2>1, SameLayer
<1>5. ASSUME NoLinks(K, mn, tree)
      PROVE  Raised(K, mn, tree) \/ (NextMember /\ Placed(K, ln, mn, tree, text, tree', text'))
  BY <1>1, <1>2, <1>5, MakeDirEffect, MakeLinkEffect, HardLinkEffect, WriteFileEffect
<1>6. ASSUME ~L!Odd(lower, K), ~torn' PROVE Sofar(K, mn', ln, lower, tree', text')
  <2>1. Sofar(K, mn, ln, lower, tree, text)
    BY <1>1, <1>2, <1>6 DEF LayersMeant, MeansSofar
  <2>2. NoLinks(K, mn, tree)
    BY <1>2, <1>6, <2>1, NoLinksOdd
  <2>3. mn' = mn + 1 /\ Placed(K, ln, mn, tree, text, tree', text')
    BY <1>5, <1>6, <2>2 DEF Raised, NextMember
  <2>4. Inodes(mn, ln, lower, tree, text)
    BY DEF LayersMeant, FilesNumbered
  <2>5. Sofar(K, mn + 1, ln, lower, tree', text')
    BY <1>2, <1>3, <1>6, <2>1, <2>3, <2>4, PlaceSofar
  <2> QED
    BY <2>3, <2>5
<1>7. ASSUME ~L!Clash(lower, K) PROVE ~torn' /\ Sources(K, mn', lower, tree')
  <2>1. Sources(K, mn, lower, tree)
    BY <1>1, <1>2, <1>7 DEF LayersMeant, SourcesKnown
  <2>2. NoLinks(K, mn, tree)
    BY <1>2, <1>7, <2>1, NoLinksClash
  <2>3. ~Blocked(K, mn, tree)
    BY <1>2, <1>7, <2>1, BlockedClash
  <2>4. NextMember /\ Placed(K, ln, mn, tree, text, tree', text')
    BY <1>5, <2>2, <2>3 DEF Raised
  <2>5. Sources(K, mn + 1, lower, tree')
    BY <1>2, <1>3, <2>1, <2>4, PlaceSources
  <2> QED
    BY <1>1, <2>4, <2>5 DEF NextMember
<1>8. MeansSofar'
  BY <1>4, <1>6 DEF MeansSofar
<1>9. SourcesKnown'
  BY <1>4, <1>7 DEF SourcesKnown
<1>10. TornWhy'
  BY <1>2, <1>4, <1>7 DEF TornWhy
<1> QED
  BY <1>8, <1>9, <1>10

LEMMA ExtractMeant == LayersInv /\ LayersInv' /\ LayersMeant /\ L!Extract => LayersMeant'
<1> SUFFICES ASSUME LayersInv, LayersInv', LayersMeant, L!Extract PROVE LayersMeant'
  OBVIOUS
<1>1. FilesNumbered'
  BY ExtractInodes DEF LayersMeant
<1>2. CASE L!OpenLayer
  BY <1>1, <1>2, OpenMeant DEF LayersMeant
<1>3. CASE L!Opaque \/ L!Whiteout
  BY <1>1, <1>3, MarkerMeant DEF LayersMeant
<1>4. CASE L!MakeDir \/ L!MakeLink \/ L!HardLink \/ L!WriteFile
  BY <1>1, <1>4, EntryMeant DEF LayersMeant
<1> QED
  BY <1>2, <1>3, <1>4 DEF L!Extract

(* Before the first layer there is nothing that they could mean. *)
LEMMA NoLayerMeant ==
  ASSUME LayersInv, L!LayersInit
  PROVE  LayersMeant
<1>1. ln = 0 /\ ~torn /\ DOMAIN tree = {} /\ lower.tree = <<>> /\ DOMAIN lower.tree = {}
  BY DEF L!LayersInit
<1>2. TreeOK(lower.tree) /\ TreeOK(tree)
  <2>1. IsFiniteSet({})
    BY FS_EmptySet
  <2> QED
    BY <1>1, <2>1 DEF TreeOK
<1>3. FilesNumbered
  BY <1>1, <1>2 DEF FilesNumbered, Inodes
<1> QED
  BY <1>1, <1>3 DEF LayersMeant, MeansSofar, SourcesKnown, TornWhy

-----------------------------------------------------------------------------
(* Sums *)

LEMMA LeastOf ==
  ASSUME NEW T, T \subseteq Nat, T # {}
  PROVE  \E x \in T : \A y \in T : x <= y
<1> DEFINE R == {ss \in Nat \X Nat : ss[1] < ss[2]}
<1>1. IsWellFoundedOn(R, Nat)
  BY NatLessThanWellFounded DEF OpToRel
<1>2. PICK x \in T : \A y \in T : ~(<<y, x>> \in R)
  BY <1>1, WFMin
<1>3. \A y \in T : ~(y < x)
  BY <1>2
<1> QED
  BY <1>3

(* The induction of the naturals, for a set of them. *)
LEMMA UpTo ==
  ASSUME NEW n \in Nat, NEW S, 0 \in S, \A k \in 1..n : k - 1 \in S => k \in S
  PROVE  0..n \subseteq S
<1> DEFINE T == {k \in 0..n : k \notin S}
<1> SUFFICES ASSUME T # {} PROVE FALSE
  OBVIOUS
<1>1. T \subseteq Nat
  OBVIOUS
<1> HIDE DEF T
<1>2. PICK x \in T : \A y \in T : x <= y
  BY <1>1, LeastOf
<1>3. x \in 1..n /\ x \notin S
  BY DEF T
<1>4. x - 1 \notin T
  BY <1>1, <1>2, <1>3
<1> QED
  BY <1>3, <1>4 DEF T

IsSums(s, w, n) == s = [k \in 0..n |-> IF k = 0 THEN 0 ELSE s[k - 1] + w[k]]

(* There are sums, and Sums has them. *)
LEMMA SumsExist ==
  ASSUME NEW w, NEW n \in Nat
  PROVE  IsSums(Sums(w, n), w, n)
<1> DEFINE S == {j \in 0..n : \E s : IsSums(s, w, j)}
<1>1. 0 \in S
  <2>1. IsSums([k \in 0..0 |-> 0], w, 0)
    BY DEF IsSums
  <2> QED
    BY <2>1
<1>2. ASSUME NEW j \in 1..n, j - 1 \in S PROVE j \in S
  <2>1. PICK s : IsSums(s, w, j - 1)
    BY <1>2
  <2> DEFINE t == [k \in 0..j |-> IF k = j THEN s[j - 1] + w[j] ELSE s[k]]
  <2>2. \A k \in 0..j - 1 : s[k] = IF k = 0 THEN 0 ELSE s[k - 1] + w[k]
    BY <2>1 DEF IsSums
  <2>3. \A k \in 0..j : t[k] = IF k = 0 THEN 0 ELSE t[k - 1] + w[k]
    BY <2>2
  <2>4. t = [k \in 0..j |-> IF k = 0 THEN 0 ELSE t[k - 1] + w[k]]
    <3>1. DOMAIN t = 0..j /\ t = [k \in 0..j |-> t[k]]
      OBVIOUS
    <3> HIDE DEF t
    <3> QED
      BY <2>3, <3>1
  <2> HIDE DEF t
  <2> QED
    BY <2>4 DEF IsSums
<1>3. n \in S
  <2> HIDE DEF S
  <2>1. 0..n \subseteq S
    BY <1>1, <1>2, UpTo
  <2> QED
    BY <2>1
<1>4. PICK s : s = [k \in 0..n |-> IF k = 0 THEN 0 ELSE s[k - 1] + w[k]]
  BY <1>3 DEF IsSums
<1> DEFINE u == CHOOSE f : f = [k \in 0..n |-> IF k = 0 THEN 0 ELSE f[k - 1] + w[k]]
<1>5. u = [k \in 0..n |-> IF k = 0 THEN 0 ELSE u[k - 1] + w[k]]
  BY <1>4
<1>6. Sums(w, n) = u
  BY DEF Sums
<1> QED
  BY <1>5, <1>6 DEF IsSums

LEMMA SumsStep ==
  ASSUME NEW w, NEW n \in Nat
  PROVE  Sums(w, n)[0] = 0 /\ \A k \in 1..n : Sums(w, n)[k] = Sums(w, n)[k - 1] + w[k]
<1> DEFINE s == Sums(w, n)
<1>1. s = [k \in 0..n |-> IF k = 0 THEN 0 ELSE s[k - 1] + w[k]]
  BY SumsExist DEF IsSums
<1> HIDE DEF s
<1>2. s[0] = 0 /\ \A k \in 1..n : s[k] = s[k - 1] + w[k]
  BY <1>1
<1> QED
  BY <1>2 DEF s

(* The sums of naturals are naturals, *)
LEMMA SumsNat ==
  ASSUME NEW n \in Nat, NEW w, \A k \in 1..n : w[k] \in Nat
  PROVE  \A k \in 0..n : Sums(w, n)[k] \in Nat
<1> DEFINE S == {k \in 0..n : Sums(w, n)[k] \in Nat}
<1>1. 0 \in S /\ \A k \in 1..n : k - 1 \in S => k \in S
  BY SumsStep
<1> HIDE DEF S
<1>2. 0..n \subseteq S
  BY <1>1, UpTo
<1> QED
  BY <1>2 DEF S

(* and grow. *)
LEMMA SumsGrow ==
  ASSUME NEW n \in Nat, NEW w, \A k \in 1..n : w[k] \in Nat, NEW i \in 0..n
  PROVE  Sums(w, n)[i] <= Sums(w, n)[n]
<1> DEFINE S == {k \in 0..n : i <= k => Sums(w, n)[i] <= Sums(w, n)[k]}
<1>0. \A k \in 0..n : Sums(w, n)[k] \in Nat
  BY SumsNat
<1>1. 0 \in S
  BY <1>0
<1>2. ASSUME NEW k \in 1..n, k - 1 \in S PROVE k \in S
  <2>1. Sums(w, n)[k] = Sums(w, n)[k - 1] + w[k]
    BY SumsStep
  <2> QED
    BY <1>0, <1>2, <2>1
<1> HIDE DEF S
<1>3. 0..n \subseteq S
  BY <1>1, <1>2, UpTo
<1> QED
  BY <1>3 DEF S

(* They depend on what is summed up so far. *)
LEMMA SumsSame ==
  ASSUME NEW n \in Nat, NEW m \in Nat, n <= m, NEW w, NEW v, \A k \in 1..n : w[k] = v[k]
  PROVE  Sums(w, m)[n] = Sums(v, n)[n]
<1> DEFINE S == {k \in 0..n : Sums(w, m)[k] = Sums(v, n)[k]}
<1>1. 0 \in S
  BY SumsStep
<1>2. ASSUME NEW k \in 1..n, k - 1 \in S PROVE k \in S
  <2>1. Sums(w, m)[k] = Sums(w, m)[k - 1] + w[k] /\ k \in 1..m
    BY SumsStep
  <2>2. Sums(v, n)[k] = Sums(v, n)[k - 1] + v[k]
    BY SumsStep
  <2> QED
    BY <1>2, <2>1, <2>2
<1> HIDE DEF S
<1>3. 0..n \subseteq S
  BY <1>1, <1>2, UpTo
<1> QED
  BY <1>3 DEF S

(* What is the sum of two up to i has as sums those of the two. *)
LEMMA SumsAdd ==
  ASSUME NEW n \in Nat, NEW i \in 0..n, NEW w, NEW v, NEW x,
         \A k \in 1..n : v[k] \in Nat /\ x[k] \in Nat,
         \A k \in 1..i : w[k] = v[k] + x[k]
  PROVE  Sums(w, n)[i] = Sums(v, n)[i] + Sums(x, n)[i]
<1> DEFINE S == {k \in 0..n : k <= i => Sums(w, n)[k] = Sums(v, n)[k] + Sums(x, n)[k]}
<1>0. \A k \in 0..n : Sums(v, n)[k] \in Nat /\ Sums(x, n)[k] \in Nat
  BY SumsNat
<1>1. 0 \in S
  BY SumsStep
<1>2. ASSUME NEW k \in 1..n, k - 1 \in S PROVE k \in S
  <2>1. /\ Sums(w, n)[k] = Sums(w, n)[k - 1] + w[k]
        /\ Sums(v, n)[k] = Sums(v, n)[k - 1] + v[k]
        /\ Sums(x, n)[k] = Sums(x, n)[k - 1] + x[k]
    BY SumsStep
  <2>2. k - 1 \in 0..n /\ k \in 0..n
    OBVIOUS
  <2> QED
    BY <1>0, <1>2, <2>1, <2>2
<1> HIDE DEF S
<1>3. 0..n \subseteq S
  BY <1>1, <1>2, UpTo
<1> QED
  BY <1>3 DEF S

-----------------------------------------------------------------------------
(* The way from an archive, or a bundle, to a booted satellite. *)

(* The original layers that the manifests name are those of the archive. *)
BaseLayers(s) == \A i \in 1..Len(s) : s[i].kind = "base" => s[i].n \in 1..Len(archive.layers)

Archived ==
  /\ phase \in {"patch", "extract", "order", "boot", "failed"}
  /\ archive \in Archives \union {Empty}
  /\ BaseLayers(manifest.layers) /\ BaseLayers(docker.layers)
  /\ phase = "patch" => ln = 0

(* The tar is begun when the layers have made the bundle. *)
TarBegun ==
  /\ phase \in {"patch", "extract"} => TarInit /\ bundle = NoBundle
  /\ TarAllInv

HotSizes == [k \in 1..Len(out) |-> IF k \in Hot THEN bundle.size[out[k].path] ELSE 0]

(* The files of tier A come before all others, and hot_bytes are theirs. *)
HotFirst ==
  /\ at <= Len(bundle.tierA) + 1 => \A k \in 1..Len(out) : IsFile(k) => k \in Hot
  /\ \A k \in 1..Len(out) : \A j \in Hot : IsFile(k) /\ k \notin Hot => j < k
  /\ hot = Sums(HotSizes, Len(out))[Len(out)]

(* The primer waits for the image, and knows the boundary from the build. *)
ImageBuilt ==
  /\ PrimerInv
  /\ phase # "boot" => PrimerOff(0, 0)
  /\ phase = "boot" =>
       meta \in Nat /\ size = EndOf(Len(out), meta) /\ want = Boundary(size, hot)

BuildInv == PatchInv /\ Archived /\ LayersInv /\ TarBegun /\ HotFirst /\ ImageBuilt

(* The invariant of the tar holds whenever it is begun. *)
LEMMA TarBegins == BundleOK(bundle)' /\ TarInit' => TarAllInv'
BY InitTarAll, PTL

-----------------------------------------------------------------------------
(* The bundle that is found on disk *)

(* A sequence of the elements of a finite set *)
LEMMA SetAsSeq ==
  ASSUME NEW S, IsFiniteSet(S)
  PROVE  SetToSeq(S) \in Seq(S)
<1>1. Cardinality(S) \in Nat /\ ExistsBijection(1..Cardinality(S), S)
  BY FS_CardinalityType
<1>2. \E f \in [1..Cardinality(S) -> S] : IsInjective(f)
  BY <1>1 DEF ExistsBijection, Bijection, Injection
<1>3. SetToSeq(S) \in [1..Cardinality(S) -> S]
  BY <1>2 DEF SetToSeq
<1> QED
  BY <1>1, <1>3, SeqDef

(* What the layers have made is a bundle, whatever is listed first. *)
LEMMA FoundOK ==
  ASSUME LayersInv, NEW first \in Entry
  PROVE  BundleOK(Found(first))
<1> DEFINE paths == {p \in DOMAIN tree : tree[p].kind # "dir"}
           files == {Plain(p) : p \in paths} \ {first}
           b == Found(first)
<1>0. TreeOK(tree) /\ IsFiniteSet(DOMAIN tree) /\ DOMAIN tree \subseteq Path
  BY DEF LayersInv, TreeOK
<1>1. files \subseteq Entry /\ IsFiniteSet(files)
  <2>1. paths \subseteq DOMAIN tree /\ paths \subseteq Path
    BY <1>0
  <2>2. IsFiniteSet(paths)
    BY <1>0, <2>1, FS_Subset
  <2> HIDE DEF paths
  <2>3. IsFiniteSet({Plain(p) : p \in paths})
    <3> DEFINE T == {Plain(p) : p \in paths}
               g == [p \in paths |-> Plain(p)]
    <3>1. g \in Surjection(paths, T)
      BY DEF Surjection
    <3> HIDE DEF T, g
    <3>2. IsFiniteSet(T)
      BY <2>2, <3>1, FS_Surjection
    <3> QED
      BY <3>2 DEF T
  <2>4. files \subseteq {Plain(p) : p \in paths}
    OBVIOUS
  <2>5. \A p \in Path : Plain(p) \in Entry
    BY OrderedTarAssumption DEF Plain, Entry, Path
  <2> QED
    BY <2>1, <2>3, <2>4, <2>5, FS_Subset
<1>2. SetToSeq(files) \in Seq(Entry)
  <2> HIDE DEF files
  <2>1. SetToSeq(files) \in Seq(files)
    BY <1>1, SetAsSeq
  <2> QED
    BY <1>1, <2>1
<1>3. <<first>> \in Seq(Entry)
  OBVIOUS
<1>4. /\ b.kind = [p \in DOMAIN tree |-> tree[p].kind] /\ b.real = DOMAIN tree
      /\ b.size = [p \in DOMAIN tree |-> Len(p)]
      /\ b.tierA = <<first>>
      /\ b.tierB = SetToSeq(files)
  BY DEF Found
<1> HIDE DEF b
<1>5. BundleType(b)
  <2>1. \A p \in DOMAIN tree : Len(p) \in Nat
    BY <1>0, LenProperties DEF Path
  <2>2. \A p \in DOMAIN tree : tree[p].kind \in Kinds
    BY <1>0 DEF TreeOK, NodeOK, Kinds
  <2> QED
    BY <1>0, <1>2, <1>3, <1>4, <2>1, <2>2 DEF BundleType
<1>6. TreeLike(b)
  <2>1. ASSUME NEW p \in DOMAIN tree, NEW n \in 1..Len(p)-1
        PROVE  Up(p, n) \in DOMAIN tree /\ tree[Up(p, n)].kind = "dir"
    <3>1. Up(p, n) \in L!Above(p)
      BY DEF Up, L!Above, L!First
    <3> QED
      BY <1>0, <3>1 DEF TreeOK, IsDirIn
  <2>2. ASSUME NEW p \in b.real, NEW n \in 1..Len(p)-1
        PROVE  Up(p, n) \in b.real /\ b.kind[Up(p, n)] = "dir"
    <3>1. Up(p, n) \in DOMAIN tree /\ tree[Up(p, n)].kind = "dir"
      BY <1>4, <2>1
    <3>2. \A q \in DOMAIN tree : b.kind[q] = tree[q].kind
      BY <1>4
    <3>3. b.kind[Up(p, n)] = "dir"
      BY <3>1, <3>2
    <3> QED
      BY <1>4, <3>1, <3>3
  <2>3. DOMAIN b.kind \ b.real = {}
    BY <1>4
  <2> HIDE DEF b
  <2> QED
    BY <2>2, <2>3 DEF TreeLike
<1> QED
  BY <1>5, <1>6 DEF BundleOK, b

-----------------------------------------------------------------------------
(* The hot files *)

LEMMA TarFacts ==
  ASSUME TarAllInv
  PROVE  /\ Len(out) \in Nat /\ Len(bundle.tierA) \in Nat /\ at \in Nat
         /\ \A k \in 1..Len(out) : out[k].path \in DOMAIN bundle.kind /\ bundle.size[out[k].path] \in Nat
<1>1. BundleOK(bundle) /\ out \in Seq(Member) /\ at \in Nat /\ NothingBelowLinks
  BY DEF TarAllInv, TarInv, TypeOK
<1>2. Len(out) \in Nat /\ Len(bundle.tierA) \in Nat
  BY <1>1, LenProperties DEF BundleOK, BundleType
<1> QED
  BY <1>1, <1>2 DEF BundleOK, BundleType, NothingBelowLinks

(* The sums over the hot files are naturals. *)
LEMMA HotSumsNat ==
  ASSUME TarAllInv
  PROVE  \A k \in 1..Len(out) : HotSizes[k] \in Nat
BY TarFacts DEF HotSizes

LEMMA HotKept ==
  ASSUME TarAllInv, HotFirst, UNCHANGED <<bundle, out, hot>>, at' \in Nat, at' >= at
  PROVE  HotFirst'
<1>1. Hot' = Hot /\ \A k : IsFile(k)' = IsFile(k)
  BY DEF Hot, IsFile
<1>2. HotSizes' = HotSizes
  BY <1>1 DEF HotSizes
<1> QED
  BY <1>1, <1>2, TarFacts DEF HotFirst

(* A member is added: a hot file as long as all files are hot, another file  *)
(* only when that is no longer so, or something that is no file.             *)
LEMMA HotAdded ==
  ASSUME TarAllInv, HotFirst, NEW e, Emit(e), bundle' = bundle, at' \in Nat, at' >= at,
         e.path \in DOMAIN bundle.kind, bundle.size[e.path] \in Nat,
         NEW warm, warm = (bundle.kind[e.path] = "file" /\ e \in Listed(bundle.tierA)),
         hot' = hot + IF warm THEN bundle.size[e.path] ELSE 0,
         warm => at <= Len(bundle.tierA) + 1,
         bundle.kind[e.path] = "file" /\ ~warm => at' > Len(bundle.tierA) + 1
  PROVE  HotFirst'
<1>0. PICK n \in Nat : n = Len(out)
  BY TarFacts
<1>1. Len(bundle.tierA) \in Nat /\ at \in Nat /\ \A k \in 1..n : HotSizes[k] \in Nat
  BY <1>0, TarFacts, HotSumsNat
<1>2. /\ Len(out') = n + 1 /\ out'[n + 1] = e
      /\ \A k \in 1..n : out'[k] = out[k]
  <2>1. out \in Seq(Member) /\ out' = Append(out, e)
    BY DEF Emit, TarAllInv, TarInv, TypeOK
  <2> QED
    BY <1>0, <2>1
<1>3. /\ \A k \in 1..n : IsFile(k)' = IsFile(k)
      /\ IsFile(n + 1)' = (bundle.kind[e.path] = "file")
  BY <1>2 DEF IsFile
<1>4. /\ Hot \subseteq 1..n /\ \A k \in 1..n : k \in Hot' <=> k \in Hot
      /\ Hot' \subseteq 1..n + 1 /\ (n + 1 \in Hot' <=> warm)
  <2>1. \A k : k \in Hot <=> k \in 1..n /\ IsFile(k) /\ out[k] \in Listed(bundle.tierA)
    BY <1>0 DEF Hot
  <2>2. \A k : k \in Hot' <=>
          k \in 1..n + 1 /\ IsFile(k)' /\ out'[k] \in Listed(bundle.tierA)
    BY <1>2 DEF Hot
  <2>3. warm <=> bundle.kind[e.path] = "file" /\ e \in Listed(bundle.tierA)
    OBVIOUS
  <2> QED
    BY <1>2, <1>3, <2>1, <2>2, <2>3
<1>5. ASSUME at' <= Len(bundle.tierA) + 1, NEW k \in 1..n + 1, IsFile(k)'
      PROVE  k \in Hot'
  <2>1. CASE k \in 1..n
    BY <1>0, <1>1, <1>3, <1>4, <1>5, <2>1 DEF HotFirst
  <2>2. CASE k = n + 1
    BY <1>1, <1>3, <1>4, <1>5, <2>2
  <2> QED
    BY <2>1, <2>2
<1>6. ASSUME NEW k \in 1..n + 1, NEW j \in Hot', IsFile(k)', k \notin Hot'
      PROVE  j < k
  <2>1. CASE k = n + 1
    BY <1>4, <1>6, <2>1
  <2>2. CASE k \in 1..n /\ j \in Hot
    BY <1>0, <1>3, <1>4, <1>6, <2>2 DEF HotFirst
  <2>3. CASE k \in 1..n /\ j \notin Hot
    <3>1. j = n + 1 /\ warm
      BY <1>4, <1>6, <2>3
    <3>2. k \in Hot
      BY <1>0, <1>3, <1>6, <2>3, <3>1 DEF HotFirst
    <3> QED
      BY <1>4, <1>6, <2>3, <3>2
  <2> QED
    BY <2>1, <2>2, <2>3
<1>7. hot' = Sums(HotSizes', n + 1)[n + 1]
  <2>1. /\ \A k \in 1..n : HotSizes'[k] = HotSizes[k]
        /\ HotSizes'[n + 1] = IF warm THEN bundle.size[e.path] ELSE 0
    BY <1>0, <1>2, <1>4 DEF HotSizes
  <2> DEFINE w == HotSizes'
             v == HotSizes
  <2> HIDE DEF w, v
  <2>2. Sums(w, n + 1)[n + 1] = Sums(w, n + 1)[n] + w[n + 1]
    <3>1. n + 1 \in 1..n + 1 /\ n + 1 - 1 = n
      OBVIOUS
    <3> QED
      BY <3>1, SumsStep
  <2>3. Sums(w, n + 1)[n] = Sums(v, n)[n]
    BY <2>1, SumsSame DEF w, v
  <2>4. hot = Sums(v, n)[n]
    BY <1>0 DEF HotFirst, v
  <2> QED
    BY <2>1, <2>2, <2>3, <2>4 DEF w
<1> QED
  BY <1>2, <1>5, <1>6, <1>7 DEF HotFirst

(* Nothing is hot before anything is added. *)
LEMMA HotNone == TarInit => HotFirst
<1> SUFFICES ASSUME TarInit PROVE HotFirst
  OBVIOUS
<1>1. Len(out) = 0 /\ hot = 0
  BY DEF TarInit
<1>2. Sums(HotSizes, 0)[0] = 0
  BY SumsStep
<1>3. Hot = {}
  BY <1>1 DEF Hot
<1> QED
  BY <1>1, <1>2, <1>3 DEF HotFirst

(* A parent on the way is no file. *)
LEMMA ParentNoFile ==
  ASSUME TarInv, Adding, depth \in 1..Len(rel)-1
  PROVE  bundle.kind[Up(rel, depth)] # "file"
<1>1. rel \in Seq(Name) /\ Len(rel) \in Nat
  BY RelIsPath
<1>2. /\ TreeLike(bundle) /\ rel \in DOMAIN bundle.kind
      /\ \A n \in 1..depth-1 : Plain(Up(rel, n)) \in seen \ sym
  BY <1>1 DEF TarInv, BundleOK, Walking
<1>3. CASE rel \in bundle.real
  BY <1>2, <1>3 DEF TreeLike
<1>4. CASE rel \notin bundle.real
  <2>1. PICK n \in 1..Len(rel)-1 : Up(rel, n) \in bundle.real /\ bundle.kind[Up(rel, n)] = "link"
    BY <1>2, <1>4 DEF TreeLike
  <2>2. CASE depth = n
    BY <2>1, <2>2
  <2>3. CASE depth < n
    <3>1. Len(Up(rel, n)) = n /\ Up(Up(rel, n), depth) = Up(rel, depth)
      BY <1>1, <2>3, UpIsPath, UpOfUp
    <3>2. depth \in 1..Len(Up(rel, n))-1
      BY <2>3, <3>1
    <3>3. bundle.kind[Up(Up(rel, n), depth)] = "dir"
      BY <1>2, <2>1, <3>2 DEF TreeLike
    <3> QED
      BY <3>1, <3>3
  <2>4. CASE depth > n
    <3>1. Plain(Up(rel, n)) \in seen \ sym
      BY <1>1, <1>2, <2>4
    <3> QED
      BY <2>1, <3>1 DEF TarInv, LinksKnown, Plain
  <2> QED
    BY <1>1, <2>2, <2>3, <2>4
<1> QED
  BY <1>3, <1>4

(* A file is added while tier A is dealt with just if it is in tier A: what  *)
(* tier A lists is there when tier B begins.                                 *)
LEMMA HotByTier ==
  ASSUME TarAllInv, Adding, depth >= 1, depth = Len(rel), bundle.kind[rel] = "file"
  PROVE  InTierA <=> entry \in Listed(bundle.tierA)
<1> DEFINE s == bundle.tierA
           t == bundle.tierB
<1>0. BundleOK(bundle) /\ at \in 1..Len(Tiers)+1
  BY DEF TarAllInv, TarInv, TypeOK
<1>1. /\ s \in Seq(Entry) /\ t \in Seq(Entry)
      /\ at \in Nat /\ at >= 1 /\ Len(bundle.tierA) \in Nat
  <2>1. s \in Seq(Entry) /\ t \in Seq(Entry) /\ Len(Tiers) \in Nat
    BY <1>0, BundleFacts DEF Tiers
  <2> QED
    BY <1>0, <2>1, LenProperties
<1>2. \A i \in 1..Len(bundle.tierA) : Tiers[i] = bundle.tierA[i]
  <2>1. Tiers = s \o t
    BY DEF Tiers
  <2> HIDE DEF s, t
  <2>2. \A i \in 1..Len(s) : (s \o t)[i] = s[i]
    BY <1>1, ConcatProperties, LenProperties
  <2> QED
    BY <2>1, <2>2 DEF s
<1>3. ASSUME InTierA PROVE entry \in Listed(bundle.tierA)
  BY <1>1, <1>2, <1>3 DEF InTierA, entry, Listed
<1>4. ASSUME ~InTierA, entry \in Listed(bundle.tierA) PROVE FALSE
  <2>1. PICK i \in 1..Len(bundle.tierA) : bundle.tierA[i] = entry
    BY <1>4 DEF Listed
  <2>2. i \in 1..at-1 /\ Tiers[i] = entry
    BY <1>1, <1>2, <1>4, <2>1 DEF InTierA
  <2>3. rel \in Walked
    <3>1. rel \in Seq(Name) /\ Len(rel) \in Nat
      BY RelIsPath DEF TarAllInv
    <3>2. Up(rel, depth) = rel /\ depth \in 1..Len(rel)
      BY <3>1, UpAll
    <3>3. rel \in bundle.real
      BY <3>2, Arrived DEF TarAllInv
    <3> QED
      BY <3>3 DEF Walked
  <2>4. entry \in seen
    BY <2>2, <2>3 DEF TarAllInv, Dealt, rel
  <2>5. entry \notin seen
    BY DEF TarAllInv, TarInv, Walking
  <2> QED
    BY <2>4, <2>5
<1> QED
  BY <1>3, <1>4

(* Each turn of the loop keeps the hot files first. *)
LEMMA NextHot == TarAllInv /\ HotFirst /\ Next => HotFirst'
<1> SUFFICES ASSUME TarAllInv, HotFirst, Next PROVE HotFirst'
  OBVIOUS
<1>1. at \in Nat /\ at' \in Nat /\ at' >= at /\ bundle' = bundle /\ Len(bundle.tierA) \in Nat
  BY TarFacts DEF Next, Enter, Known, NewParent, Self, NextPath, Deeper
<1>2. CASE Enter \/ Known
  BY <1>1, <1>2, HotKept DEF Enter, Known
<1>3. CASE NewParent
  <2> DEFINE d == Up(rel, depth)
  <2>1. Adding /\ depth \in 1..Len(rel)-1 /\ Emit(Plain(d)) /\ hot' = hot
    BY <1>3 DEF NewParent, EmitDir, EmitLink, Parent
  <2>2. d \in DOMAIN bundle.kind /\ bundle.kind[d] # "file" /\ bundle.size[d] \in Nat
    <3>1. TarInv /\ BundleOK(bundle)
      BY DEF TarAllInv, TarInv
    <3>2. depth \in 1..Len(rel)
      BY <2>1, <3>1, RelIsPath
    <3> QED
      BY <2>1, <3>1, <3>2, Arrived, ParentNoFile, BundleFacts
  <2> DEFINE e == Plain(d)
  <2>e. e.path = d
    BY DEF Plain
  <2> HIDE DEF d, e
  <2>3. hot \in Nat /\ hot' = hot + 0
    BY <2>1 DEF TarAllInv, TarInv, TypeOK
  <2> DEFINE warm == bundle.kind[e.path] = "file" /\ e \in Listed(bundle.tierA)
  <2>4. ~warm
    BY <2>2, <2>e
  <2> HIDE DEF warm
  <2>5. hot' = hot + IF warm THEN bundle.size[e.path] ELSE 0
    BY <2>3, <2>4
  <2>6. Emit(e)
    BY <2>1 DEF e
  <2> QED
    BY <1>1, <2>2, <2>4, <2>5, <2>6, <2>e, HotAdded DEF warm
<1>4. CASE Self
  <2>1. Adding /\ depth >= 1 /\ depth = Len(rel) /\ at' = at + 1
    BY <1>4 DEF Self, NextPath
  <2>2. rel \in DOMAIN bundle.kind /\ bundle.kind[rel] \in Kinds /\ bundle.size[rel] \in Nat
    <3>1. TarInv /\ BundleOK(bundle)
      BY DEF TarAllInv, TarInv
    <3>2. Len(rel) \in Nat
      BY <2>1, <3>1, RelIsPath
    <3>3. rel \in DOMAIN bundle.kind
      BY <2>1, <3>1 DEF TarInv, Walking
    <3> QED
      BY <3>1, <3>3, BundleFacts
  <2>3. CASE bundle.kind[rel] = "special"
    <3>1. UNCHANGED <<out, hot>>
      BY <1>4, <2>3 DEF Self
    <3> QED
      BY <1>1, <3>1, HotKept
  <2>4. CASE bundle.kind[rel] # "special"
    <3> DEFINE warm == bundle.kind[rel] = "file" /\ entry \in Listed(bundle.tierA)
    <3>1. Emit(entry) /\ hot' = hot + IF bundle.kind[rel] = "file" /\ InTierA THEN bundle.size[rel] ELSE 0
      <4>1. hot \in Nat
        BY DEF TarAllInv, TarInv, TypeOK
      <4> QED
        BY <1>4, <2>2, <2>4, <4>1 DEF Self, EmitLink, EmitDir, Kinds
    <3>2. warm <=> bundle.kind[rel] = "file" /\ InTierA
      BY <2>1, HotByTier
    <3> HIDE DEF warm
    <3>3. hot' = hot + IF warm THEN bundle.size[rel] ELSE 0
      BY <3>1, <3>2
    <3>4. warm => at <= Len(bundle.tierA) + 1
      BY <1>1, <3>2 DEF InTierA
    <3>5. bundle.kind[rel] = "file" /\ ~warm => at' > Len(bundle.tierA) + 1
      BY <1>1, <2>1, <3>2 DEF InTierA
    <3>6. entry.path = rel
      BY DEF rel
    <3> HIDE DEF rel
    <3> QED
      BY <1>1, <2>2, <3>1, <3>3, <3>4, <3>5, <3>6, HotAdded DEF warm
  <2> QED
    BY <2>3, <2>4
<1> QED
  BY <1>2, <1>3, <1>4 DEF Next

-----------------------------------------------------------------------------
(* The image *)

LEMMA BlocksNat ==
  ASSUME TarAllInv
  PROVE  \A k \in 1..Len(out) : Blocks[k] \in Nat
BY TarFacts, RoundUpBounds DEF Blocks

(* Where a member ends is a number of bytes, *)
LEMMA ImageSize ==
  ASSUME TarAllInv, NEW n \in Nat
  PROVE  EndOf(Len(out), n) \in Nat
<1>1. Len(out) \in Nat /\ Block \in Nat
  BY TarFacts, PrimerAssumption
<1>2. Sums(Blocks, Len(out))[Len(out)] \in Nat
  BY <1>1, BlocksNat, SumsNat
<1>3. n * Block \in Nat
  BY <1>1
<1> QED
  BY <1>2, <1>3 DEF EndOf

(* and does not change when nothing is added. *)
LEMMA BuiltStays ==
  ASSUME UNCHANGED <<tarVars, size, want, meta>>,
         meta \in Nat /\ size = EndOf(Len(out), meta) /\ want = Boundary(size, hot)
  PROVE  (meta \in Nat /\ size = EndOf(Len(out), meta) /\ want = Boundary(size, hot))'
<1>1. UNCHANGED <<bundle, out, hot, size, want, meta>>
  BY DEF tarVars, vars
<1>2. Blocks' = Blocks
  BY <1>1 DEF Blocks, IsFile
<1>3. EndOf(Len(out), meta)' = EndOf(Len(out), meta)
  BY <1>1, <1>2 DEF EndOf
<1>4. Boundary(size, hot)' = Boundary(size, hot)
  BY <1>1 DEF Boundary
<1> QED
  BY <1>1, <1>3, <1>4

-----------------------------------------------------------------------------
(* The invariant of the build, part by part *)

LEMMA NoBundleOK == BundleOK(NoBundle)
<1>1. DOMAIN NoBundle.kind = {} /\ DOMAIN NoBundle.size = {} /\ NoBundle.real = {}
  BY DEF NoBundle
<1>2. NoBundle.tierA \in Seq(Entry) /\ NoBundle.tierB \in Seq(Entry)
  BY DEF NoBundle
<1> QED
  BY <1>1, <1>2 DEF BundleOK, BundleType, TreeLike

LEMMA InitBuildInv == BuildInit => BuildInv
<1> SUFFICES ASSUME BuildInit PROVE BuildInv
  OBVIOUS
<1>1. PatchInv
  BY InitBuild
<1>2. archive \in Archives \union {Empty} /\ Len(archive.layers) \in Nat
  <2>1. archive \in Archives \/ archive = Empty
    BY DEF BuildInit
  <2>2. CASE archive = Empty
    BY <2>2 DEF Empty
  <2>3. CASE archive \in Archives
    <3>1. archive.layers \in Seq(Seq(MemberType))
      BY <2>3, BuildAssumption
    <3> QED
      BY <2>3, <3>1, LenProperties
  <2> QED
    BY <2>1, <2>2, <2>3
<1>3. Archived
  <2>1. manifest.layers = P!Base(Len(archive.layers)) /\ docker.layers = P!Base(Len(archive.layers))
    BY DEF BuildInit, P!PatcherInit
  <2>2. BaseLayers(P!Base(Len(archive.layers)))
    BY <1>2 DEF BaseLayers, P!Base
  <2>3. ln = 0 /\ phase \in {"order", "patch"}
    BY DEF BuildInit, L!LayersInit
  <2> QED
    BY <1>2, <2>1, <2>2, <2>3 DEF Archived
<1>4. LayersInv
  <2>1. layers = <<>> /\ ln = 0 /\ mn = 1 /\ tree = <<>>
    BY DEF BuildInit, L!LayersInit
  <2>2. DOMAIN tree = {} /\ IsFiniteSet({})
    BY <2>1, FS_EmptySet
  <2>3. TreeOK(tree)
    BY <2>2 DEF TreeOK
  <2> QED
    BY <2>1, <2>3 DEF LayersInv
<1>5. TarBegun
  <2>1. TarInit /\ phase \in {"order", "patch"}
    BY DEF BuildInit
  <2>2. (phase = "order" /\ bundle \in Bundles) \/ (phase = "patch" /\ bundle = NoBundle)
    BY DEF BuildInit
  <2>3. BundleOK(bundle)
    BY <2>2, NoBundleOK, OrderedTarAssumption DEF BundleOK
  <2>4. TarAllInv
    BY <2>1, <2>3, InitTarAll
  <2> QED
    BY <2>1, <2>2, <2>4 DEF TarBegun
<1>6. HotFirst
  <2>1. TarInit
    BY DEF BuildInit
  <2> QED
    BY <2>1, HotNone
<1>7. ImageBuilt
  <2>1. PrimerOff(0, 0) /\ phase # "boot"
    BY DEF BuildInit
  <2>2. PrimerInit
    BY <2>1 DEF PrimerInit
  <2> QED
    BY <2>1, <2>2, InitPrimer DEF ImageBuilt
<1> QED
  BY <1>1, <1>3, <1>4, <1>5, <1>6, <1>7 DEF BuildInv

(* What each step of the whole way leaves alone. *)
LEMMA StepOf ==
  ASSUME [BuildNext]_allVars
  PROVE  /\ archive' = archive
         /\ Patch \/ UNCHANGED patchVars
         /\ Begin \/ ExtractStep \/ UNCHANGED layerVars
         /\ Order \/ AddStep \/ UNCHANGED tarVars
         /\ Mkfs \/ BootStep \/ UNCHANGED <<primerVars, meta>>
BY Zenon DEF BuildNext, Patch, Begin, ExtractStep, Order, AddStep, Mkfs, BootStep, allVars

LEMMA StepArchived == BuildInv /\ [BuildNext]_allVars => Archived'
<1> SUFFICES ASSUME BuildInv, [BuildNext]_allVars PROVE Archived'
  OBVIOUS
<1>1. archive' = archive
  BY StepOf
<1>2. phase' \in {"patch", "extract", "order", "boot", "failed"} /\ (phase' = "patch" => ln' = 0)
  <2>1. Archived
    BY DEF BuildInv
  <2>2. CASE Patch \/ UNCHANGED allVars
    BY <2>1, <2>2 DEF Archived, Patch, allVars, layerVars
  <2>3. CASE Begin \/ ExtractStep \/ Order
    BY <2>3 DEF Begin, ExtractStep, Order
  <2>4. CASE AddStep \/ Mkfs \/ BootStep
    BY <2>4 DEF AddStep, Mkfs, BootStep
  <2> QED
    BY <2>2, <2>3, <2>4 DEF BuildNext
<1>3. BaseLayers(manifest.layers)' /\ BaseLayers(docker.layers)'
  <2>1. BaseLayers(manifest.layers) /\ BaseLayers(docker.layers)
    BY DEF BuildInv, Archived
  <2>2. CASE UNCHANGED patchVars
    BY <1>1, <2>1, <2>2 DEF patchVars, BaseLayers
  <2>3. CASE Patch
    <3>1. manifest.layers \in Seq(LayerName) /\ docker.layers \in Seq(AnyName) /\ patches \in Nat
      BY DEF BuildInv, PatchInv, NameKinds
    <3> DEFINE n == patches + 1
               x == P!Blob("layer", n)
               y == P!Digest(n)
    <3>2. x \in LayerName /\ x \in AnyName /\ y \in AnyName /\ x.kind # "base" /\ y.kind # "base"
      BY <3>1 DEF P!Blob, P!Digest, LayerName, AnyName
    <3>3. /\ manifest'.layers \in {manifest.layers, Append(manifest.layers, x)}
          /\ docker'.layers \in {docker.layers, Append(docker.layers, x), Append(docker.layers, y)}
      BY <2>3 DEF Patch, P!Patch, P!ApplyOci, P!ApplyDocker
    <3> HIDE DEF n, x, y
    <3>4. ASSUME NEW S, NEW s \in Seq(S), BaseLayers(s), NEW z \in S, z.kind # "base"
          PROVE  BaseLayers(Append(s, z))
      <4> DEFINE t == Append(s, z)
      <4>1. /\ Len(t) = Len(s) + 1 /\ Len(s) \in Nat /\ t[Len(s) + 1] = z
            /\ \A i \in 1..Len(s) : t[i] = s[i]
        BY Appended
      <4> HIDE DEF t
      <4>2. BaseLayers(t)
        BY <3>4, <4>1 DEF BaseLayers
      <4> QED
        BY <4>2 DEF t
    <3>5. BaseLayers(manifest'.layers) /\ BaseLayers(docker'.layers)
      BY <2>1, <3>1, <3>2, <3>3, <3>4
    <3> QED
      BY <1>1, <3>5 DEF BaseLayers
  <2> QED
    BY <2>2, <2>3, StepOf
<1> QED
  BY <1>1, <1>2, <1>3 DEF BuildInv, Archived

(* The layer with the wrapper is made as layers are. *)
LEMMA ShimWellMade == L!WellMade(ShimLayer)
<1>1. Shim \in Seq(Name) /\ Len(Shim) \in Nat
  BY BuildAssumption, LenProperties DEF Path
<1>2. Len(ShimLayer) = Len(Shim)
  BY <1>1 DEF ShimLayer
<1>3. ASSUME NEW i \in 1..Len(ShimLayer)
      PROVE  /\ ShimLayer[i].kind \in {"dir", "file"} /\ ShimLayer[i].path = Up(Shim, i)
             /\ ShimLayer[i].path # <<>> /\ Len(ShimLayer[i].path) = i
  BY <1>1, <1>2, UpIsPath DEF ShimLayer, Path
<1> QED
  BY <1>3 DEF L!WellMade, L!Added

(* The layers that are opened are made of members. *)
LEMMA LoadOK ==
  ASSUME Archived, NEW name, name \in AnyName,
         name.kind = "base" => name.n \in 1..Len(archive.layers)
  PROVE  Load(name) \in LayerType
<1>1. archive.layers \in Seq(Seq(MemberType))
  <2>1. CASE archive \in Archives
    BY <2>1, BuildAssumption
  <2>2. CASE archive = Empty
    BY <2>2 DEF Empty
  <2> QED
    BY <2>1, <2>2 DEF Archived
<1>2. ShimLayer \in Seq(MemberType)
  <2>1. Shim \in Seq(Name) /\ Len(Shim) \in Nat
    BY BuildAssumption, LenProperties DEF Path
  <2>2. ASSUME NEW i \in 1..Len(Shim)
        PROVE  [kind |-> IF i = Len(Shim) THEN "file" ELSE "dir", path |-> Up(Shim, i), to |-> <<>>]
                 \in MemberType
    <3>1. Up(Shim, i) \in Seq(Name) /\ Up(Shim, i) # <<>>
      BY <2>1, UpIsPath DEF Path
    <3>2. <<>> \in Seq(Name)
      OBVIOUS
    <3> QED
      BY <3>1, <3>2 DEF MemberType
  <2>3. ShimLayer \in [1..Len(Shim) -> MemberType]
    BY <2>2 DEF ShimLayer
  <2> QED
    BY <2>1, <2>3, SeqDef
<1>3. Load(name).members \in Seq(MemberType)
  <2>1. CASE name.kind = "base"
    <3>1. archive.layers[name.n] \in Seq(MemberType)
      BY <1>1, <2>1, ElementOfSeq
    <3> QED
      BY <2>1, <3>1 DEF Load
  <2>2. CASE name.kind # "base"
    BY <1>2, <2>2 DEF Load
  <2> QED
    BY <2>1, <2>2
<1>4. Load(name) = [there |-> name \in names, members |-> Load(name).members]
  BY DEF Load
<1>5. L!WellMade(Load(name).members)
  <2>1. CASE name.kind = "base"
    <3>1. L!WellMade(archive.layers[name.n])
      <4>1. archive \in Archives \/ Len(archive.layers) = 0
        BY DEF Archived, Empty
      <4> QED
        BY <2>1, <4>1, LayersAssumption
    <3> QED
      BY <2>1, <3>1 DEF Load
  <2>2. CASE name.kind # "base"
    BY <2>2, ShimWellMade DEF Load
  <2> QED
    BY <2>1, <2>2
<1> DEFINE there == name \in names
<1>6. there \in BOOLEAN
  OBVIOUS
<1> HIDE DEF there
<1>7. [there |-> there, members |-> Load(name).members] \in LayerType
  BY <1>3, <1>5, <1>6 DEF LayerType
<1> QED
  BY <1>4, <1>7, Zenon DEF there

LEMMA BeginLayers == BuildInv /\ Begin => LayersInv'
<1> SUFFICES ASSUME BuildInv, Begin PROVE LayersInv'
  OBVIOUS
<1> DEFINE s == P!LayerNames
<1>1. /\ layers' = [i \in 1..Len(s) |-> Load(s[i])] /\ ln = 0
      /\ UNCHANGED <<ln, mn, tree>>
  BY DEF Begin, BuildInv, Archived
<1>2. s \in Seq(AnyName) /\ BaseLayers(s)
  <2>1. LayerName \subseteq AnyName
    BY DEF LayerName, AnyName
  <2>2. /\ manifest.layers \in Seq(AnyName) /\ BaseLayers(manifest.layers)
        /\ docker.layers \in Seq(AnyName) /\ BaseLayers(docker.layers)
    <3>1. manifest.layers \in Seq(LayerName)
      BY DEF BuildInv, PatchInv, NameKinds
    <3>2. manifest.layers \in Seq(AnyName)
      BY <2>1, <3>1
    <3> QED
      BY <3>2 DEF BuildInv, PatchInv, NameKinds, Archived
  <2> QED
    BY <2>2 DEF P!LayerNames
<1> HIDE DEF s
<1>3. Len(s) \in Nat /\ \A i \in 1..Len(s) : s[i] \in AnyName
  BY <1>2, LenProperties, ElementOfSeq
<1>4. ASSUME NEW i \in 1..Len(s) PROVE Load(s[i]) \in LayerType
  <2>1. Archived
    BY DEF BuildInv
  <2> QED
    BY <1>2, <1>3, <2>1, LoadOK DEF BaseLayers
<1>5. layers' \in Seq(LayerType)
  BY <1>1, <1>3, <1>4, SeqDef
<1>6. mn \in Nat \ {0} /\ TreeOK(tree)
  BY DEF BuildInv, LayersInv
<1>7. ln' \in 0..Len(layers')
  BY <1>1, <1>5, LenProperties
<1>8. TreeOK(tree)'
  BY <1>1, <1>6 DEF TreeOK, NodeOK, IsDirIn
<1> QED
  BY <1>1, <1>5, <1>6, <1>7, <1>8 DEF LayersInv

LEMMA StepLayersInv == BuildInv /\ [BuildNext]_allVars => LayersInv'
<1> SUFFICES ASSUME BuildInv, [BuildNext]_allVars PROVE LayersInv'
  OBVIOUS
<1>1. LayersInv
  BY DEF BuildInv
<1>2. CASE Begin
  BY <1>2, BeginLayers
<1>3. CASE ExtractStep
  BY <1>1, <1>3, ExtractLayers DEF ExtractStep
<1>4. CASE UNCHANGED layerVars
  <2>1. UNCHANGED <<layers, ln, mn, tree>>
    BY <1>4 DEF layerVars
  <2>2. TreeOK(tree)'
    BY <1>1, <2>1 DEF LayersInv, TreeOK, NodeOK, IsDirIn
  <2> QED
    BY <1>1, <2>1, <2>2 DEF LayersInv
<1> QED
  BY <1>2, <1>3, <1>4, StepOf

(* Nothing is added before the layers are there, *)
LEMMA StepTarBegun == BuildInv /\ [BuildNext]_allVars => TarBegun'
<1> SUFFICES ASSUME BuildInv, [BuildNext]_allVars PROVE TarBegun'
  OBVIOUS
<1>0. TarBegun /\ TarAllInv /\ LayersInv /\ Archived
  BY DEF BuildInv, TarBegun
<1>1. CASE Order
  <2>1. phase = "extract" /\ phase' = "order" /\ UNCHANGED <<at, depth, out, seen, sym, hot>>
    BY <1>1 DEF Order
  <2>2. PICK first \in Entry : bundle' = Found(first)
    BY <1>1 DEF Order
  <2>3. BundleOK(bundle')
    BY <1>0, <2>2, FoundOK
  <2>4. BundleOK(bundle)'
    BY <2>3 DEF BundleOK, BundleType, TreeLike
  <2>5. TarInit'
    BY <1>0, <2>1 DEF TarBegun, TarInit
  <2>6. TarAllInv'
    BY <2>4, <2>5, TarBegins
  <2> QED
    BY <2>1, <2>6 DEF TarBegun
<1>2. CASE AddStep
  <2>1. TarAllInv' /\ phase' = "order"
    BY <1>0, <1>2, NextTarAll DEF AddStep
  <2> QED
    BY <2>1 DEF TarBegun
<1>3. CASE UNCHANGED tarVars
  <2>1. TarAllInv' /\ UNCHANGED <<bundle, at, depth, out, seen, sym, hot>>
    BY <1>0, <1>3, NextTarAll DEF tarVars, vars
  <2>2. phase' \in {"patch", "extract"} => phase \in {"patch", "extract"}
    BY Zenon DEF BuildNext, Patch, Begin, ExtractStep, Order, AddStep, Mkfs, BootStep, allVars
  <2> QED
    BY <1>0, <2>1, <2>2 DEF TarBegun, TarInit
<1> QED
  BY <1>1, <1>2, <1>3, StepOf

(* and nothing is hot then. *)
LEMMA StepHotFirst == BuildInv /\ [BuildNext]_allVars => HotFirst'
<1> SUFFICES ASSUME BuildInv, [BuildNext]_allVars PROVE HotFirst'
  OBVIOUS
<1>0. TarBegun /\ TarAllInv /\ HotFirst
  BY DEF BuildInv, TarBegun
<1>1. CASE Order
  <2>1. TarInit'
    BY <1>0, <1>1 DEF Order, TarBegun, TarInit
  <2>2. TarInit' => HotFirst'
    BY HotNone, PTL
  <2> QED
    BY <2>1, <2>2
<1>2. CASE AddStep
  BY <1>0, <1>2, NextHot DEF AddStep
<1>3. CASE UNCHANGED tarVars
  <2>1. UNCHANGED <<bundle, at, out, hot>>
    BY <1>3 DEF tarVars, vars
  <2>2. at' \in Nat /\ at' >= at
    BY <1>0, <2>1, TarFacts
  <2> QED
    BY <1>0, <2>1, <2>2, HotKept
<1> QED
  BY <1>1, <1>2, <1>3, StepOf

(* mkfs.erofs makes the image of what has been added; the satellite boots it. *)
LEMMA StepImageBuilt == BuildInv /\ [BuildNext]_allVars => ImageBuilt'
<1> SUFFICES ASSUME BuildInv, [BuildNext]_allVars PROVE ImageBuilt'
  OBVIOUS
<1>0. ImageBuilt /\ PrimerInv /\ TarAllInv
  BY DEF BuildInv, ImageBuilt, TarBegun
<1>1. CASE Mkfs
  <2>0. phase = "order" /\ UNCHANGED <<done, primer, broken, app, tarVars>>
    BY <1>1 DEF Mkfs
  <2>1. PrimerOff(0, 0)
    BY <1>0, <2>0 DEF ImageBuilt
  <2>2. CASE phase' = "failed"
    <3>1. UNCHANGED <<size, want>>
      BY <1>1, <2>2 DEF Mkfs
    <3>2. UNCHANGED primerVars
      BY <2>0, <3>1 DEF primerVars
    <3>3. PrimerInv'
      BY <1>0, <3>2, NextPrimer
    <3> QED
      BY <2>0, <2>1, <2>2, <3>1, <3>3 DEF ImageBuilt, PrimerOff
  <2>3. CASE phase' # "failed"
    <3>1. /\ meta' \in 0..MaxMeta /\ phase' = "boot"
          /\ size' = EndOf(Len(out), meta') /\ want' = Boundary(size', hot)
      BY <1>1, <2>3 DEF Mkfs
    <3>2. meta' \in Nat
      BY <3>1, BuildAssumption
    <3>3. UNCHANGED <<bundle, out, hot>>
      BY <2>0 DEF tarVars, vars
    <3>4. size' = EndOf(Len(out), meta)'
      <4>1. Blocks' = Blocks
        BY <3>3 DEF Blocks, IsFile
      <4>2. EndOf(Len(out), meta)' = EndOf(Len(out), meta')
        BY <3>3, <4>1 DEF EndOf
      <4> QED
        BY <3>1, <4>2
    <3>5. want' = Boundary(size, hot)'
      BY <3>1, <3>3 DEF Boundary
    <3>6. PrimerInv'
      <4>1. size' \in Nat
        BY <1>0, <3>1, <3>2, ImageSize
      <4>2. want' \in Nat
        <5>1. hot \in Nat
          BY <1>0 DEF TarAllInv, TarInv, TypeOK
        <5>2. 0 \in 0..Headroom /\ 0 \in 0..size' /\ 0 <= hot + 0
          BY <4>1, <5>1, PrimerAssumption
        <5>3. Boundary(size', hot) \in 0..size'
          BY <4>1, <5>1, <5>2, BoundaryCovers
        <5> QED
          BY <3>1, <4>1, <5>3
      <4>3. PrimerOff(size, want)'
        BY <2>0, <2>1 DEF PrimerOff
      <4>4. PrimerInit'
        BY <4>1, <4>2, <4>3 DEF PrimerInit
      <4>5. PrimerInit' => PrimerInv'
        BY InitPrimer, PTL
      <4> QED
        BY <4>4, <4>5
    <3> QED
      BY <3>1, <3>2, <3>4, <3>5, <3>6 DEF ImageBuilt
  <2> QED
    BY <2>2, <2>3
<1>2. CASE BootStep
  <2>1. phase = "boot" /\ phase' = "boot" /\ Boot /\ UNCHANGED <<meta, tarVars>>
    BY <1>2 DEF BootStep
  <2>2. UNCHANGED <<size, want>>
    BY <2>1 DEF Boot, Open, Read, Close, StartApp
  <2>3. PrimerInv'
    BY <1>0, <2>1, NextPrimer
  <2> QED
    BY <1>0, <2>1, <2>2, <2>3, BuiltStays DEF ImageBuilt
<1>3. CASE UNCHANGED <<primerVars, meta>>
  <2>1. UNCHANGED <<size, want, done, primer, broken, app, meta>>
    BY <1>3 DEF primerVars
  <2>2. PrimerInv'
    BY <1>0, <1>3, NextPrimer
  <2>3. CASE phase' # "boot"
    <3>1. phase # "boot"
      BY <2>3 DEF BuildNext, Patch, Begin, ExtractStep, Order, AddStep, Mkfs, BootStep, allVars
    <3> QED
      BY <1>0, <2>1, <2>2, <2>3, <3>1 DEF ImageBuilt, PrimerOff
  <2>4. CASE phase' = "boot"
    <3>1. Mkfs \/ (phase = "boot" /\ UNCHANGED tarVars)
      BY <2>4 DEF BuildNext, Patch, Begin, ExtractStep, Order, AddStep, BootStep, allVars
    <3>2. CASE phase = "boot" /\ UNCHANGED tarVars
      BY <1>0, <2>1, <2>2, <2>4, <3>2, BuiltStays DEF ImageBuilt
    <3> QED
      BY <1>1, <3>1, <3>2
  <2> QED
    BY <2>3, <2>4
<1> QED
  BY <1>1, <1>2, <1>3, StepOf

LEMMA StepPatchInv == BuildInv /\ [BuildNext]_allVars => PatchInv'
BY NextBuild DEF BuildInv

(* On the whole way, for any bundles and archives: *)
THEOREM BuildInvariance == BuildSpec => []BuildInv
<1>1. BuildInv /\ [BuildNext]_allVars => BuildInv'
  BY StepPatchInv, StepArchived, StepLayersInv, StepTarBegun, StepHotFirst, StepImageBuilt
     DEF BuildInv
<1> QED
  BY <1>1, InitBuildInv, PTL DEF BuildSpec

(* what the layers make is a tree, so that the tar of an image is in order   *)
(* whatever layers it has.                                                   *)
LEMMA ImageInOrder == BuildSpec => [](Once /\ ParentsFirst /\ NothingBelowLinks /\ FilesComplete)
<1>1. BuildInv => Once /\ ParentsFirst /\ NothingBelowLinks /\ FilesComplete
  BY DealtComplete, TarOnce DEF BuildInv, TarBegun, TarAllInv, TarInv
<1> QED
  BY <1>1, BuildInvariance, PTL

(* No string is in the tar twice, whatever the tiers repeat, and a path only *)
(* when a tier spells it otherwise than the walk does.                       *)
THEOREM AddedOnce == BuildSpec => []Once
BY ImageInOrder, PTL

(* The parents of a member precede it, in any order of the tiers. *)
THEOREM InOrder == BuildSpec => []ParentsFirst
BY ImageInOrder, PTL

(* No member lies below a symbolic link, by whatever path tier A names it. *)
THEOREM InPlace == BuildSpec => []NothingBelowLinks
BY ImageInOrder, PTL

(* Every file and every link of a recorded bundle is in the finished tar. *)
THEOREM NoFileLost == BuildSpec => []FilesComplete
BY ImageInOrder, PTL

(* Whatever the size of the image and the boundary turn out to be, launch.sh *)
(* runs only after the primer has read up to there, unless a read failed.    *)
THEOREM BootedPrimed == BuildSpec => []AppFindsPrimed
<1>1. BuildInv => AppFindsPrimed
  BY DEF BuildInv, ImageBuilt, PrimerInv, PrimerTypeOK, Progress, Goal, Lower, AppFindsPrimed
<1> QED
  BY <1>1, BuildInvariance, PTL

(* Of all the steps from an archive to a satellite, only those of the        *)
(* extraction, and Begin, are about layers.                                  *)
LEMMA BeginMeant == BuildInv /\ LayersMeant /\ Begin => LayersMeant'
<1> SUFFICES ASSUME BuildInv, LayersMeant, Begin PROVE LayersMeant'
  OBVIOUS
<1>1. ln = 0 /\ UNCHANGED <<ln, mn, tree, text, torn, lower>>
  BY DEF Begin, BuildInv, Archived
<1>2. ~torn
  BY <1>1 DEF LayersMeant, TornWhy
<1>3. FilesNumbered'
  BY <1>1 DEF LayersMeant, FilesNumbered
<1> QED
  BY <1>1, <1>2, <1>3 DEF LayersMeant, MeansSofar, SourcesKnown, TornWhy

LEMMA StepMeant == BuildInv /\ BuildInv' /\ LayersMeant /\ [BuildNext]_allVars => LayersMeant'
<1> SUFFICES ASSUME BuildInv, BuildInv', LayersMeant, [BuildNext]_allVars PROVE LayersMeant'
  OBVIOUS
<1>1. LayersInv /\ LayersInv'
  BY DEF BuildInv
<1>2. CASE Begin
  BY <1>2, BeginMeant
<1>3. CASE ExtractStep
  BY <1>1, <1>3, ExtractMeant DEF ExtractStep
<1>4. CASE UNCHANGED layerVars
  <2>1. UNCHANGED <<layers, ln, mn, tree, text, torn, lower>>
    BY <1>4 DEF layerVars
  <2>2. K' = K
    BY <2>1, SameLayer
  <2> QED
    BY <2>1, <2>2 DEF LayersMeant, FilesNumbered, MeansSofar, SourcesKnown, TornWhy
<1> QED
  BY <1>2, <1>3, <1>4, StepOf

(* When all members are applied, what has been made so far is what is meant. *)
LEMMA MeantOverlaid == LayersInv /\ LayersMeant => LayersOverlaid
<1> SUFFICES ASSUME LayersInv, LayersMeant PROVE LayersOverlaid
  OBVIOUS
<1>1. L!TornByClash
  BY DEF LayersMeant, TornWhy, L!TornByClash, K
<1>2. L!Overlaid
  <2>1. SUFFICES ASSUME ln > 0, L!Applied, ~torn, ~L!Odd(lower, L!Members)
                 PROVE  L!View(tree, text) = L!Overlay(L!View(lower.tree, lower.text), L!Members, ln)
    BY DEF L!Overlaid
  <2>2. LayerOK(K) /\ mn \in Nat /\ mn > Len(K) /\ ~L!Odd(lower, K)
    BY <2>1, Here DEF K, L!Applied
  <2>3. Inodes(mn, ln, lower, tree, text) /\ Sofar(K, mn, ln, lower, tree, text)
    BY <2>1, <2>2 DEF LayersMeant, FilesNumbered, MeansSofar
  <2>4. L!View(tree, text) = L!Overlay(L!View(lower.tree, lower.text), K, ln)
    BY <2>2, <2>3, LayerMeans
  <2> QED
    BY <2>4 DEF K
<1> QED
  BY <1>1, <1>2 DEF LayersOverlaid

(* extract_image, for any archives of well-made layers: what the members of  *)
(* a layer make of the tree, one after the other, is what the layer means,   *)
(* whatever their order, unless the layer is odd; and the extraction ends in *)
(* an exception only for a layer that is not found or that clashes.          *)
THEOREM TreeOverlaid == BuildSpec => []LayersOverlaid
<1>1. BuildInit => LayersMeant
  BY InitBuildInv, NoLayerMeant DEF BuildInit, BuildInv
<1>2. BuildInv /\ BuildInv' /\ LayersMeant /\ [BuildNext]_allVars => LayersMeant'
  BY StepMeant
<1>3. BuildInv /\ LayersMeant => LayersOverlaid
  BY MeantOverlaid DEF BuildInv
<1> QED
  BY <1>1, <1>2, <1>3, BuildInvariance, PTL DEF BuildSpec

(* A hot file ends within the bytes of the hot files and what comes between. *)
LEMMA HotEnds ==
  ASSUME TarAllInv, HotFirst, NEW i \in Hot, NEW n \in Nat
  PROVE  /\ Padding \in Nat
         /\ EndOf(i, n) \in 0..EndOf(Len(out), n)
         /\ EndOf(i, n) <= hot + (n * Block + Padding)
<1> DEFINE l == Len(out)
           B == Sums(Blocks, l)
           H == Sums(HotSizes, l)
           G == Sums(Paddings, l)
<1>0. l \in Nat /\ i \in 1..l /\ n * Block \in Nat
  BY TarFacts, PrimerAssumption DEF Hot
<1>1. \A k \in 1..l : Blocks[k] \in Nat /\ HotSizes[k] \in Nat
  BY BlocksNat, HotSumsNat
<1>2. \A k \in 1..l : Paddings[k] \in Nat
  <2> SUFFICES ASSUME NEW k \in 1..l PROVE Paddings[k] \in Nat
    OBVIOUS
  <2>1. CASE k \in Hot
    <3> DEFINE x == bundle.size[out[k].path]
    <3>1. x \in Nat /\ Blocks[k] = RoundUp(x) /\ Paddings[k] = Blocks[k] - x
      <4>1. IsFile(k) /\ x \in Nat
        BY <2>1, TarFacts DEF Hot
      <4> HIDE DEF x
      <4>2. Blocks[k] = RoundUp(x)
        BY <4>1 DEF Blocks, x
      <4>3. Paddings[k] = Blocks[k] - x
        BY <2>1 DEF Paddings, x
      <4> QED
        BY <4>1, <4>2, <4>3
    <3> HIDE DEF x
    <3>2. RoundUp(x) \in Nat /\ x <= RoundUp(x)
      BY <3>1, RoundUpBounds
    <3> QED
      BY <3>1, <3>2
  <2>2. CASE k \notin Hot
    BY <2>2 DEF Paddings
  <2> QED
    BY <2>1, <2>2
<1>3. ASSUME NEW k \in 1..i PROVE Blocks[k] = HotSizes[k] + Paddings[k]
  <2>1. k \in 1..l
    BY <1>0
  <2>2. CASE k \in Hot
    BY <1>1, <2>1, <2>2, TarFacts DEF HotSizes, Paddings
  <2>3. CASE k \notin Hot
    <3>1. ~IsFile(k)
      BY <1>0, <2>1, <2>3 DEF HotFirst
    <3> QED
      BY <2>1, <2>3, <3>1 DEF Blocks, HotSizes, Paddings
  <2> QED
    BY <2>2, <2>3
<1>4. B[i] = H[i] + G[i]
  <2>1. /\ \A k \in 1..l : HotSizes[k] \in Nat /\ Paddings[k] \in Nat
        /\ \A k \in 1..i : Blocks[k] = HotSizes[k] + Paddings[k]
    BY <1>1, <1>2, <1>3
  <2>2. i \in 0..l
    BY <1>0
  <2> DEFINE u == Blocks
             v == HotSizes
             w == Paddings
  <2>3. /\ \A k \in 1..l : v[k] \in Nat /\ w[k] \in Nat
        /\ \A k \in 1..i : u[k] = v[k] + w[k]
    BY <2>1
  <2> HIDE DEF l, u, v, w
  <2>4. Sums(u, l)[i] = Sums(v, l)[i] + Sums(w, l)[i]
    BY <1>0, <2>2, <2>3, SumsAdd
  <2> QED
    BY <2>4 DEF u, v, w
<1>5. B[i] \in Nat /\ B[l] \in Nat /\ B[i] <= B[l]
  BY <1>0, <1>1, SumsNat, SumsGrow
<1>6. H[i] \in Nat /\ H[l] \in Nat /\ H[i] <= H[l]
  BY <1>0, <1>1, SumsNat, SumsGrow
<1>7. G[i] \in Nat /\ G[l] \in Nat /\ G[i] <= G[l]
  BY <1>0, <1>2, SumsNat, SumsGrow
<1>8. hot = H[l] /\ Padding = G[l]
  BY DEF HotFirst, Padding
<1>9. EndOf(i, n) = n * Block + B[i] /\ EndOf(l, n) = n * Block + B[l]
  BY DEF EndOf
<1> HIDE DEF l, B, H, G
<1>10. EndOf(i, n) \in 0..EndOf(l, n) /\ EndOf(i, n) <= hot + (n * Block + Padding)
  BY <1>0, <1>4, <1>5, <1>6, <1>7, <1>8, <1>9
<1> QED
  BY <1>7, <1>8, <1>10 DEF l

(* When launch.sh runs the files of tier A are in memory, unless a read has  *)
(* failed, or the metadata before and the padding between the hot files are  *)
(* more than the headroom, or a path is there twice: whatever layers, tiers  *)
(* and sizes of files.                                                       *)
THEOREM HotPrimed == BuildSpec => []HotFilesPrimed
<1>1. BuildInv => HotFilesPrimed
  <2> SUFFICES ASSUME BuildInv, app = "started", ~broken, ~PathTwice,
                      meta * Block + Padding <= Headroom,
                      NEW i \in Hot
               PROVE  EndOf(i, meta) <= done
    BY DEF HotFilesPrimed
  <2>1. ImageBuilt /\ TarAllInv /\ HotFirst
    BY DEF BuildInv, TarBegun
  <2>2. meta \in Nat /\ size = EndOf(Len(out), meta) /\ want = Boundary(size, hot)
    BY <2>1 DEF ImageBuilt, PrimerOff
  <2> DEFINE end == EndOf(i, meta)
             extra == meta * Block + Padding
  <2>3. Padding \in Nat /\ end \in 0..size /\ end <= hot + extra
    BY <2>1, <2>2, HotEnds
  <2>4. size \in Nat /\ hot \in Nat
    BY <2>1, <2>2, ImageSize DEF TarAllInv, TarInv, TypeOK
  <2>5. extra \in 0..Headroom
    <3>1. meta * Block \in Nat
      BY <2>2, PrimerAssumption
    <3> QED
      BY <2>3, <3>1, PrimerAssumption
  <2> HIDE DEF end, extra
  <2>6. want \in 0..size /\ end <= want
    BY <2>2, <2>3, <2>4, <2>5, BoundaryCovers
  <2>7. done = IF want = 0 THEN size ELSE Lower(want, size)
    BY <2>1 DEF ImageBuilt, PrimerInv, Progress, Goal
  <2> QED
    BY <2>3, <2>4, <2>6, <2>7 DEF Lower, end
<1> QED
  BY <1>1, BuildInvariance, PTL

=============================================================================
