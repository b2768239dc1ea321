----------------------------- MODULE BuildImage -----------------------------
(***************************************************************************)
(* build_image of satecode/runtime.py with what comes before and after it: *)
(* an image archive, patched or not, is extracted (source_kind "image"),   *)
(* or there is a bundle on disk; the files are ordered (OrderedTar);       *)
(* mkfs.erofs makes the image; the boundary goes to the primer's unit; the *)
(* satellite boots.                                                        *)
(*                                                                         *)
(* mkfs.erofs (external) keeps the order of the tar: after some blocks of  *)
(* its own come the files, each in blocks of its own.                      *)
(***************************************************************************)
EXTENDS OrderedTar, Primer, SequencesExt, TLC

CONSTANTS
  Archives,  \* archives to begin with: layout, command, Dockerfile, layers, patches to make
  Shim,      \* the path of the wrapper in an image
  MaxMeta    \* bound on the blocks of metadata

(* The member of a layer; a marker of an opaque directory may be at the top. *)
MemberType ==
  {e \in [kind : {"dir", "link", "hard", "file", "white", "opaque"},
          path : Seq(Name), to : Seq(Name)] : e.path = <<>> => e.kind = "opaque"}

(* The configuration of an image, and a Dockerfile, have an entry point and  *)
(* a command.                                                                *)
ASSUME BuildAssumption ==
  /\ Shim \in Path /\ MaxMeta \in Nat
  /\ \A x \in Archives :
       /\ x.layout \in {"oci", "docker", "dual"} /\ x.layers \in Seq(Seq(MemberType))
       /\ \A c \in {x.command, x.dockerfile} : c = [ep |-> c.ep, cmd |-> c.cmd]

VARIABLES
  phase,    \* "patch", "extract", "order", "boot", or "failed"
  archive,  \* the archive it began with
  layers, ln, mn, tree, text, torn, lower,
  layout, names, manifest, docker, config, original, dockerfile, patches,
  meta      \* history: blocks before the first file

L == INSTANCE Layers
P == INSTANCE Patcher

ASSUME LayersAssumption ==
  \A x \in Archives : \A i \in 1..Len(x.layers) : L!WellMade(x.layers[i])

tarVars == vars
layerVars == <<layers, ln, mn, tree, text, torn, lower>>
patchVars == <<layout, names, manifest, docker, config, original, dockerfile, patches>>
allVars == <<phase, archive, layerVars, patchVars, primerVars, meta, tarVars>>

NoBundle == [kind |-> <<>>, real |-> {}, size |-> <<>>, tierA |-> <<>>, tierB |-> <<>>]

Empty == [layout |-> "oci", command |-> P!Nothing, dockerfile |-> P!Nothing,
          layers |-> <<>>, patches |-> 0]

TarInit == at = 1 /\ depth = 0 /\ out = <<>> /\ seen = {} /\ sym = {} /\ hot = 0

BuildInit ==
  /\ \/ bundle \in Bundles /\ phase = "order" /\ archive = Empty
     \/ bundle = NoBundle /\ phase = "patch" /\ archive \in Archives
  /\ TarInit
  /\ layers = <<>> /\ L!LayersInit
  /\ P!PatcherInit(archive.layout, Len(archive.layers), archive.command, archive.dockerfile)
  /\ PrimerOff(0, 0) /\ meta = 0

-----------------------------------------------------------------------------
Patch ==
  /\ phase = "patch" /\ patches < archive.patches /\ P!Patch
  /\ UNCHANGED <<phase, archive, layerVars, primerVars, meta, tarVars>>

(* _make_layer: the directories of the wrapper's path and the wrapper. *)
ShimLayer ==
  [i \in 1..Len(Shim) |->
     [kind |-> IF i = Len(Shim) THEN "file" ELSE "dir", path |-> Up(Shim, i), to |-> <<>>]]

Load(name) ==
  [there |-> name \in names,
   members |-> IF name.kind = "base" THEN archive.layers[name.n] ELSE ShimLayer]

Begin ==
  /\ phase = "patch" /\ patches = archive.patches
  /\ phase' = "extract"
  /\ layers' = [i \in 1..Len(P!LayerNames) |-> Load(P!LayerNames[i])]
  /\ UNCHANGED <<archive, ln, mn, tree, text, torn, lower, patchVars, primerVars, meta, tarVars>>

ExtractStep ==
  /\ phase = "extract" /\ L!Extract
  /\ phase' = IF torn' THEN "failed" ELSE "extract"
  /\ UNCHANGED <<archive, patchVars, primerVars, meta, tarVars>>

(* The tiers come from a file that may list any path first, in any form; the *)
(* rest of what is on disk follows, in the order of the walk.                *)
Found(first) ==
  LET files == {Plain(p) : p \in {q \in DOMAIN tree : tree[q].kind # "dir"}} \ {first}
  IN  [kind |-> [p \in DOMAIN tree |-> tree[p].kind], real |-> DOMAIN tree,
       size |-> [p \in DOMAIN tree |-> Len(p)],
       tierA |-> <<first>>,
       tierB |-> SetToSeq(files)]

Order ==
  /\ phase = "extract" /\ L!Extracted
  /\ \E p \in DOMAIN tree \union {<<>>}, form \in Forms :
       LET first == [path |-> p, form |-> form] IN first \in Entry /\ bundle' = Found(first)
  /\ phase' = "order"
  /\ UNCHANGED <<at, depth, out, seen, sym, hot>>
  /\ UNCHANGED <<archive, layerVars, patchVars, primerVars, meta>>

AddStep ==
  /\ phase = "order" /\ Next
  /\ UNCHANGED <<phase, archive, layerVars, patchVars, primerVars, meta>>

(* The sums of w[1], ..., w[k], for each k up to n. *)
Sums(w, n) == LET sum[k \in 0..n] == IF k = 0 THEN 0 ELSE sum[k - 1] + w[k] IN sum

IsFile(k) == bundle.kind[out[k].path] = "file"
Blocks == [k \in 1..Len(out) |-> IF IsFile(k) THEN RoundUp(bundle.size[out[k].path]) ELSE 0]

(* Where the k-th member ends in the image, with n blocks before the first. *)
EndOf(k, n) == n * Block + Sums(Blocks, Len(out))[k]

(* mkfs.erofs may fail; emit writes the boundary into the unit. *)
Mkfs ==
  /\ phase = "order" /\ ~Adding
  /\ \/ /\ meta' \in 0..MaxMeta
        /\ size' = EndOf(Len(out), meta') /\ want' = Boundary(size', hot)
        /\ phase' = "boot"
     \/ phase' = "failed" /\ UNCHANGED <<meta, size, want>>
  /\ UNCHANGED <<archive, layerVars, patchVars, done, primer, broken, app, tarVars>>

BootStep ==
  /\ phase = "boot" /\ Boot
  /\ UNCHANGED <<phase, archive, layerVars, patchVars, meta, tarVars>>

BuildNext == Patch \/ Begin \/ ExtractStep \/ Order \/ AddStep \/ Mkfs \/ BootStep

BuildSpec == BuildInit /\ [][BuildNext]_allVars /\ WF_allVars(BuildNext)

-----------------------------------------------------------------------------
(* Properties; those of the components hold along the whole way. *)

(* extract_image: a layer makes of the tree what it means, unless it is one  *)
(* of the odd ones that Layers names; an exception ends the extraction only  *)
(* for a layer that is not found, or that clashes with what is there.        *)
LayersOverlaid == L!Overlaid /\ L!TornByClash

(* ImagePatcher.patch: a container of an image patched once runs what one of *)
(* the original image runs.                                                  *)
RunsOriginal == P!RunsOriginal

(* ImagePatcher.patch: the manifests of a patched archive name what is in    *)
(* it, except the layers that are added to the docker layout.                *)
NamesResolve == P!NamesResolve

(* When launch.sh runs, every file of tier A is in the page cache, in the    *)
(* blocks that mkfs.erofs gave it, provided that metadata and the padding of *)
(* the hot files fit in the headroom, and no read has failed: hot_bytes      *)
(* counts neither.  Of a path that is in the tar twice mkfs.erofs keeps the  *)
(* last, which may be one of tier B: then nothing is said.                   *)
PathTwice == \E i, j \in 1..Len(out) : i # j /\ out[i].path = out[j].path

Hot == {k \in 1..Len(out) : IsFile(k) /\ out[k] \in Listed(bundle.tierA)}
Paddings == [k \in 1..Len(out) |-> IF k \in Hot THEN Blocks[k] - bundle.size[out[k].path] ELSE 0]
Padding == Sums(Paddings, Len(out))[Len(out)]

HotFilesPrimed ==
  (app = "started" /\ ~broken /\ ~PathTwice /\ meta * Block + Padding <= Headroom) =>
    \A i \in Hot : EndOf(i, meta) <= done
=============================================================================
