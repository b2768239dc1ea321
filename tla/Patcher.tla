------------------------------ MODULE Patcher ------------------------------
(***************************************************************************)
(* ImagePatcher.patch of satecode/runtime.py: an image archive gets a      *)
(* layer with the wrapper, and a configuration that starts it and has the  *)
(* original command in its environment.  Blobs are members of the archive, *)
(* and manifests name them; a name is the kind of a blob and the number of *)
(* the patch that wrote it, 0 for the original ones.                       *)
(*                                                                         *)
(* An archive has the OCI layout, that of docker save ("docker"), or both  *)
(* ("dual").  Only the first image in it is looked at.  The digest of a    *)
(* blob leads to its file in blobs/; written as it is into the manifest of *)
(* the docker layout, it is the name of no member.                         *)
(***************************************************************************)
EXTENDS Integers, Sequences

VARIABLES
  layout,
  names,     \* the blobs in the archive
  manifest,  \* the OCI manifest: which one index.json names, its config and layers
  docker,    \* manifest.json: config and layers
  config,    \* the content of the image's configuration
  original,  \* history: the configuration before any patch
  dockerfile,\* ENTRYPOINT and CMD of the Dockerfile given, empty if there is none
  patches    \* how often it has been patched

patchVars == <<layout, names, manifest, docker, config, original, dockerfile, patches>>

Blob(kind, n) == [kind |-> kind, n |-> n]
Digest(n) == [kind |-> "digest", n |-> n]
Base(k) == [i \in 1..k |-> [kind |-> "base", n |-> i]]

Wrapper == <<"python3", "agent.py">>
Nothing == [ep |-> <<>>, cmd |-> <<>>]

(* An archive of k layers, not patched, with entry point and command c. *)
PatcherInit(l, k, c, d) ==
  /\ layout = l /\ config = [ep |-> c.ep, cmd |-> c.cmd, orig |-> Nothing]
  /\ names = {Base(k)[i] : i \in 1..k} \union {Blob("config", 0)}
               \union (IF l = "docker" THEN {} ELSE {Blob("manifest", 0)})
  /\ manifest = [at |-> Blob("manifest", 0), config |-> Blob("config", 0), layers |-> Base(k)]
  /\ docker = [config |-> Blob("config", 0), layers |-> Base(k)]
  /\ original = c /\ dockerfile = d /\ patches = 0

(* The Dockerfile counts only for an image that says nothing. *)
Command ==
  IF config.ep = <<>> /\ config.cmd = <<>> THEN dockerfile
  ELSE [ep |-> config.ep, cmd |-> config.cmd]

(* A plausible bug: the configuration is read after it has been rewritten. *)
Wrapped_ReadLate == [ep |-> Wrapper, cmd |-> <<>>, orig |-> [ep |-> Wrapper, cmd |-> <<>>]]

(* _update_config; whether the image is patched already is not looked at. *)
Wrapped == [ep |-> Wrapper, cmd |-> <<>>, orig |-> Command]

(* A plausible bug: manifest.json beside the OCI layout is left as it is. *)
ApplyOci_OnlyIndex(n) ==
  /\ manifest' = [at |-> Blob("manifest", n), config |-> Blob("config", n),
                  layers |-> Append(manifest.layers, Blob("layer", n))]
  /\ UNCHANGED docker

(* _apply_oci *)
ApplyOci(n) ==
  /\ manifest' = [at |-> Blob("manifest", n), config |-> Blob("config", n),
                  layers |-> Append(manifest.layers, Blob("layer", n))]
  /\ docker' = IF layout = "oci" THEN docker
               ELSE [config |-> Blob("config", n),
                     layers |-> Append(docker.layers, Blob("layer", n))]

(* _apply_docker *)
ApplyDocker(n) ==
  /\ docker' = [config |-> Blob("config", n), layers |-> Append(docker.layers, Digest(n))]
  /\ UNCHANGED manifest

(* The new blobs are there before the old ones are removed.  The output is   *)
(* the image of the next patch.                                              *)
Patch ==
  LET n == patches + 1
      oci == layout # "docker"
      old == IF oci THEN {manifest.config, manifest.at} ELSE {docker.config}
  IN  /\ patches' = n
      /\ config' = Wrapped
      /\ names' = (names \ old) \union {Blob("layer", n), Blob("config", n)}
                    \union (IF oci THEN {Blob("manifest", n)} ELSE {})
      /\ IF oci THEN ApplyOci(n) ELSE ApplyDocker(n)
      /\ UNCHANGED <<layout, original, dockerfile>>

(* extract_image goes by the OCI layout if there is one. *)
LayerNames == IF layout = "docker" THEN docker.layers ELSE manifest.layers

-----------------------------------------------------------------------------
(* What a container of the image runs, given the arguments of docker run:    *)
(* the wrapper puts them in the place of ORIGINAL_CMD.                       *)
Or(args, cmd) == IF args = <<>> THEN cmd ELSE args
Runs(c, args) ==
  IF c.ep = Wrapper THEN c.orig.ep \o Or(args, c.orig.cmd) ELSE c.ep \o Or(args, c.cmd)

(* A container of an image that has been patched once runs what the original *)
(* ran, whatever arguments it is given; an image that says nothing runs what *)
(* the Dockerfile says.                                                      *)
RunsOriginal ==
  patches = 1 =>
    \A args \in {<<>>, <<"arg">>} :
      Runs(config, args) =
        LET c == IF original = Nothing THEN dockerfile ELSE original
        IN  c.ep \o Or(args, c.cmd)

(* However often an archive is patched, all that its manifests name is in    *)
(* it, and both manifests of a dual archive name the same; only the layers   *)
(* added to the docker layout are not found under their names.               *)
NamesResolve ==
  LET named(x) == {x.config} \union {x.layers[i] : i \in 1..Len(x.layers)}
  IN  /\ layout # "docker" => named(manifest) \union {manifest.at} \subseteq names
      /\ layout = "dual" => docker = [config |-> manifest.config, layers |-> manifest.layers]
      /\ layout = "docker" => named(docker) \subseteq names \union {Digest(n) : n \in 1..patches}
=============================================================================
