--------------------------- MODULE PipelineProofs ---------------------------
(***************************************************************************)
(* Theorems about the deployment stages, for any number of runs: the types,  *)
(* that no image mixes two seeds, and that the four stages run in order give *)
(* the image, unit and launcher of one seed.                               *)
(*                                                                         *)
(* OneSeed speaks of the end of the four stages.  The invariant says what   *)
(* each stage has left behind when the operator has come that far (Kept),   *)
(* and what a stage that is under way has done (Half).  That a stage may    *)
(* spoil the work of the later ones only while the operator has not come to *)
(* them is what Start's loss of progress gives (Behind).                    *)
(***************************************************************************)
EXTENDS Pipeline, TLAPS

HasSeed == bundle.rootfs # 0 /\ bundle.snapshot = bundle.rootfs
HasSeq == seq.whole /\ seq.seed = bundle.rootfs
HasImage ==
  /\ image.rootfs = bundle.rootfs /\ image.snapshot = bundle.rootfs /\ image.complete
  /\ meta.number = image.number
HasOut == out.unit = meta.number /\ out.launcher = meta.number /\ out.primer

Kept ==
  /\ progress >= 1 => HasSeed
  /\ progress >= 2 => HasSeq
  /\ progress >= 3 => HasImage
  /\ progress >= 4 => HasOut

Behind == stage # "none" => progress < Place[stage]

Half ==
  /\ step = "export" => bundle.rootfs = 0 /\ bundle.snapshot = 0
  /\ step = "checkpoint" => seeds # 0 /\ bundle.rootfs = seeds
  /\ step \in {"write", "undo"} => seq.seed = bundle.rootfs
  /\ step = "undo" => seq.whole
  /\ step = "meta" => image = Packed(images)
  /\ step \in {"launcher", "compile"} => out.unit = meta.number
  /\ step = "compile" => out.launcher = meta.number

(* A bundle, too, is of one seed, whatever rm -rf has left of it. *)
OneBundle ==
  bundle.rootfs # 0 /\ bundle.snapshot # 0 => bundle.snapshot = bundle.rootfs

IInv == TypeOK /\ Kept /\ Behind /\ Half /\ OneBundle /\ NoMixture

-----------------------------------------------------------------------------
LEMMA InitInv == Init => IInv
BY PipelineAssumption
   DEF Init, IInv, TypeOK, Kept, Behind, Half, OneBundle, NoMixture, Stages,
       StepsOf, NoSeq

(* The four stages and their first steps. *)
LEMMA StartInv ==
  ASSUME IInv, NEW s \in Stages, Start(s)
  PROVE  IInv'
<1> USE DEF IInv, Start, files, counts
<1>1. First[s] \in StepsOf[s] /\ Place[s] \in 1..4
  BY DEF Stages, First, StepsOf, Place
<1>2. progress' \in 0..4 /\ progress' <= progress /\ progress' < Place[s]
  BY <1>1 DEF TypeOK, Lower
<1>3. TypeOK'
  <2>1. stage' \in {"none"} \union Stages /\ step' \in StepsOf[stage']
    BY <1>1
  <2>2. runs' \in 0..MaxRuns
    BY PipelineAssumption DEF TypeOK
  <2> QED BY <1>2, <2>1, <2>2 DEF TypeOK
<1>4. Kept'
  BY <1>2 DEF TypeOK, Kept, HasSeed, HasSeq, HasImage, HasOut
<1>5. Behind'
  BY <1>2 DEF Behind
<1>6. Half'
  BY DEF Half, First, Stages
<1>7. OneBundle' /\ NoMixture'
  BY DEF OneBundle, NoMixture
<1> QED BY <1>3, <1>4, <1>5, <1>6, <1>7

(* A step names its stage. *)
LEMMA StageOf ==
  ASSUME TypeOK
  PROVE  /\ step \in {"clear", "export", "checkpoint"} => stage = "seed"
         /\ step \in {"delete", "trace", "open", "write", "undo"} => stage = "record"
         /\ step \in {"mkfs", "meta"} => stage = "build"
         /\ step \in {"read", "unit", "launcher", "compile"} => stage = "emit"
BY DEF TypeOK, Stages, StepsOf

(* seed.sh: the operator has come nowhere. *)
LEMMA SeedInv ==
  ASSUME IInv, Clear \/ Export \/ Checkpoint
  PROVE  IInv'
<1> USE DEF IInv, files, counts, Stages, StepsOf, Place
<1>0. stage = "seed" /\ progress = 0
  BY StageOf DEF Clear, Export, Checkpoint, Behind, TypeOK
<1>1. CASE Clear
  BY <1>0, <1>1 DEF Clear, Goto, TypeOK, Kept, Behind, Half, OneBundle, NoMixture
<1>2. CASE Export
  <2>1. TypeOK'
    <3>1. seeds' \in Nat /\ seeds' = seeds + 1 /\ 0..seeds \subseteq 0..seeds'
      BY <1>2 DEF Export, TypeOK
    <3>2. bundle' \in [there : BOOLEAN, rootfs : 0..seeds', snapshot : 0..seeds']
      <4>1. PICK n \in {0, seeds'} :
              bundle' = [bundle EXCEPT !.there = TRUE, !.rootfs = n]
        BY <1>2 DEF Export
      <4>2. bundle' = [there |-> TRUE, rootfs |-> n, snapshot |-> bundle.snapshot]
        BY <4>1 DEF TypeOK
      <4>3. n \in 0..seeds' /\ bundle.snapshot \in 0..seeds'
        BY <3>1, <4>1 DEF TypeOK
      <4> QED BY <4>2, <4>3
    <3>3. seq' \in [there : BOOLEAN, seed : 0..seeds', whole : BOOLEAN, traced : BOOLEAN]
      BY <1>2, <3>1 DEF Export, TypeOK
    <3>4. image' \in [number : 0..images, rootfs : 0..seeds', snapshot : 0..seeds',
                      order : 0..seeds', complete : BOOLEAN]
      BY <1>2, <3>1 DEF Export, TypeOK
    <3>5. stage' \in {"none"} \union Stages /\ step' \in StepsOf[stage']
      BY <1>0, <1>2 DEF Export, Goto, Failed
    <3> QED BY <1>2, <3>1, <3>2, <3>3, <3>4, <3>5 DEF Export, Goto, Failed, TypeOK
  <2>2. Kept'
    BY <1>0, <1>2 DEF Export, Goto, Failed, TypeOK, Kept, Half
  <2>3. Behind' /\ Half'
    <3>1. bundle.rootfs = 0 /\ bundle.snapshot = 0 /\ seeds' # 0
      BY <1>2 DEF Export, Half, TypeOK
    <3>2. CASE Goto("checkpoint") /\ bundle' = [bundle EXCEPT !.there = TRUE, !.rootfs = seeds']
      BY <1>0, <1>2, <3>1, <3>2 DEF Export, Goto, TypeOK, Behind, Half
    <3>3. CASE Failed
      BY <1>2, <3>3 DEF Export, Failed, Behind, Half
    <3> QED BY <1>2, <3>2, <3>3 DEF Export
  <2>4. OneBundle' /\ NoMixture'
    BY <1>0, <1>2 DEF Export, Goto, Failed, TypeOK, Half, OneBundle, NoMixture
  <2> QED BY <2>1, <2>2, <2>3, <2>4
<1>3. CASE Checkpoint
  <2>1. TypeOK'
    BY <1>0, <1>3 DEF Checkpoint, Succeeded, Failed, TypeOK
  <2>2. Kept'
    BY <1>0, <1>3 DEF Checkpoint, Succeeded, Failed, TypeOK, Kept, Half, HasSeed
  <2>3. Behind' /\ Half'
    BY <1>0, <1>3 DEF Checkpoint, Succeeded, Failed, TypeOK, Behind, Half
  <2>4. OneBundle' /\ NoMixture'
    BY <1>0, <1>3 DEF Checkpoint, Succeeded, Failed, TypeOK, Half, OneBundle, NoMixture
  <2> QED BY <2>1, <2>2, <2>3, <2>4
<1> QED BY <1>1, <1>2, <1>3

(* record.sh: the sequence is not yet claimed. *)
LEMMA RecordInv ==
  ASSUME IInv, Delete \/ Trace \/ Open \/ Write \/ Undo
  PROVE  IInv'
<1> USE DEF IInv, files, counts, Stages, StepsOf, Place
<1>0. stage = "record" /\ progress \in 0..1
  BY StageOf DEF Delete, Trace, Open, Write, Undo, Behind, TypeOK
<1>1. CASE Delete
  BY <1>0, <1>1 DEF Delete, Goto, TypeOK, Kept, Behind, Half, OneBundle, NoMixture, HasSeed
<1>2. CASE Trace
  BY <1>0, <1>2 DEF Trace, Goto, Failed, TypeOK, Kept, Behind, Half, OneBundle,
     NoMixture, HasSeed
<1>3. CASE Open
  <2>1. TypeOK'
    BY <1>0, <1>3 DEF Open, Goto, TypeOK
  <2>2. Kept'
    BY <1>0, <1>3 DEF Open, Goto, TypeOK, Kept, Half, HasSeed
  <2>3. Behind' /\ Half'
    BY <1>0, <1>3 DEF Open, Goto, TypeOK, Behind, Half
  <2>4. OneBundle' /\ NoMixture'
    BY <1>0, <1>3 DEF Open, Goto, TypeOK, Half, OneBundle, NoMixture
  <2> QED BY <2>1, <2>2, <2>3, <2>4
<1>4. CASE Write
  <2>1. seq' \in [there : BOOLEAN, seed : 0..seeds, whole : BOOLEAN, traced : BOOLEAN]
    BY <1>4 DEF Write, TypeOK
  <2>2. TypeOK'
    BY <1>0, <1>4, <2>1 DEF Write, Goto, Failed, TypeOK
  <2>3. seq'.seed = seq.seed /\ (step' = "undo" => seq'.whole)
    BY <1>4 DEF Write, Failed, TypeOK
  <2>4. Half'
    BY <1>0, <1>4, <2>3 DEF Write, Goto, Failed, Half
  <2>5. Kept' /\ Behind'
    BY <1>0, <1>4 DEF Write, Goto, Failed, TypeOK, Kept, Behind, HasSeed
  <2>6. OneBundle' /\ NoMixture'
    BY <1>4 DEF Write, OneBundle, NoMixture
  <2> QED BY <2>2, <2>4, <2>5, <2>6
<1>5. CASE Undo
  BY <1>0, <1>5 DEF Undo, Succeeded, TypeOK, Kept, Behind, Half, OneBundle, NoMixture,
     HasSeed, HasSeq
<1> QED BY <1>1, <1>2, <1>3, <1>4, <1>5

(* build.sh: the image packs the bundle as it is, and it is whole if the     *)
(* operator has come to it in order.                                         *)
LEMMA BuildInv ==
  ASSUME IInv, Mkfs \/ Meta
  PROVE  IInv'
<1> USE DEF IInv, files, counts, Stages, StepsOf, Place
<1>0. stage = "build" /\ progress \in 0..2
  BY StageOf DEF Mkfs, Meta, Behind, TypeOK
<1>1. CASE Mkfs
  <2>1. TypeOK'
    <3>1. images' \in Nat /\ images' = images + 1 /\ 0..images \subseteq 0..images'
      BY <1>1 DEF Mkfs, TypeOK
    <3>2. image' \in [number : 0..images', rootfs : 0..seeds, snapshot : 0..seeds,
                      order : 0..seeds, complete : BOOLEAN]
      <4>1. CASE image' = Packed(images')
        BY <3>1, <4>1 DEF Packed, TypeOK
      <4>2. CASE image' \in {image, Torn(images')}
        <5>1. CASE image' = image
          BY <3>1, <5>1 DEF TypeOK
        <5>2. CASE image' = Torn(images')
          BY <3>1, <5>2 DEF Torn, TypeOK
        <5> QED BY <4>2, <5>1, <5>2
      <4> QED BY <1>1, <4>1, <4>2 DEF Mkfs
    <3>3. stage' \in {"none"} \union Stages /\ step' \in StepsOf[stage']
      BY <1>0, <1>1 DEF Mkfs, Goto, Failed
    <3>4. meta' \in [there : BOOLEAN, number : 0..images']
      BY <1>1, <3>1 DEF Mkfs, TypeOK
    <3>5. out' \in [unit : 0..images', launcher : 0..images', primer : BOOLEAN]
      BY <1>1, <3>1 DEF Mkfs, TypeOK
    <3> QED BY <1>1, <3>1, <3>2, <3>3, <3>4, <3>5 DEF Mkfs, Goto, Failed, TypeOK
  <2>2. Kept'
    BY <1>0, <1>1 DEF Mkfs, Packed, Torn, Goto, Failed, TypeOK, Kept, Half, HasSeed, HasSeq
  <2>3. Behind' /\ Half'
    BY <1>0, <1>1 DEF Mkfs, Packed, Torn, Goto, Failed, TypeOK, Behind, Half
  <2>4. OneBundle' /\ NoMixture'
    BY <1>0, <1>1 DEF Mkfs, Packed, Torn, Goto, Failed, TypeOK, Half, OneBundle, NoMixture
  <2> QED BY <2>1, <2>2, <2>3, <2>4
<1>2. CASE Meta
  <2>1. TypeOK'
    <3>1. meta' \in [there : BOOLEAN, number : 0..images]
      <4>1. images \in 0..images /\ 0 \in 0..images /\ TRUE \in BOOLEAN
        BY DEF TypeOK
      <4>2. meta' \in {meta, [there |-> TRUE, number |-> images], [there |-> TRUE, number |-> 0]}
        BY <1>2 DEF Meta
      <4>3. \A n \in 0..images :
              [there |-> TRUE, number |-> n] \in [there : BOOLEAN, number : 0..images]
        OBVIOUS
      <4> QED BY <4>1, <4>2, <4>3, Zenon DEF TypeOK
    <3>2. progress' \in 0..4
      BY <1>0, <1>2 DEF Meta, Succeeded, Failed, TypeOK
    <3> QED BY <1>0, <1>2, <3>1, <3>2 DEF Meta, Succeeded, Failed, TypeOK
  <2>2. Kept'
    BY <1>0, <1>2 DEF Meta, Packed, Succeeded, Failed, TypeOK, Kept, Half, HasSeed, HasSeq, HasImage
  <2>3. Behind' /\ Half'
    BY <1>0, <1>2 DEF Meta, Packed, Succeeded, Failed, TypeOK, Behind, Half
  <2>4. OneBundle' /\ NoMixture'
    BY <1>0, <1>2 DEF Meta, Packed, Succeeded, Failed, TypeOK, Half, OneBundle, NoMixture
  <2> QED BY <2>1, <2>2, <2>3, <2>4
<1> QED BY <1>1, <1>2

(* emit.sh *)
LEMMA EmitInv ==
  ASSUME IInv, Read \/ Unit \/ Launcher \/ Compile
  PROVE  IInv'
<1> USE DEF IInv, files, counts, Stages, StepsOf, Place
<1>0. stage = "emit" /\ progress \in 0..3
  BY StageOf DEF Read, Unit, Launcher, Compile, Behind, TypeOK
<1>1. CASE Read
  BY <1>0, <1>1 DEF Read, Goto, Failed, TypeOK, Kept, Behind, Half, OneBundle, NoMixture,
     HasSeed, HasSeq, HasImage
<1>2. CASE Unit
  BY <1>0, <1>2 DEF Unit, Goto, Failed, TypeOK, Kept, Behind, Half, OneBundle, NoMixture,
     HasSeed, HasSeq, HasImage
<1>3. CASE Launcher
  BY <1>0, <1>3 DEF Launcher, Goto, Failed, TypeOK, Kept, Behind, Half, OneBundle,
     NoMixture, HasSeed, HasSeq, HasImage
<1>4. CASE Compile
  <2>1. TypeOK'
    <3>1. out' \in [unit : 0..images, launcher : 0..images, primer : BOOLEAN]
      BY <1>4 DEF Compile, TypeOK
    <3>2. progress' \in 0..4
      BY <1>0, <1>4 DEF Compile, Succeeded, Failed, TypeOK
    <3> QED BY <1>0, <1>4, <3>1, <3>2 DEF Compile, Succeeded, Failed, TypeOK
  <2>2. Kept'
    BY <1>0, <1>4
    DEF Compile, Succeeded, Failed, TypeOK, Kept, Half, HasSeed, HasSeq, HasImage, HasOut
  <2>3. Behind' /\ Half'
    BY <1>0, <1>4 DEF Compile, Succeeded, Failed, TypeOK, Behind, Half
  <2>4. OneBundle' /\ NoMixture'
    BY <1>0, <1>4 DEF Compile, Succeeded, Failed, TypeOK, Half, OneBundle, NoMixture
  <2> QED BY <2>1, <2>2, <2>3, <2>4
<1> QED BY <1>1, <1>2, <1>3, <1>4

(* Only a kill during rm -rf changes a file, and then nothing is claimed.    *)
LEMMA KilledInv ==
  ASSUME IInv, Killed
  PROVE  IInv'
<1> USE DEF IInv, files, counts, Stages, StepsOf, Place
<1>1. CASE step = "clear"
  <2>1. stage = "seed" /\ progress = 0
    BY <1>1, StageOf DEF Behind, TypeOK
  <2> QED BY <1>1, <2>1 DEF Killed, Failed, TypeOK, Kept, Behind, Half, OneBundle, NoMixture
<1>2. CASE step # "clear"
  BY <1>2 DEF Killed, Failed, TypeOK, Kept, Behind, Half, OneBundle, NoMixture, HasSeed,
     HasSeq, HasImage, HasOut
<1> QED BY <1>1, <1>2

LEMMA NextInv == IInv /\ [Next]_vars => IInv'
<1> SUFFICES ASSUME IInv, [Next]_vars
             PROVE  IInv'
  OBVIOUS
<1>1. CASE Next
  BY <1>1, StartInv, SeedInv, RecordInv, BuildInv, EmitInv, KilledInv DEF Next
<1>2. CASE UNCHANGED vars
  BY <1>2 DEF vars, files, counts, IInv, TypeOK, Kept, Behind, Half, OneBundle, NoMixture,
     HasSeed, HasSeq, HasImage, HasOut, Packed
<1> QED BY <1>1, <1>2

LEMMA Invariance == Spec => []IInv
BY InitInv, NextInv, PTL DEF Spec

-----------------------------------------------------------------------------
(* The types of the stages' artifacts. *)
THEOREM TypeCorrect == Spec => []TypeOK
BY Invariance, PTL DEF IInv

(* An image never mixes two seeds, whatever stages are run, fail or are      *)
(* killed.                                                                   *)
THEOREM Unmixed == Spec => []NoMixture
BY Invariance, PTL DEF IInv

(* The four stages, in order, give image, unit and launcher of one seed.     *)
THEOREM InOrder == Spec => []OneSeed
<1>1. IInv => OneSeed
  BY DEF IInv, TypeOK, Kept, HasSeed, HasSeq, HasImage, HasOut, OneSeed
<1> QED BY <1>1, Invariance, PTL
=============================================================================
