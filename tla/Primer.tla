------------------------------- MODULE Primer -------------------------------
(***************************************************************************)
(* The heat boundary of build_image (satecode/runtime.py), sat_primer, the *)
(* C program that reads the image up to it, and the two systemd units that *)
(* let the application wait for it (satecode/codegen.py).                  *)
(***************************************************************************)
EXTENDS Integers

CONSTANTS
  Block,     \* the block size of the image
  Headroom,  \* boundary_headroom
  Buf        \* the size of the primer's buffer

ASSUME PrimerAssumption == Block \in Nat \ {0} /\ Headroom \in Nat /\ Buf \in Nat \ {0}

VARIABLES
  size,    \* of the image
  want,    \* the primer's argument
  done,    \* the bytes it has read
  primer,  \* the primer and its unit: "off", "read", "active" or "failed"
  broken,  \* history: a read has failed
  app      \* the unit of the application: "off", "started", or "failed"

primerVars == <<size, want, done, primer, broken, app>>

Lower(a, b) == IF a <= b THEN a ELSE b

RoundUp(n) == ((n + Block - 1) \div Block) * Block

(* A plausible bug: the files are taken to begin where the image does. *)
Boundary_FromStart(n, hot) == Lower(n, RoundUp(hot))

(* The boundary of an image of n bytes with so many in its hot files. *)
Boundary(n, hot) == Lower(n, RoundUp(hot) + Headroom)

PrimerOff(n, w) ==
  size = n /\ want = w /\ done = 0 /\ primer = "off" /\ broken = FALSE /\ app = "off"

PrimerInit == \E n, w \in Nat : PrimerOff(n, w)

-----------------------------------------------------------------------------
(* The image may be missing; a unit without the program fails as well. *)
Open ==
  /\ primer = "off"
  /\ primer' \in {"read", "failed"}
  /\ UNCHANGED <<size, want, done, broken, app>>

(* No argument, or 0, means the whole image. *)
Chunk == IF want = 0 THEN Buf ELSE Lower(Buf, want - done)

(* A read returns some bytes, as long as there are any; *)
Read ==
  /\ primer = "read" /\ Chunk > 0
  /\ \E n \in 1..Lower(Chunk, size - done) : done' = done + n
  /\ UNCHANGED <<size, want, primer, broken, app>>

(* with nothing left to read, or an error, the primer ends, and exits with 0. *)
Close ==
  /\ primer = "read"
  /\ \/ (Chunk = 0 \/ done >= size) /\ UNCHANGED broken
     \/ Chunk > 0 /\ broken' = TRUE
  /\ primer' = "active"
  /\ UNCHANGED <<size, want, done, app>>

(* A plausible bug: the unit is started beside the primer's (Wants=). *)
StartApp_Beside ==
  /\ app = "off"
  /\ app' = IF primer = "failed" THEN "failed" ELSE "started"
  /\ UNCHANGED <<size, want, done, primer, broken>>

(* After= and Requires=: launch.sh runs after the primer, or not at all. *)
StartApp ==
  /\ app = "off" /\ primer \in {"active", "failed"}
  /\ app' = IF primer = "active" THEN "started" ELSE "failed"
  /\ UNCHANGED <<size, want, done, primer, broken>>

Boot == Open \/ Read \/ Close \/ StartApp

PrimerSpec == PrimerInit /\ [][Boot]_primerVars /\ WF_primerVars(Boot)

-----------------------------------------------------------------------------
(* Properties *)

PrimerTypeOK ==
  /\ {size, want, done} \subseteq Nat
  /\ primer \in {"off", "read", "active", "failed"} /\ app \in {"off", "started", "failed"}
  /\ broken \in BOOLEAN

(* When launch.sh runs, the primer has read all it was to read, of the image *)
(* or up to the boundary, in however many pieces, and nothing beyond; unless *)
(* a read has failed, which stops nobody.                                    *)
AppFindsPrimed ==
  /\ done <= size /\ (want > 0 => done <= want)
  /\ app = "started" /\ ~broken => done = IF want = 0 THEN size ELSE Lower(want, size)
=============================================================================
