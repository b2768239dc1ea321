---------------------------- MODULE RecordProofs ----------------------------
(***************************************************************************)
(* Proofs about the access recorder (module Record), for any files,        *)
(* directories, length of the kernel's queue and number of opens: types,   *)
(* each file once, and the order of the first tier, with inotifywait and   *)
(* under strace.                                                           *)
(***************************************************************************)
EXTENDS Record, TLAPS, FiniteSetTheorems, FunctionTheorems, SequenceTheorems,
        NaturalsInduction, WellFoundedInduction

-----------------------------------------------------------------------------
(* The invariant *)

(* The watcher is there for inotify only, and is gone when the log is read;  *)
(* what it watches and has queued is gone with it.                           *)
Watch ==
  /\ tracer = "log" => step \in {"parse", "list", "look"} \union Over
  /\ tracer = "strace" => step \notin {"await", "run", "settle"}
  /\ tracer # "inotify" => watcher = "none"
  /\ step \in {"spawn"} => watcher = "none"
  /\ step \in {"parse", "list", "look"} \union Over => watcher \in {"none", "dead"}
  /\ watcher \in {"none", "dead"} => watched = {} /\ queue = <<>>
  /\ established => watcher \in {"watching", "dead"}
  /\ watcher = "watching" => watched = Dirs
  /\ confirmed => established

(* What the watcher has seen: the lines it has written and those to come. *)
Seen == log \o queue

(* Nothing is opened before the restore; what is seen has been opened.       *)
SeenOpened ==
  /\ ~Started => opens = <<>>
  /\ tracer = "inotify" => Listed(Seen) \subseteq {0} \union early \union Listed(opens)

(* While the watcher watches, no open is missed, *)
AllSeen ==
  confirmed /\ ~overflow /\ watcher = "watching" => Listed(opens) \ early \subseteq Listed(Seen)

(* and what is seen is seen in order, also when the watcher is gone. *)
SeenInOrder ==
  confirmed /\ ~overflow =>
    \A f \in Listed(Seen) \ (early \union {0}) : \A g \in Listed(opens) \ early :
      Before(opens, g, f) => Before(Seen, g, f)

Ascends(t, s) == \A i, j \in 1..Len(t) : i < j => Before(s, t[i], t[j])

IsFirstOf(t, s) == IsInjective(t) /\ Listed(t) = Listed(s) \ {0} /\ Ascends(t, s)

(* The lines of strace are those of the calls, unless some were split. *)
TracedLog ==
  tracer = "strace" =>
    /\ Listed(log) \subseteq {0} \union Listed(traced)
    /\ ~split => IsFirstOf(traced, log)

(* The first tier is made of the log. *)
Parsed == step \in {"list", "look", "done"}

FirstTier ==
  Parsed => IsInjective(tierA) /\ (tracer # "log" => IsFirstOf(tierA, log))

(* Until the tree is listed there is no second tier, and what has stayed is  *)
(* listed or still to come;                                                  *)
Listing ==
  /\ step \notin {"look"} \union Over => tierB = <<>>
  /\ step = "list" => stayed \subseteq present \intersect (unlisted \union found)

(* what has been listed is still to be looked at or, if it has stayed, in a  *)
(* tier; the second tier has nothing of the first.                           *)
Looking ==
  step = "look" =>
    /\ stayed \subseteq present
    /\ Listed(tierB) \intersect found = {}

SecondTier ==
  step \in {"look", "done"} =>
    /\ stayed \subseteq found \union Listed(tierA) \union Listed(tierB)
    /\ IsInjective(tierB) /\ Listed(tierB) \intersect Listed(tierA) = {}

AllLooked == step = "done" => found = {}

Walked == Listing /\ Looking /\ SecondTier /\ AllLooked

RecInv ==
  TypeOK /\ Watch /\ SeenOpened /\ AllSeen /\ SeenInOrder /\ TracedLog /\ FirstTier /\ Walked

-----------------------------------------------------------------------------
(* Sequences: what is listed, and what is before what                        *)

(* Appending lists one more, *)
LEMMA ListedAppend ==
  ASSUME NEW S, NEW s \in Seq(S), NEW e \in S
  PROVE  Listed(Append(s, e)) = Listed(s) \union {e}
<1> DEFINE t == Append(s, e)
<1>1. t \in Seq(S) /\ Len(t) = Len(s) + 1 /\ t[Len(s) + 1] = e
  OBVIOUS
<1>2. \A i \in 1..Len(s) : t[i] = s[i]
  OBVIOUS
<1>3. 1..Len(t) = 1..Len(s) \union {Len(s) + 1}
  BY <1>1, LenProperties
<1> HIDE DEF t
<1>4. Listed(t) \subseteq Listed(s) \union {e}
  BY <1>1, <1>2, <1>3 DEF Listed
<1>5. Listed(s) \union {e} \subseteq Listed(t)
  BY <1>1, <1>2, <1>3 DEF Listed
<1> QED
  BY <1>4, <1>5 DEF t

(* and leaves what is before what as it was. *)
LEMMA BeforeAppend ==
  ASSUME NEW S, NEW s \in Seq(S), NEW e \in S, NEW f, NEW g
  PROVE  /\ Before(s, f, g) => Before(Append(s, e), f, g)
         /\ Before(Append(s, e), f, g) /\ g \in Listed(s) => Before(s, f, g)
         /\ f \in Listed(s) /\ g \notin Listed(s) => Before(Append(s, e), f, g)
<1> DEFINE t == Append(s, e)
<1>1. t \in Seq(S) /\ Len(t) = Len(s) + 1 /\ Len(s) \in Nat
  OBVIOUS
<1>2. \A i \in 1..Len(s) : t[i] = s[i]
  OBVIOUS
<1> HIDE DEF t
<1>3. ASSUME Before(s, f, g)
      PROVE  Before(t, f, g)
  <2>1. PICK i \in 1..Len(s) : s[i] = f /\ \A j \in 1..i : s[j] # g
    BY <1>3 DEF Before
  <2>2. i \in 1..Len(t) /\ t[i] = f
    BY <1>1, <1>2, <2>1
  <2>3. \A j \in 1..i : t[j] # g
    BY <1>1, <1>2, <2>1
  <2> QED
    BY <2>2, <2>3 DEF Before
<1>4. ASSUME Before(t, f, g), g \in Listed(s)
      PROVE  Before(s, f, g)
  <2>1. PICK i \in 1..Len(t) : t[i] = f /\ \A j \in 1..i : t[j] # g
    BY <1>4 DEF Before
  <2>2. PICK k \in 1..Len(s) : s[k] = g
    BY <1>4 DEF Listed
  <2>3. i < k
    BY <1>1, <1>2, <2>1, <2>2
  <2>4. i \in 1..Len(s) /\ s[i] = f
    BY <1>1, <1>2, <2>1, <2>2, <2>3
  <2>5. \A j \in 1..i : s[j] # g
    BY <1>1, <1>2, <2>1, <2>4
  <2> QED
    BY <2>4, <2>5 DEF Before
<1>5. ASSUME f \in Listed(s), g \notin Listed(s)
      PROVE  Before(t, f, g)
  <2>1. PICK i \in 1..Len(s) : s[i] = f
    BY <1>5 DEF Listed
  <2>2. \A j \in 1..i : j \in 1..Len(s)
    BY <1>1, <2>1
  <2>3. \A j \in 1..i : t[j] # g
    BY <1>2, <1>5, <2>2 DEF Listed
  <2> QED
    BY <1>1, <1>2, <2>1, <2>3 DEF Before
<1> QED
  BY <1>3, <1>4, <1>5 DEF t

(* So does what follows, for what is listed before. *)
LEMMA BeforeConcat ==
  ASSUME NEW S, NEW s \in Seq(S), NEW r \in Seq(S), NEW f, NEW g \in Listed(s),
         Before(s \o r, f, g)
  PROVE  Before(s, f, g)
<1> DEFINE t == s \o r
<1>1. t \in Seq(S) /\ Len(t) = Len(s) + Len(r) /\ Len(s) \in Nat /\ Len(r) \in Nat
  OBVIOUS
<1>2. \A i \in 1..Len(s) : t[i] = s[i]
  OBVIOUS
<1> HIDE DEF t
<1>3. PICK i \in 1..Len(t) : t[i] = f /\ \A j \in 1..i : t[j] # g
  BY DEF Before, t
<1>4. PICK k \in 1..Len(s) : s[k] = g
  BY DEF Listed
<1>5. i < k
  BY <1>1, <1>2, <1>3, <1>4
<1>6. i \in 1..Len(s) /\ s[i] = f
  BY <1>1, <1>2, <1>3, <1>4, <1>5
<1>7. \A j \in 1..i : s[j] # g
  BY <1>1, <1>2, <1>3, <1>6
<1> QED
  BY <1>6, <1>7 DEF Before

LEMMA ListedConcat ==
  ASSUME NEW S, NEW s \in Seq(S), NEW r \in Seq(S)
  PROVE  Listed(s \o r) = Listed(s) \union Listed(r)
<1> DEFINE t == s \o r
<1>1. t \in Seq(S) /\ Len(t) = Len(s) + Len(r) /\ Len(s) \in Nat /\ Len(r) \in Nat
  OBVIOUS
<1>2. \A i \in 1..Len(s) : i \in 1..Len(t) /\ t[i] = s[i]
  OBVIOUS
<1>3. \A i \in 1..Len(r) : Len(s) + i \in 1..Len(t) /\ t[Len(s) + i] = r[i]
  OBVIOUS
<1>4. \A i \in 1..Len(t) : i \in 1..Len(s) \/ (i - Len(s) \in 1..Len(r) /\ t[i] = r[i - Len(s)])
  OBVIOUS
<1> HIDE DEF t
<1>5. Listed(t) \subseteq Listed(s) \union Listed(r)
  BY <1>2, <1>4 DEF Listed
<1>6. Listed(s) \subseteq Listed(t)
  BY <1>2 DEF Listed
<1>7. Listed(r) \subseteq Listed(t)
  BY <1>3 DEF Listed
<1> QED
  BY <1>5, <1>6, <1>7 DEF t

(* The head of the queue goes to the end of the log. *)
LEMMA MoveHead ==
  ASSUME NEW S, NEW s \in Seq(S), NEW r \in Seq(S), r # <<>>
  PROVE  /\ Head(r) \in S /\ Tail(r) \in Seq(S) /\ Len(Tail(r)) = Len(r) - 1
         /\ Append(s, Head(r)) \o Tail(r) = s \o r
  OBVIOUS

(* An event goes to the end of both. *)
LEMMA ConcatAppend ==
  ASSUME NEW S, NEW s \in Seq(S), NEW r \in Seq(S), NEW e \in S
  PROVE  s \o Append(r, e) = Append(s \o r, e)
  OBVIOUS

LEMMA ListedNothing == Listed(<<>>) = {}
  BY DEF Listed

(* Once adds a file at the end, or nothing. *)
LEMMA OnceListed ==
  ASSUME NEW S, NEW s \in Seq(S), NEW f \in S
  PROVE  /\ Once(s, f) \in Seq(S)
         /\ f \in Listed(s) => Once(s, f) = s
         /\ f \notin Listed(s) => Once(s, f) = Append(s, f)
         /\ Listed(Once(s, f)) = Listed(s) \union {f}
<1>1. Contains(s, f) <=> f \in Listed(s)
  BY DEF Contains, Listed
<1>2. Append(s, f) \in Seq(S)
  OBVIOUS
<1>3. Listed(Append(s, f)) = Listed(s) \union {f}
  BY ListedAppend
<1>4. CASE f \in Listed(s)
  BY <1>1, <1>4 DEF Once
<1>5. CASE f \notin Listed(s)
  BY <1>1, <1>2, <1>3, <1>5 DEF Once
<1> QED
  BY <1>4, <1>5

(* What is not listed is appended to what is injective. *)
LEMMA InjectiveAppend ==
  ASSUME NEW S, NEW s \in Seq(S), NEW e \in S, IsInjective(s), e \notin Listed(s)
  PROVE  IsInjective(Append(s, e))
<1> DEFINE t == Append(s, e)
<1>1. t \in Seq(S) /\ DOMAIN t = 1..Len(s) + 1 /\ t[Len(s) + 1] = e /\ Len(s) \in Nat
  OBVIOUS
<1>2. \A i \in 1..Len(s) : t[i] = s[i] /\ t[i] # e
  BY DEF Listed
<1>3. DOMAIN s = 1..Len(s)
  OBVIOUS
<1> HIDE DEF t
<1>4. ASSUME NEW i \in DOMAIN t, NEW j \in DOMAIN t, t[i] = t[j]
      PROVE  i = j
  <2>1. CASE i \in 1..Len(s) /\ j \in 1..Len(s)
    BY <1>2, <1>3, <1>4, <2>1 DEF IsInjective
  <2>2. CASE i = Len(s) + 1 \/ j = Len(s) + 1
    BY <1>1, <1>2, <1>4, <2>2
  <2> QED
    BY <1>1, <2>1, <2>2
<1> QED
  BY <1>4 DEF IsInjective, t

(* Two injective sequences that list different things are one. *)
LEMMA InjectiveConcat ==
  ASSUME NEW S, NEW s \in Seq(S), NEW r \in Seq(S),
         IsInjective(s), IsInjective(r), Listed(s) \intersect Listed(r) = {}
  PROVE  IsInjective(s \o r)
<1> DEFINE t == s \o r
<1>1. t \in Seq(S) /\ DOMAIN t = 1..Len(s) + Len(r) /\ Len(s) \in Nat /\ Len(r) \in Nat
  OBVIOUS
<1>2. \A i \in 1..Len(s) : t[i] = s[i] /\ t[i] \in Listed(s)
  BY DEF Listed
<1>3. \A i \in DOMAIN t : i \notin 1..Len(s) => i - Len(s) \in 1..Len(r) /\ t[i] = r[i - Len(s)]
  OBVIOUS
<1>4. \A i \in 1..Len(r) : r[i] \in Listed(r)
  BY DEF Listed
<1>5. DOMAIN s = 1..Len(s) /\ DOMAIN r = 1..Len(r)
  OBVIOUS
<1> HIDE DEF t
<1>6. ASSUME NEW i \in DOMAIN t, NEW j \in DOMAIN t, t[i] = t[j]
      PROVE  i = j
  <2>1. CASE i \in 1..Len(s) /\ j \in 1..Len(s)
    BY <1>2, <1>5, <1>6, <2>1 DEF IsInjective
  <2>2. CASE i \notin 1..Len(s) /\ j \notin 1..Len(s)
    <3>1. i - Len(s) = j - Len(s)
      BY <1>3, <1>5, <1>6, <2>2 DEF IsInjective
    <3> QED
      BY <1>1, <3>1
  <2>3. CASE (i \in 1..Len(s)) # (j \in 1..Len(s))
    BY <1>2, <1>3, <1>4, <1>6, <2>3
  <2> QED
    BY <2>1, <2>2, <2>3
<1> QED
  BY <1>6 DEF IsInjective, t

-----------------------------------------------------------------------------
(* The first tier: what is first of a log                                    *)

LEMMA ListedFinite ==
  ASSUME NEW s \in Seq(Files \union {0})
  PROVE  Listed(s) \subseteq Files \union {0} /\ IsFiniteSet(Listed(s) \ {0})
<1>1. \A i \in 1..Len(s) : s[i] \in Files \union {0}
  OBVIOUS
<1>2. Listed(s) \subseteq Files \union {0}
  BY <1>1 DEF Listed
<1>3. Listed(s) \ {0} \subseteq Files /\ IsFiniteSet(Files)
  BY <1>2, RecordAssumption
<1> QED
  BY <1>2, <1>3, FS_Subset

(* SetToSeqs(S): the members of S, each once. *)
LEMMA SetToSeqsOnce ==
  ASSUME NEW S, IsFiniteSet(S), NEW s \in SetToSeqs(S)
  PROVE  s \in Seq(S) /\ IsInjective(s) /\ Listed(s) = S
<1> DEFINE n == Cardinality(S)
           D == 1..n
<1>1. n \in Nat
  BY FS_CardinalityType
<1>2. s \in [D -> S] /\ \A i, j \in D : i # j => s[i] # s[j]
  BY DEF SetToSeqs
<1>3. \A m \in Nat : \A f \in [1..m -> S] : f \in Seq(S) /\ Len(f) = m
  OBVIOUS
<1>4. s \in Seq(S) /\ Len(s) = n
  BY <1>1, <1>2, <1>3
<1>5. s \in Injection(D, S) /\ IsInjective(s)
  BY <1>2 DEF Injection, IsInjective
<1>6. IsFiniteSet(D) /\ Cardinality(D) = Cardinality(S)
  BY <1>1, FS_Interval
<1> HIDE DEF D
<1>7. s \in Surjection(D, S)
  BY <1>5, <1>6, FS_Injection
<1>8. \A x \in S : \E i \in D : s[i] = x
  BY <1>7 DEF Surjection
<1> QED
  BY <1>2, <1>4, <1>5, <1>8 DEF Listed, D

LEMMA FirstOfOnce ==
  ASSUME NEW s \in Seq(Files \union {0}), NEW t \in FirstOf(s)
  PROVE  t \in Seq(Files) /\ IsFirstOf(t, s)
<1>1. t \in SetToSeqs(Listed(s) \ {0}) /\ Ascends(t, s)
  BY DEF FirstOf, Ascends
<1>2. t \in Seq(Listed(s) \ {0}) /\ IsInjective(t) /\ Listed(t) = Listed(s) \ {0}
  BY <1>1, ListedFinite, SetToSeqsOnce
<1>3. \A X : X \subseteq Files => Seq(X) \subseteq Seq(Files)
  OBVIOUS
<1>4. Listed(s) \ {0} \subseteq Files
  BY ListedFinite
<1> QED
  BY <1>1, <1>2, <1>3, <1>4 DEF IsFirstOf

(* Two files cannot be before each other. *)
LEMMA BeforeAsymmetric ==
  ASSUME NEW S, NEW s \in Seq(S), NEW f, NEW g
  PROVE  ~(Before(s, f, g) /\ Before(s, g, f))
<1> SUFFICES ASSUME Before(s, f, g), Before(s, g, f)
             PROVE  FALSE
  OBVIOUS
<1>1. PICK i \in 1..Len(s) : s[i] = f /\ \A k \in 1..i : s[k] # g
  BY DEF Before
<1>2. PICK j \in 1..Len(s) : s[j] = g /\ \A k \in 1..j : s[k] # f
  BY DEF Before
<1>3. i \in 1..j \/ j \in 1..i
  OBVIOUS
<1> QED
  BY <1>1, <1>2, <1>3

(* What is before in the log is before in the tier. *)
LEMMA BeforeInFirst ==
  ASSUME NEW s \in Seq(Files \union {0}), NEW t \in Seq(Files), IsFirstOf(t, s),
         NEW f \in Listed(t), NEW g \in Listed(s) \ {0}, Before(s, g, f)
  PROVE  Before(t, g, f)
<1>1. PICK j \in 1..Len(t) : t[j] = f
  BY DEF Listed
<1>2. PICK i \in 1..Len(t) : t[i] = g
  BY DEF Listed, IsFirstOf
<1>3. ~(j < i)
  BY <1>1, <1>2, BeforeAsymmetric DEF IsFirstOf, Ascends
<1>4. i # j
  BY <1>1, <1>2, BeforeAsymmetric
<1>5. i < j
  BY <1>3, <1>4
<1>6. \A k \in 1..i : t[k] # f
  <2>1. \A k \in 1..i : k \in DOMAIN t /\ k # j
    BY <1>5
  <2>2. j \in DOMAIN t
    OBVIOUS
  <2> QED
    BY <1>1, <2>1, <2>2 DEF IsFirstOf, IsInjective
<1> QED
  BY <1>2, <1>6 DEF Before

LEMMA LeastOf ==
  ASSUME NEW T, T \subseteq Nat, T # {}
  PROVE  \E x \in T : \A y \in T : x <= y
<1> DEFINE R == {ss \in Nat \X Nat : ss[1] < ss[2]}
<1>0. IsWellFoundedOn(R, Nat)
  BY NatLessThanWellFounded DEF OpToRel
<1>1. PICK x \in T : \A y \in T : ~(<<y, x>> \in R)
  BY <1>0, WFMin
<1>2. \A y \in T : ~(y < x)
  BY <1>1
<1> QED
  BY <1>2

SameBelow(s, t, k) == \A i \in 1..k - 1 : i \in 1..Len(s) /\ i \in 1..Len(t) /\ s[i] = t[i]

(* Of two sequences of the same files in the same order, one does not differ *)
(* from the other at a place up to which they are the same.                  *)
LEMMA SameUpTo ==
  ASSUME NEW q \in Seq(Files \union {0}), NEW s \in Seq(Files), NEW t \in Seq(Files),
         IsFirstOf(s, q), IsFirstOf(t, q), NEW k \in 1..Len(s), SameBelow(s, t, k)
  PROVE  k \in 1..Len(t) /\ s[k] = t[k]
<1> USE DEF SameBelow
<1> DEFINE at(u, i) == i \in 1..Len(u)
<1>1. ASSUME NEW u \in Seq(Files), NEW v \in Seq(Files), IsFirstOf(u, q), IsFirstOf(v, q),
             at(u, k), ~(at(v, k) /\ u[k] = v[k]),
             \A i \in 1..k - 1 : at(u, i) /\ at(v, i) /\ u[i] = v[i]
      PROVE  \E j \in 1..Len(v) : j > k /\ v[j] = u[k]
  <2>1. u[k] \in Listed(v)
    BY <1>1 DEF Listed, IsFirstOf
  <2>2. PICK j \in 1..Len(v) : v[j] = u[k]
    BY <2>1 DEF Listed
  <2>3. j # k
    BY <1>1, <2>2
  <2>4. ~(j < k)
    <3>1. SUFFICES ASSUME j < k PROVE FALSE
      OBVIOUS
    <3>2. j \in 1..k - 1
      BY <3>1
    <3>3. u[j] = u[k] /\ j \in DOMAIN u /\ k \in DOMAIN u
      BY <1>1, <2>2, <3>2
    <3> QED
      BY <1>1, <3>1, <3>3 DEF IsFirstOf, IsInjective
  <2> QED
    BY <2>2, <2>3, <2>4
<1>2. SUFFICES ASSUME ~(at(t, k) /\ s[k] = t[k])
               PROVE  FALSE
  OBVIOUS
<1>3. PICK j \in 1..Len(t) : j > k /\ t[j] = s[k]
  BY <1>1, <1>2
<1>4. at(t, k)
  BY <1>3
<1>5. PICK i \in 1..Len(s) : i > k /\ s[i] = t[k]
  BY <1>1, <1>2, <1>4
<1>6. Before(q, s[k], t[k])
  BY <1>5 DEF IsFirstOf, Ascends
<1>7. Before(q, t[k], s[k])
  BY <1>3, <1>4 DEF IsFirstOf, Ascends
<1> QED
  BY <1>6, <1>7, BeforeAsymmetric

(* There is one sequence of the files of a log in the order of their first   *)
(* lines.                                                                    *)
LEMMA FirstOfUnique ==
  ASSUME NEW q \in Seq(Files \union {0}), NEW s \in Seq(Files), NEW t \in Seq(Files),
         IsFirstOf(s, q), IsFirstOf(t, q)
  PROVE  s = t
<1> DEFINE same(i) == i \in 1..Len(s) /\ i \in 1..Len(t) /\ s[i] = t[i]
           T == {i \in 1..Len(s) \union 1..Len(t) : ~same(i)}
<1>1. T = {}
  <2>1. SUFFICES ASSUME T # {} PROVE FALSE
    OBVIOUS
  <2>2. T \subseteq Nat
    OBVIOUS
  <2>3. PICK k \in T : \A y \in T : k <= y
    BY <2>1, <2>2, LeastOf
  <2>4. \A i \in 1..k - 1 : same(i)
    <3>1. TAKE i \in 1..k - 1
    <3>2. i \in 1..Len(s) \union 1..Len(t) /\ ~(k <= i)
      OBVIOUS
    <3> QED
      BY <2>3, <3>2
  <2>5. CASE k \in 1..Len(s)
    <3>0. SameBelow(s, t, k)
      BY <2>4 DEF SameBelow
    <3>1. same(k)
      BY <3>0, <2>5, SameUpTo
    <3> QED
      BY <2>3, <3>1
  <2>6. CASE k \in 1..Len(t)
    <3>1. SameBelow(t, s, k)
      BY <2>4 DEF SameBelow
    <3>2. same(k)
      BY <3>1, <2>6, SameUpTo
    <3> QED
      BY <2>3, <3>2
  <2> QED
    BY <2>3, <2>5, <2>6
<1>2. \A i \in 1..Len(s) \union 1..Len(t) : same(i)
  BY <1>1
<1>3. Len(s) = Len(t)
  <2>1. Len(s) \in Nat /\ Len(t) \in Nat
    OBVIOUS
  <2>2. Len(s) > 0 => Len(s) \in 1..Len(t)
    BY <1>2, <2>1
  <2>3. Len(t) > 0 => Len(t) \in 1..Len(s)
    BY <1>2, <2>1
  <2> QED
    BY <2>1, <2>2, <2>3
<1> QED
  BY <1>2, <1>3, SeqEqual

-----------------------------------------------------------------------------
(* What the actions do, by the kinds of it that the invariant tells apart *)

(* The kernel queues an event, or drops it, or nobody watches. *)
LEMMA EventEffect ==
  ASSUME TypeOK, NEW d \in Dirs, NEW e \in Files \union {0}, Event(d, e)
  PROVE  /\ queue' \in Seq(Files \union {0}) /\ Len(queue') <= QueueMax
         /\ overflow' \in BOOLEAN /\ (overflow => overflow')
         /\ UNCHANGED <<watcher, established, watched>>
         /\ queue' = queue \/ (d \in watched /\ queue' = Append(queue, e))
         /\ d \in watched /\ ~overflow' => queue' = Append(queue, e)
<1>1. queue \in Seq(Files \union {0}) /\ Len(queue) \in Nat /\ QueueMax \in Nat
      /\ Len(queue) <= QueueMax /\ overflow \in BOOLEAN
  BY RecordAssumption DEF TypeOK
<1>2. Append(queue, e) \in Seq(Files \union {0}) /\ Len(Append(queue, e)) = Len(queue) + 1
  BY <1>1
<1>3. CASE d \in watched /\ Len(queue) < QueueMax
  <2>1. queue' = Append(queue, e) /\ overflow' = overflow
    BY <1>1, <1>3 DEF Event
  <2> QED
    BY <1>1, <1>2, <1>3, <2>1 DEF Event
<1>4. CASE ~(d \in watched /\ Len(queue) < QueueMax)
  <2>0. d \in watched => Len(queue) >= QueueMax
    BY <1>1, <1>4
  <2>1. queue' = queue /\ (d \in watched => overflow')
    BY <1>4, <2>0, Zenon DEF Event
  <2>2. overflow' \in BOOLEAN /\ (overflow => overflow')
    BY Zenon DEF Event
  <2>3. UNCHANGED <<watcher, established, watched>>
    BY DEF Event
  <2> QED
    BY <1>1, <2>1, <2>2, <2>3
<1> QED
  BY <1>3, <1>4

(* strace writes a line, or splits one. *)
LEMMA StraceEffect ==
  ASSUME TypeOK, NEW f \in Files, NEW call, NEW succeeds \in BOOLEAN, Strace(f, call, succeeds)
  PROVE  /\ tracer = "strace" /\ step = "wait"
         /\ traced' \in Seq(Files) /\ log' \in Seq(Files \union {0}) /\ split' \in BOOLEAN
         /\ \/ traced' = Once(traced, f) /\ log' = Append(log, f) /\ split' = split
            \/ traced' = traced /\ log' = Append(log, 0) /\ split' = split
            \/ traced' \in {traced, Once(traced, f)} /\ log' = log /\ split' = TRUE
<1>1. traced \in Seq(Files) /\ log \in Seq(Files \union {0}) /\ split \in BOOLEAN
  BY DEF TypeOK
<1>2. Once(traced, f) \in Seq(Files)
  BY <1>1, OnceListed
<1>3. Append(log, f) \in Seq(Files \union {0}) /\ Append(log, 0) \in Seq(Files \union {0})
  BY <1>1
<1>4. tracer = "strace" /\ step = "wait"
  BY DEF Strace, Traced
<1>5. CASE succeeds \/ call = "execve"
  <2>1. traced' = Once(traced, f) /\ Line(f, call, succeeds) = f
    BY <1>5 DEF Strace, Line
  <2>2. (log' = Append(log, f) /\ split' = split) \/ (split' = TRUE /\ log' = log)
    BY <2>1 DEF Strace
  <2> QED
    BY <1>1, <1>2, <1>3, <1>4, <2>1, <2>2
<1>6. CASE ~(succeeds \/ call = "execve")
  <2>1. traced' = traced /\ Line(f, call, succeeds) = 0
    BY <1>6 DEF Strace, Line
  <2>2. (log' = Append(log, 0) /\ split' = split) \/ (split' = TRUE /\ log' = log)
    BY <2>1 DEF Strace
  <2> QED
    BY <1>1, <1>2, <1>3, <1>4, <2>1, <2>2
<1> QED
  BY <1>5, <1>6

LEMMA DirOfFile == ASSUME NEW f \in Files PROVE DirOf[f] \in Dirs /\ f # 0
  BY RecordAssumption

-----------------------------------------------------------------------------
(* Types *)

LEMMA InitType == Init => TypeOK
<1> SUFFICES ASSUME Init PROVE TypeOK
  OBVIOUS
<1>1. <<>> \in Seq(Files) /\ <<>> \in Seq(Files \union {0}) /\ Len(<<>>) = 0
  OBVIOUS
<1>2. \A n \in Nat : \A s \in [1..n -> Files \union {0}] : s \in Seq(Files \union {0})
  OBVIOUS
<1>3. \A n \in 0..MaxOpens : n \in Nat
  BY RecordAssumption
<1>4. log \in Seq(Files \union {0})
  <2>1. CASE log = <<>>
    BY <1>1, <2>1
  <2>2. CASE log \in UNION {[1..n -> Files \union {0}] : n \in 0..MaxOpens}
    BY <1>2, <1>3, <2>2
  <2> QED
    BY <2>1, <2>2 DEF Init
<1>5. 0 \in 0..MaxOpens /\ 0 <= QueueMax
  BY RecordAssumption
<1>6. tracer \in {"inotify", "strace", "log"} /\ step \in Steps
  BY DEF Init, Steps
<1> QED
  BY <1>1, <1>4, <1>5, <1>6 DEF Init, TypeOK

LEMMA TypeStep == TypeOK /\ [Next]_vars => TypeOK'
<1> SUFFICES ASSUME TypeOK, [Next]_vars PROVE TypeOK'
  OBVIOUS
<1> USE DEF Steps, Over, walk
<1>0. <<>> \in Seq(Files \union {0}) /\ Len(<<>>) = 0 /\ 0 <= QueueMax
  BY RecordAssumption
<1>1. CASE Spawn
  BY <1>1 DEF Spawn, Goto, TypeOK, tasks
<1>2. CASE Trace
  BY <1>2 DEF Trace, Goto, TypeOK, tasks, inotify
<1>3. CASE Await
  BY <1>3 DEF Await, Goto, TypeOK, tasks, inotify
<1>4. CASE Run
  BY <1>0, <1>4 DEF Run, Goto, Died, TypeOK, tasks, inotify
<1>5. CASE Wait
  BY <1>5 DEF Wait, Goto, TypeOK, tasks, inotify
<1>6. CASE Settle
  BY <1>0, <1>6 DEF Settle, Goto, Died, TypeOK, tasks, inotify
<1>7. CASE Parse
  <2>1. log \in Seq(Files \union {0}) /\ <<>> \in Seq(Files)
    BY DEF TypeOK
  <2>2. tierA' \in Seq(Files)
    BY <1>7, <2>1, FirstOfOnce DEF Parse
  <2>3. unlisted' = Files /\ stayed' = present /\ found' = found
    BY <1>7 DEF Parse
  <2> QED
    BY <1>7, <2>2, <2>3 DEF Parse, TypeOK, inotify
<1>8. CASE List
  <2>1. unlisted' \in SUBSET Files /\ found' \in SUBSET Files /\ step' \in Steps
    BY <1>8 DEF List, Goto, TypeOK
  <2> QED
    BY <1>8, <2>1 DEF List, Goto, TypeOK, tasks, inotify
<1>18. CASE Look
  <2>1. found' \in SUBSET Files /\ unlisted' = unlisted /\ step' \in Steps
    BY <1>18 DEF Look, Goto, TypeOK
  <2>2. tierB' \in Seq(Files)
    <3>1. \A f \in found : f \in Files /\ Append(tierB, f) \in Seq(Files)
      BY DEF TypeOK
    <3>2. tierB \in Seq(Files)
      BY DEF TypeOK
    <3> QED
      BY <1>18, <3>1, <3>2 DEF Look, Goto
  <2> QED
    BY <1>18, <2>1, <2>2 DEF Look, Goto, TypeOK, tasks, inotify
<1>9. CASE \E d \in Dirs : AddWatch(d)
  BY <1>9 DEF AddWatch, TypeOK, tasks, recorder
<1>10. ASSUME NEW d \in Dirs, OpenDir(d)
       PROVE  TypeOK'
  <2>1. queue' \in Seq(Files \union {0}) /\ Len(queue') <= QueueMax
        /\ overflow' \in BOOLEAN /\ UNCHANGED <<watcher, established, watched>>
    BY <1>10, EventEffect DEF OpenDir
  <2>2. count' \in 0..MaxOpens
    BY <1>10, RecordAssumption DEF OpenDir, Counted, TypeOK
  <2> QED
    BY <1>10, <2>1, <2>2 DEF OpenDir, Untraced, recorder, TypeOK
<1>11. CASE Establish
  BY <1>11 DEF Establish, TypeOK, tasks, recorder
<1>12. CASE WriteLine
  <2>1. queue \in Seq(Files \union {0}) /\ queue # <<>> /\ Len(queue) \in Nat /\ QueueMax \in Nat
        /\ log \in Seq(Files \union {0}) /\ Len(queue) <= QueueMax
    BY <1>12, RecordAssumption DEF WriteLine, TypeOK
  <2>2. /\ Head(queue) \in Files \union {0} /\ Tail(queue) \in Seq(Files \union {0})
        /\ Len(Tail(queue)) = Len(queue) - 1
    BY <2>1, MoveHead
  <2>3. Append(log, Head(queue)) \in Seq(Files \union {0}) /\ Len(Tail(queue)) <= QueueMax
    BY <2>1, <2>2
  <2> QED
    BY <1>12, <2>2, <2>3 DEF WriteLine, TypeOK, tasks, recorder
<1>13. CASE WatcherDies
  BY <1>0, <1>13 DEF WatcherDies, Died, TypeOK, tasks, recorder
<1>14. ASSUME NEW f \in Files, Open(f)
       PROVE  TypeOK'
  <2>1. queue' \in Seq(Files \union {0}) /\ Len(queue') <= QueueMax
        /\ overflow' \in BOOLEAN /\ UNCHANGED <<watcher, established, watched>>
    BY <1>14, EventEffect, DirOfFile DEF Open
  <2>2. count' \in 0..MaxOpens
    BY <1>14, RecordAssumption DEF Open, Counted, TypeOK
  <2>3. traced' \in Seq(Files) /\ log' \in Seq(Files \union {0}) /\ split' \in BOOLEAN
    <3>1. CASE Strace(f, "open", TRUE)
      BY <3>1, StraceEffect
    <3>2. CASE Untraced
      BY <3>2 DEF Untraced, TypeOK
    <3> QED
      BY <1>14, <3>1, <3>2 DEF Open
  <2>4. opens' \in Seq(Files) /\ early' \in SUBSET Files /\ present' \in SUBSET Files
    <3>1. Once(opens, f) \in Seq(Files)
      BY OnceListed DEF TypeOK
    <3> QED
      BY <1>14, <3>1 DEF Open, TypeOK
  <2> QED
    BY <1>14, <2>1, <2>2, <2>3, <2>4 DEF Open, recorder, TypeOK
<1>15. ASSUME NEW f \in Files, Try(f)
       PROVE  TypeOK'
  <2>1. PICK call \in {"open", "execve"} : Strace(f, call, FALSE)
    BY <1>15 DEF Try
  <2>2. traced' \in Seq(Files) /\ log' \in Seq(Files \union {0}) /\ split' \in BOOLEAN
    BY <2>1, StraceEffect
  <2>3. count' \in 0..MaxOpens
    BY <1>15, RecordAssumption DEF Try, Counted, TypeOK
  <2> QED
    BY <1>15, <2>2, <2>3 DEF Try, recorder, TypeOK
<1>16. ASSUME NEW f \in Files, Unlink(f)
       PROVE  TypeOK'
  BY <1>16 DEF Unlink, recorder, inotify, TypeOK
<1>17. CASE UNCHANGED vars
  BY <1>17 DEF vars, recorder, inotify, tasks, TypeOK
<1> QED
  BY <1>1, <1>2, <1>3, <1>4, <1>5, <1>6, <1>7, <1>8, <1>9, <1>10, <1>11, <1>12, <1>13,
     <1>14, <1>15, <1>16, <1>17, <1>18 DEF Next, Recorder

-----------------------------------------------------------------------------
(* The watcher *)

LEMMA WatchStep == TypeOK /\ Watch /\ [Next]_vars => Watch'
<1> SUFFICES ASSUME TypeOK, Watch, [Next]_vars PROVE Watch'
  OBVIOUS
<1> USE DEF Over
<1>1. CASE Spawn
  BY <1>1 DEF Spawn, Goto, Watch, TypeOK, tasks
<1>2. CASE Trace
  BY <1>2 DEF Trace, Goto, Watch, TypeOK, tasks, inotify
<1>3. CASE Await
  BY <1>3 DEF Await, Goto, Watch, TypeOK, tasks, inotify
<1>4. CASE Run
  BY <1>4 DEF Run, Goto, Died, Watch, TypeOK, tasks, inotify
<1>5. CASE Wait
  BY <1>5 DEF Wait, Goto, Watch, TypeOK, tasks, inotify
<1>6. CASE Settle
  BY <1>6 DEF Settle, Goto, Died, Watch, TypeOK, tasks, inotify
<1>7. CASE Parse
  BY <1>7 DEF Parse, Watch, TypeOK, tasks, inotify
<1>8. CASE List \/ Look
  BY <1>8 DEF List, Look, Goto, Watch, TypeOK, inotify
<1>9. CASE \E d \in Dirs : AddWatch(d)
  BY <1>9 DEF AddWatch, Watch, TypeOK, tasks, recorder
<1>10. ASSUME NEW d \in Dirs, NEW e \in Files \union {0}, Event(d, e),
              UNCHANGED <<tracer, step, confirmed>>
       PROVE  Watch'
  <2>1. UNCHANGED <<watcher, established, watched>>
    BY <1>10, EventEffect
  <2>2. watched = {} => queue' = queue
    BY <1>10, EventEffect
  <2> QED
    BY <1>10, <2>1, <2>2 DEF Watch
<1>11. CASE Establish
  BY <1>11 DEF Establish, Watch, TypeOK, tasks, recorder
<1>12. CASE WriteLine
  BY <1>12 DEF WriteLine, Watch, TypeOK, tasks, recorder
<1>13. CASE WatcherDies
  BY <1>13 DEF WatcherDies, Died, Watch, TypeOK, tasks, recorder
<1>14. ASSUME UNCHANGED <<tracer, step, confirmed, watcher, established, watched, queue>>
       PROVE  Watch'
  BY <1>14 DEF Watch
<1>15. ASSUME NEW f \in Files, Open(f) PROVE Watch'
  BY <1>10, <1>15, DirOfFile DEF Open, recorder
<1>16. ASSUME NEW d \in Dirs, OpenDir(d) PROVE Watch'
  BY <1>10, <1>16 DEF OpenDir, recorder
<1>17. CASE (\E f \in Files : Try(f) \/ Unlink(f)) \/ UNCHANGED vars
  BY <1>14, <1>17 DEF Try, Unlink, vars, recorder, inotify
<1> QED
  BY <1>1, <1>2, <1>3, <1>4, <1>5, <1>6, <1>7, <1>8, <1>9, <1>11, <1>12, <1>13,
     <1>15, <1>16, <1>17 DEF Next, Recorder

-----------------------------------------------------------------------------
(* What the watcher has seen *)

(* Most steps open nothing and show the watcher nothing. *)
Quiet ==
  /\ Seen' = Seen
  /\ UNCHANGED <<tracer, opens, early, overflow>>
  /\ ~Started' => ~Started
  /\ confirmed' => confirmed \/ ~Started
  /\ confirmed /\ watcher' = "watching" => watcher = "watching"

(* When the watcher goes, what it has not written goes with it. *)
Gone ==
  /\ Seen' = log /\ watcher' = "dead"
  /\ UNCHANGED <<tracer, opens, early, overflow, confirmed>>
  /\ ~Started' => ~Started

(* An event may be seen. *)
Shown(e) ==
  /\ Seen' = Seen \/ Seen' = Append(Seen, e)
  /\ overflow => overflow'
  /\ watcher = "watching" /\ ~overflow' => Seen' = Append(Seen, e)
  /\ watcher = "dead" => Seen' = Seen
  /\ UNCHANGED <<tracer, step, confirmed, watcher>>

(* strace's lines are not the watcher's. *)
Under ==
  /\ tracer = "strace" /\ step = "wait" /\ watcher = "none"
  /\ UNCHANGED <<tracer, step, confirmed, watcher>>

LEMMA SeenType == TypeOK => Seen \in Seq(Files \union {0})
  BY DEF TypeOK, Seen

LEMMA RecorderSeen ==
  TypeOK /\ Watch /\ (Recorder \/ Establish \/ WriteLine \/ WatcherDies
                      \/ \E d \in Dirs : AddWatch(d)) => Quiet \/ Gone
<1> SUFFICES ASSUME TypeOK, Watch PROVE
      Recorder \/ Establish \/ WriteLine \/ WatcherDies \/ (\E d \in Dirs : AddWatch(d))
        => Quiet \/ Gone
  OBVIOUS
<1>0. log \o <<>> = log
  BY DEF TypeOK
<1>1. CASE Spawn
  BY <1>1 DEF Spawn, Goto, tasks, Quiet, Seen, Started, Watch
<1>2. CASE Trace
  BY <1>2 DEF Trace, Goto, tasks, inotify, Quiet, Seen, Started, Watch
<1>3. CASE Await
  BY <1>3 DEF Await, Goto, tasks, inotify, Quiet, Seen, Started
<1>4. CASE Run
  <2>1. CASE Goto("wait") /\ UNCHANGED inotify
    BY <1>4, <2>1 DEF Run, Goto, tasks, inotify, Quiet, Seen, Started
  <2>2. CASE Died
    BY <1>0, <1>4, <2>2 DEF Run, Goto, Died, tasks, inotify, Gone, Seen, Started
  <2> QED
    BY <1>4, <2>1, <2>2 DEF Run
<1>5. CASE Wait
  BY <1>5 DEF Wait, Goto, tasks, inotify, Quiet, Seen, Started
<1>6. CASE Settle
  BY <1>0, <1>6 DEF Settle, Goto, Died, tasks, Gone, Seen, Started
<1>7. CASE Parse
  BY <1>7 DEF Parse, tasks, inotify, Quiet, Seen, Started
<1>8. CASE List \/ Look
  BY <1>8 DEF List, Look, Goto, tasks, inotify, Quiet, Seen, Started
<1>9. CASE \E d \in Dirs : AddWatch(d)
  BY <1>9 DEF AddWatch, tasks, recorder, Quiet, Seen, Started
<1>10. CASE Establish
  BY <1>10 DEF Establish, tasks, recorder, Quiet, Seen, Started, Watch
<1>11. CASE WriteLine
  <2>1. Seen' = Seen
    <3>1. log \in Seq(Files \union {0}) /\ queue \in Seq(Files \union {0})
      BY DEF TypeOK
    <3> QED
      BY <1>11, <3>1, MoveHead DEF WriteLine, Seen
  <2> QED
    BY <1>11, <2>1 DEF WriteLine, tasks, recorder, Quiet, Started
<1>12. CASE WatcherDies
  BY <1>0, <1>12 DEF WatcherDies, Died, tasks, recorder, Gone, Seen, Started
<1> QED
  BY <1>1, <1>2, <1>3, <1>4, <1>5, <1>6, <1>7, <1>8, <1>9, <1>10, <1>11, <1>12 DEF Recorder

LEMMA EventShown ==
  ASSUME TypeOK, Watch, NEW d \in Dirs, NEW e \in Files \union {0}, Event(d, e),
         UNCHANGED <<recorder, log>>
  PROVE  Shown(e)
<1>1. log \in Seq(Files \union {0}) /\ queue \in Seq(Files \union {0})
  BY DEF TypeOK
<1>2. log \o Append(queue, e) = Append(Seen, e)
  BY <1>1, ConcatAppend DEF Seen
<1>3. queue' = queue \/ queue' = Append(queue, e)
  BY EventEffect
<1>4. watcher = "watching" /\ ~overflow' => queue' = Append(queue, e)
  BY EventEffect DEF Watch
<1>5. (overflow => overflow') /\ UNCHANGED watcher
  BY EventEffect
<1>6. watcher = "dead" => queue' = queue
  BY EventEffect DEF Watch
<1> QED
  BY <1>2, <1>3, <1>4, <1>5, <1>6 DEF Shown, Seen, recorder

(* The opens of the tasks, as far as the watcher is concerned: *)
OpensOnly(f) ==
  IF Started THEN opens' = Once(opens, f) /\ UNCHANGED early
             ELSE early' = early \union {f} /\ UNCHANGED opens

LEMMA TasksSeen ==
  ASSUME TypeOK, Watch, [Next]_vars
  PROVE  \/ Quiet \/ Gone
         \/ Shown(0) /\ UNCHANGED <<opens, early>>
         \/ \E f \in Files : (Shown(f) \/ Under) /\ OpensOnly(f)
         \/ Under /\ UNCHANGED <<opens, early>>
<1>1. CASE Recorder \/ Establish \/ WriteLine \/ WatcherDies \/ \E d \in Dirs : AddWatch(d)
  BY <1>1, RecorderSeen
<1>2. ASSUME NEW d \in Dirs, OpenDir(d)
      PROVE  Shown(0) /\ UNCHANGED <<opens, early>>
  <2>1. Event(d, 0) /\ UNCHANGED <<recorder, log>> /\ UNCHANGED <<opens, early>>
    BY <1>2 DEF OpenDir, Untraced
  <2> QED
    BY <2>1, EventShown
<1>3. ASSUME NEW f \in Files, Open(f)
      PROVE  (Shown(f) \/ Under) /\ OpensOnly(f)
  <2>1. Event(DirOf[f], f) /\ UNCHANGED recorder /\ OpensOnly(f) /\ DirOf[f] \in Dirs
    BY <1>3, DirOfFile DEF Open, OpensOnly
  <2>2. CASE Untraced
    BY <2>1, <2>2, EventShown DEF Untraced
  <2>3. CASE Strace(f, "open", TRUE)
    <3>1. tracer = "strace" /\ step = "wait" /\ UNCHANGED watcher
      BY <2>1, <2>3, StraceEffect, EventEffect
    <3> QED
      BY <2>1, <3>1 DEF Under, Watch, recorder
  <2> QED
    BY <1>3, <2>1, <2>2, <2>3 DEF Open
<1>4. ASSUME NEW f \in Files, Try(f)
      PROVE  Under /\ UNCHANGED <<opens, early>>
  <2>1. PICK call \in {"open", "execve"} : Strace(f, call, FALSE)
    BY <1>4 DEF Try
  <2>2. tracer = "strace" /\ step = "wait"
    BY <2>1, StraceEffect
  <2> QED
    BY <1>4, <2>2 DEF Try, Under, Watch, recorder
<1>5. CASE (\E f \in Files : Unlink(f)) \/ UNCHANGED vars
  BY <1>5 DEF Unlink, vars, recorder, inotify, tasks, Quiet, Seen, Started
<1> QED
  BY <1>1, <1>2, <1>3, <1>4, <1>5 DEF Next

(* A confirmed watcher has been started, and not for strace. *)
LEMMA ConfirmedWatcher ==
  Watch /\ confirmed => watcher \in {"watching", "dead"} /\ tracer = "inotify"
  BY DEF Watch

LEMMA OpensListed ==
  ASSUME TypeOK, NEW f \in Files, OpensOnly(f)
  PROVE  /\ Listed(opens') \subseteq Listed(opens) \union {f}
         /\ early' \union Listed(opens') = early \union Listed(opens) \union {f}
<1>1. opens \in Seq(Files)
  BY DEF TypeOK
<1>2. Listed(Once(opens, f)) = Listed(opens) \union {f}
  BY <1>1, OnceListed
<1> QED
  BY <1>2 DEF OpensOnly

LEMMA ShownListed ==
  ASSUME TypeOK, NEW e \in Files \union {0}, Shown(e)
  PROVE  /\ Listed(Seen') \subseteq Listed(Seen) \union {e}
         /\ \A x, y : Before(Seen, x, y) => Before(Seen', x, y)
<1>1. Seen \in Seq(Files \union {0})
  BY SeenType
<1>2. Listed(Append(Seen, e)) = Listed(Seen) \union {e}
  BY <1>1, ListedAppend
<1>3. \A x, y : Before(Seen, x, y) => Before(Append(Seen, e), x, y)
  BY <1>1, BeforeAppend
<1>4. Seen' = Seen \/ Seen' = Append(Seen, e)
  BY DEF Shown
<1> QED
  BY <1>2, <1>3, <1>4

LEMMA SeenOpenedStep == TypeOK /\ Watch /\ SeenOpened /\ [Next]_vars => SeenOpened'
<1> SUFFICES ASSUME TypeOK, Watch, SeenOpened, [Next]_vars PROVE SeenOpened'
  OBVIOUS
<1>0. Seen \in Seq(Files \union {0}) /\ log \in Seq(Files \union {0}) /\ queue \in Seq(Files \union {0})
  BY SeenType DEF TypeOK
<1>1. CASE Quiet
  BY <1>1 DEF Quiet, SeenOpened
<1>2. CASE Gone
  <2>1. Listed(Seen') \subseteq Listed(Seen)
    BY <1>0, <1>2, ListedConcat DEF Gone, Seen
  <2> QED
    BY <1>2, <2>1 DEF Gone, SeenOpened
<1>3. CASE Shown(0) /\ UNCHANGED <<opens, early>>
  <2>1. Listed(Seen') \subseteq Listed(Seen) \union {0}
    BY <1>3, ShownListed
  <2> QED
    BY <1>3, <2>1 DEF Shown, SeenOpened, Started
<1>4. ASSUME NEW f \in Files, Shown(f), OpensOnly(f)
      PROVE  SeenOpened'
  <2>1. Listed(Seen') \subseteq Listed(Seen) \union {f}
    BY <1>4, ShownListed
  <2>2. early' \union Listed(opens') = early \union Listed(opens) \union {f}
    BY <1>4, OpensListed
  <2>3. ~Started' => opens' = <<>>
    BY <1>4 DEF SeenOpened, Shown, OpensOnly, Started
  <2> QED
    BY <1>4, <2>1, <2>2, <2>3 DEF Shown, SeenOpened
<1>5. CASE Under
  BY <1>5 DEF Under, SeenOpened, Started
<1> QED
  BY <1>1, <1>2, <1>3, <1>4, <1>5, TasksSeen

LEMMA AllSeenStep == TypeOK /\ Watch /\ SeenOpened /\ AllSeen /\ [Next]_vars => AllSeen'
<1> SUFFICES ASSUME TypeOK, Watch, SeenOpened, AllSeen, [Next]_vars,
                    confirmed', ~overflow', watcher' = "watching"
             PROVE  Listed(opens') \ early' \subseteq Listed(Seen')
  BY DEF AllSeen
<1>0. Seen \in Seq(Files \union {0})
  BY SeenType
<1>1. CASE Quiet
  <2>1. CASE ~Started
    BY <1>1, <2>1, ListedNothing DEF Quiet, SeenOpened
  <2>2. CASE Started
    BY <1>1, <2>2 DEF Quiet, AllSeen
  <2> QED
    BY <2>1, <2>2
<1>2. CASE Gone
  BY <1>2 DEF Gone
<1>3. CASE Shown(0) /\ UNCHANGED <<opens, early>>
  <2>1. Seen' = Append(Seen, 0) /\ Listed(opens) \ early \subseteq Listed(Seen)
    BY <1>3 DEF Shown, AllSeen
  <2>2. Listed(Seen') = Listed(Seen) \union {0}
    BY <1>0, <2>1, ListedAppend
  <2> QED
    BY <1>3, <2>1, <2>2
<1>4. ASSUME NEW f \in Files, Shown(f), OpensOnly(f)
      PROVE  Listed(opens') \ early' \subseteq Listed(Seen')
  <2>1. Seen' = Append(Seen, f) /\ Listed(opens) \ early \subseteq Listed(Seen)
    BY <1>4 DEF Shown, AllSeen
  <2>2. Listed(Seen') = Listed(Seen) \union {f}
    BY <1>0, <2>1, ListedAppend
  <2>3. Listed(opens') \subseteq Listed(opens) \union {f} /\ early \subseteq early'
    BY <1>4, OpensListed DEF OpensOnly
  <2> QED
    BY <2>1, <2>2, <2>3
<1>5. CASE Under
  BY <1>5 DEF Under
<1> QED
  BY <1>1, <1>2, <1>3, <1>4, <1>5, TasksSeen

LEMMA SeenInOrderStep ==
  TypeOK /\ Watch /\ SeenOpened /\ AllSeen /\ SeenInOrder /\ [Next]_vars => SeenInOrder'
<1> SUFFICES ASSUME TypeOK, Watch, SeenOpened, AllSeen, SeenInOrder, [Next]_vars,
                    confirmed', ~overflow',
                    NEW f \in Listed(Seen') \ (early' \union {0}), NEW g \in Listed(opens') \ early',
                    Before(opens', g, f)
             PROVE  Before(Seen', g, f)
  BY DEF SeenInOrder
<1>0. Seen \in Seq(Files \union {0}) /\ log \in Seq(Files \union {0})
      /\ queue \in Seq(Files \union {0}) /\ opens \in Seq(Files)
  BY SeenType DEF TypeOK
<1>1. CASE Quiet
  <2>1. CASE ~Started
    BY <1>1, <2>1, ListedNothing DEF Quiet, SeenOpened
  <2>2. CASE Started
    BY <1>1, <2>2 DEF Quiet, SeenInOrder
  <2> QED
    BY <2>1, <2>2
<1>2. CASE Gone
  <2>1. f \in Listed(log) /\ f \in Listed(Seen)
    BY <1>0, <1>2, ListedConcat DEF Gone, Seen
  <2>2. Before(log \o queue, g, f)
    BY <1>2, <2>1 DEF Gone, SeenInOrder, Seen
  <2> QED
    BY <1>0, <1>2, <2>1, <2>2, BeforeConcat DEF Gone
<1>3. CASE Shown(0) /\ UNCHANGED <<opens, early>>
  <2>1. f \in Listed(Seen)
    BY <1>3, ShownListed
  <2>2. Before(Seen, g, f)
    BY <1>3, <2>1 DEF Shown, SeenInOrder
  <2> QED
    BY <1>3, <2>2, ShownListed
<1>4. ASSUME NEW h \in Files, Shown(h), OpensOnly(h)
      PROVE  Before(Seen', g, f)
  <2>1. confirmed /\ ~overflow /\ watcher \in {"watching", "dead"} /\ tracer = "inotify"
    BY <1>4, ConfirmedWatcher DEF Shown
  <2>2. CASE ~Started
    BY <1>4, <2>2, ListedNothing DEF OpensOnly, SeenOpened
  <2>3. CASE Started
    <3>1. opens' = Once(opens, h) /\ early' = early
      BY <1>4, <2>3 DEF OpensOnly
    \* f has been seen, so it has been opened, and g before it.
    <3>2. CASE f \in Listed(Seen)
      <4>1. f \in Listed(opens)
        BY <2>1, <3>1, <3>2 DEF SeenOpened
      <4>2. Before(opens, g, f)
        <5>1. CASE h \in Listed(opens)
          BY <1>0, <3>1, <5>1, OnceListed
        <5>2. CASE h \notin Listed(opens)
          <6>1. opens' = Append(opens, h)
            BY <1>0, <3>1, <5>2, OnceListed
          <6> QED
            BY <1>0, <4>1, <6>1, BeforeAppend
        <5> QED
          BY <5>1, <5>2
      <4>3. g \in Listed(opens)
        BY <4>2 DEF Before, Listed
      <4>4. Before(Seen, g, f)
        BY <2>1, <3>1, <3>2, <4>2, <4>3 DEF SeenInOrder
      <4> QED
        BY <1>4, <4>4, ShownListed
    \* f is seen now; g was opened before, and seen.
    <3>3. CASE f \notin Listed(Seen)
      <4>1. f = h /\ Seen' = Append(Seen, h)
        <5>1. f = h
          BY <1>4, <3>3, ShownListed
        <5>2. Seen' # Seen
          BY <3>3
        <5> QED
          BY <1>4, <5>1, <5>2 DEF Shown
      <4>2. g # f
        BY BeforeAsymmetric, <1>0, <3>1, OnceListed
      <4>3. g \in Listed(opens) \ early
        BY <1>0, <3>1, <4>1, <4>2, OnceListed
      <4>4. CASE watcher = "watching"
        <5>1. g \in Listed(Seen)
          BY <2>1, <4>3, <4>4 DEF AllSeen
        <5> QED
          BY <1>0, <3>3, <4>1, <5>1, BeforeAppend
      <4>5. CASE watcher = "dead"
        BY <1>4, <3>3, <4>5 DEF Shown
      <4> QED
        BY <2>1, <4>4, <4>5
    <3> QED
      BY <3>2, <3>3
  <2> QED
    BY <2>2, <2>3
<1>5. CASE Under
  BY <1>5, ConfirmedWatcher DEF Under
<1> QED
  BY <1>1, <1>2, <1>3, <1>4, <1>5, TasksSeen

-----------------------------------------------------------------------------
(* The lines of strace *)

(* A line that names a file keeps the order, *)
LEMMA AscendsAppend ==
  ASSUME NEW s \in Seq(Files \union {0}), NEW t \in Seq(Files), Ascends(t, s),
         NEW e \in Files \union {0}
  PROVE  Ascends(t, Append(s, e))
<1>1. \A x, y : Before(s, x, y) => Before(Append(s, e), x, y)
  BY BeforeAppend
<1> QED
  BY <1>1 DEF Ascends

LEMMA FirstOfAppend ==
  ASSUME NEW s \in Seq(Files \union {0}), NEW t \in Seq(Files), IsFirstOf(t, s), NEW f \in Files
  PROVE  IsFirstOf(Once(t, f), Append(s, f))
<1>0. IsInjective(t) /\ Listed(t) = Listed(s) \ {0} /\ Ascends(t, s) /\ f # 0
  BY DirOfFile DEF IsFirstOf
<1>1. Listed(Append(s, f)) = Listed(s) \union {f}
  BY ListedAppend
<1>2. Listed(Once(t, f)) = Listed(Append(s, f)) \ {0}
  BY <1>0, <1>1, OnceListed
<1>3. Ascends(t, Append(s, f))
  BY <1>0, AscendsAppend
<1>4. CASE f \in Listed(t)
  BY <1>0, <1>2, <1>3, <1>4, OnceListed DEF IsFirstOf
<1>5. CASE f \notin Listed(t)
  <2> DEFINE u == Append(t, f)
  <2>1. Once(t, f) = u /\ IsInjective(u)
    BY <1>0, <1>5, OnceListed, InjectiveAppend
  <2>2. Len(u) = Len(t) + 1 /\ u[Len(t) + 1] = f /\ Len(t) \in Nat
        /\ \A i \in 1..Len(t) : u[i] = t[i]
    OBVIOUS
  <2> HIDE DEF u
  <2>3. f \notin Listed(s)
    BY <1>0, <1>5
  <2>4. ASSUME NEW i \in 1..Len(t)
        PROVE  Before(Append(s, f), t[i], f)
    <3>1. t[i] \in Listed(s)
      BY <1>0 DEF Listed
    <3> QED
      BY <2>3, <3>1, BeforeAppend
  <2>5. ASSUME NEW i \in 1..Len(u), NEW j \in 1..Len(u), i < j
        PROVE  Before(Append(s, f), u[i], u[j])
    <3>1. i \in 1..Len(t) /\ u[i] = t[i]
      BY <2>2, <2>5
    <3>2. CASE j \in 1..Len(t)
      BY <1>3, <2>2, <2>5, <3>1, <3>2 DEF Ascends
    <3>3. CASE j = Len(t) + 1
      BY <2>2, <2>4, <3>1, <3>3
    <3> QED
      BY <2>2, <3>2, <3>3
  <2>6. Ascends(u, Append(s, f))
    BY <2>5 DEF Ascends
  <2> QED
    BY <1>2, <2>1, <2>6 DEF IsFirstOf
<1> QED
  BY <1>4, <1>5

(* and one that names none changes nothing. *)
LEMMA FirstOfAppendNone ==
  ASSUME NEW s \in Seq(Files \union {0}), NEW t \in Seq(Files), IsFirstOf(t, s)
  PROVE  IsFirstOf(t, Append(s, 0))
<1>1. Listed(Append(s, 0)) = Listed(s) \union {0}
  BY ListedAppend
<1>2. Ascends(t, Append(s, 0))
  BY AscendsAppend DEF IsFirstOf
<1> QED
  BY <1>1, <1>2 DEF IsFirstOf

(* Nothing else writes to the log of strace. *)
LEMMA StraceSteps ==
  ASSUME TypeOK, Watch, [Next]_vars, tracer = "strace"
  PROVE  /\ tracer' = "strace"
         /\ \/ UNCHANGED <<log, traced, split>>
            \/ /\ step = "wait" /\ UNCHANGED step
               /\ \E f \in Files : \E call \in {"open", "execve"} : \E succeeds \in BOOLEAN :
                    Strace(f, call, succeeds)
<1>1. watcher = "none"
  BY DEF Watch
<1>2. CASE Recorder
  BY <1>2 DEF Recorder, Spawn, Trace, Await, Run, Wait, Settle, Parse, List, Look,
              Goto, inotify, tasks
<1>3. CASE Establish \/ WriteLine \/ WatcherDies \/ \E d \in Dirs : AddWatch(d)
  BY <1>1, <1>3 DEF Establish, WriteLine, WatcherDies, AddWatch
<1>4. CASE \E d \in Dirs : OpenDir(d)
  BY <1>4 DEF OpenDir, Untraced, recorder
<1>5. ASSUME NEW f \in Files, Open(f) \/ Try(f)
      PROVE  /\ UNCHANGED <<tracer, step>>
             /\ \/ UNCHANGED <<log, traced, split>>
                \/ \E call \in {"open", "execve"} : \E succeeds \in BOOLEAN : Strace(f, call, succeeds)
  BY <1>5 DEF Open, Try, Untraced, recorder
<1>6. CASE (\E f \in Files : Unlink(f)) \/ UNCHANGED vars
  BY <1>6 DEF Unlink, vars, recorder, inotify, tasks
<1>7. ASSUME NEW f \in Files, NEW call, NEW succeeds \in BOOLEAN, Strace(f, call, succeeds)
      PROVE  step = "wait"
  BY <1>7 DEF Strace, Traced
<1> QED
  BY <1>2, <1>3, <1>4, <1>5, <1>6, <1>7 DEF Next

LEMMA TracedLogStep == TypeOK /\ Watch /\ TracedLog /\ [Next]_vars => TracedLog'
<1> SUFFICES ASSUME TypeOK, Watch, TracedLog, [Next]_vars, tracer' = "strace"
             PROVE  /\ Listed(log') \subseteq {0} \union Listed(traced')
                    /\ ~split' => IsFirstOf(traced', log')
  BY DEF TracedLog, IsFirstOf, Ascends
<1>0. log \in Seq(Files \union {0}) /\ traced \in Seq(Files) /\ 0 \in Files \union {0}
  BY DEF TypeOK
<1>1. tracer = "strace"
  BY DEF Next, Recorder, Spawn, Trace, Await, Run, Wait, Settle, Parse, List, Look, Goto,
         AddWatch, OpenDir, Establish, WriteLine, WatcherDies, Open, Try, Unlink, vars, recorder
<1>2. /\ Listed(log) \subseteq {0} \union Listed(traced)
      /\ ~split => IsFirstOf(traced, log)
  BY <1>1 DEF TracedLog
<1>3. CASE UNCHANGED <<log, traced, split>>
  BY <1>2, <1>3
<1>4. ASSUME NEW f \in Files, NEW call, NEW succeeds \in BOOLEAN, Strace(f, call, succeeds)
      PROVE  /\ Listed(log') \subseteq {0} \union Listed(traced')
             /\ ~split' => IsFirstOf(traced', log')
  <2>0. Listed(Once(traced, f)) = Listed(traced) \union {f}
    BY <1>0, OnceListed
  <2>1. CASE traced' = Once(traced, f) /\ log' = Append(log, f) /\ split' = split
    <3>1. Listed(log') = Listed(log) \union {f}
      BY <1>0, <2>1, ListedAppend
    <3>2. ~split => IsFirstOf(traced', log')
      BY <1>0, <1>2, <2>1, FirstOfAppend
    <3> QED
      BY <1>2, <2>0, <2>1, <3>1, <3>2
  <2>2. CASE traced' = traced /\ log' = Append(log, 0) /\ split' = split
    <3>1. Listed(log') = Listed(log) \union {0}
      BY <1>0, <2>2, ListedAppend
    <3>2. ~split => IsFirstOf(traced', log')
      BY <1>0, <1>2, <2>2, FirstOfAppendNone
    <3> QED
      BY <1>2, <2>2, <3>1, <3>2
  <2>3. CASE traced' \in {traced, Once(traced, f)} /\ log' = log /\ split' = TRUE
    BY <1>2, <2>0, <2>3
  <2> QED
    BY <1>4, <2>1, <2>2, <2>3, StraceEffect
<1> QED
  BY <1>1, <1>3, <1>4, StraceSteps

-----------------------------------------------------------------------------
(* The tiers *)

(* The log is written before it is parsed, *)
LEMMA LogParsed ==
  ASSUME TypeOK, Watch, [Next]_vars, Parsed
  PROVE  tracer' = tracer /\ log' = log
<1> USE DEF Parsed
<1>1. watcher \in {"none", "dead"}
  BY DEF Watch, Over
<1>2. ASSUME NEW f \in Files, NEW call, NEW succeeds, Strace(f, call, succeeds)
      PROVE  FALSE
  BY <1>2 DEF Strace, Traced
<1>3. CASE Recorder
  BY <1>3 DEF Recorder, Spawn, Trace, Await, Run, Wait, Settle, Parse, List, Look, Goto, inotify
<1>4. CASE Establish \/ WriteLine \/ WatcherDies \/ \E d \in Dirs : AddWatch(d)
  BY <1>1, <1>4 DEF Establish, WriteLine, WatcherDies, AddWatch
<1>5. CASE \E d \in Dirs : OpenDir(d)
  BY <1>5 DEF OpenDir, Untraced, recorder
<1>6. CASE \E f \in Files : Open(f) \/ Try(f) \/ Unlink(f)
  BY <1>2, <1>6 DEF Open, Try, Unlink, Untraced, recorder, inotify
<1>7. CASE UNCHANGED vars
  BY <1>7 DEF vars, recorder, inotify
<1> QED
  BY <1>3, <1>4, <1>5, <1>6, <1>7 DEF Next

(* and the first tier is made once. *)
LEMMA FirstTierKept ==
  ASSUME [Next]_vars, ~Parse
  PROVE  tierA' = tierA /\ (Parsed' => Parsed)
<1> USE DEF Parsed
<1>1. CASE Recorder
  BY <1>1 DEF Recorder, Spawn, Trace, Await, Run, Wait, Settle, List, Look, Goto
<1>2. CASE Establish \/ WriteLine \/ WatcherDies \/ (\E d \in Dirs : AddWatch(d) \/ OpenDir(d))
           \/ UNCHANGED vars
  BY <1>2 DEF Establish, WriteLine, WatcherDies, AddWatch, OpenDir, vars, recorder
<1>3. CASE \E f \in Files : Open(f) \/ Try(f) \/ Unlink(f)
  BY <1>3 DEF Open, Try, Unlink, recorder
<1> QED
  BY <1>1, <1>2, <1>3 DEF Next

LEMMA FirstTierStep == TypeOK /\ Watch /\ FirstTier /\ [Next]_vars => FirstTier'
<1> SUFFICES ASSUME TypeOK, Watch, FirstTier, [Next]_vars PROVE FirstTier'
  OBVIOUS
<1>0. log \in Seq(Files \union {0})
  BY DEF TypeOK
<1>1. CASE Parse
  <2>1. UNCHANGED <<tracer, log>>
    BY <1>1 DEF Parse, inotify
  <2>2. CASE tierA' \in FirstOf(log)
    <3>1. IsFirstOf(tierA', log)
      BY <1>0, <2>2, FirstOfOnce
    <3> QED
      BY <2>1, <3>1 DEF FirstTier, IsFirstOf, Ascends
  <2>3. CASE tracer = "log" /\ tierA' = <<>>
    <3>1. IsInjective(<<>>)
      BY DEF IsInjective
    <3> QED
      BY <2>1, <2>3, <3>1 DEF FirstTier
  <2> QED
    BY <1>1, <2>2, <2>3 DEF Parse
<1>2. CASE ~Parse
  <2>1. tierA' = tierA /\ (Parsed' => Parsed)
    BY <1>2, FirstTierKept
  <2>2. Parsed => tracer' = tracer /\ log' = log
    BY LogParsed
  <2> QED
    BY <2>1, <2>2 DEF FirstTier, IsFirstOf, Ascends
<1> QED
  BY <1>1, <1>2

(* While the recorder walks through the tree, the others can only remove     *)
(* what was there and create files of which nothing is asked.                *)
LEMMA OthersWalked ==
  ASSUME [Next]_vars, ~Recorder
  PROVE  /\ UNCHANGED <<step, tierA, tierB, unlisted, found>>
         /\ stayed' \subseteq stayed
         /\ stayed \subseteq present => stayed' \subseteq present'
<1> USE DEF recorder, walk
<1>1. CASE Establish \/ WriteLine \/ WatcherDies \/ (\E d \in Dirs : AddWatch(d) \/ OpenDir(d))
           \/ UNCHANGED vars
  BY <1>1 DEF Establish, WriteLine, WatcherDies, AddWatch, OpenDir, vars, tasks
<1>2. CASE \E f \in Files : Open(f)
  BY <1>2 DEF Open
<1>3. CASE \E f \in Files : Try(f)
  BY <1>3 DEF Try
<1>4. CASE \E f \in Files : Unlink(f)
  BY <1>4 DEF Unlink
<1> QED
  BY <1>1, <1>2, <1>3, <1>4 DEF Next

LEMMA InjectiveNothing == IsInjective(<<>>) /\ <<>> \in Seq(Files)
  BY DEF IsInjective

LEMMA WalkedStep == TypeOK /\ Walked /\ [Next]_vars => Walked'
<1> SUFFICES ASSUME TypeOK, Walked, [Next]_vars PROVE Walked'
  OBVIOUS
<1> USE DEF Walked, Listing, Looking, SecondTier, AllLooked, Over
<1>1. CASE ~Recorder
  BY <1>1, OthersWalked
<1>2. CASE Spawn \/ Trace \/ Await \/ Run \/ Wait \/ Settle
  BY <1>2 DEF Spawn, Trace, Await, Run, Wait, Settle, Goto
<1>3. CASE Parse
  <2>1. step' = "list" /\ stayed' = present /\ present' = present /\ unlisted' = Files
        /\ tierB' = tierB /\ present \subseteq Files
    BY <1>3 DEF Parse, TypeOK
  <2>2. tierB = <<>>
    BY <1>3 DEF Parse
  <2> QED
    BY <2>1, <2>2
<1>4. CASE List
  <2>1. step = "list" /\ UNCHANGED <<tierA, tierB, present, stayed>>
    BY <1>4 DEF List, Goto, tasks
  <2>2. CASE \E f \in unlisted :
               /\ unlisted' = unlisted \ {f} /\ found' = found \union ({f} \intersect present)
               /\ step' = step
    BY <2>1, <2>2
  <2>3. CASE unlisted = {} /\ Goto("look")
    <3>1. step' = "look" /\ found' = found /\ stayed \subseteq present \intersect found
          /\ tierB = <<>>
      BY <2>1, <2>3 DEF Goto, walk
    <3> QED
      BY <2>1, <3>1, ListedNothing, InjectiveNothing
  <2>4. CASE Goto("failed")
    BY <2>1, <2>4 DEF Goto
  <2> QED
    BY <1>4, <2>2, <2>3, <2>4 DEF List
<1>5. CASE Look
  <2>1. step = "look" /\ UNCHANGED <<tierA, present, stayed>>
    BY <1>5 DEF Look, Goto, tasks
  <2>2. ASSUME NEW f \in found, found' = found \ {f}, step' = step,
               tierB' = IF f \in present \ Listed(tierA) THEN Append(tierB, f) ELSE tierB
        PROVE  Walked'
    <3>1. tierB \in Seq(Files) /\ f \in Files
      BY DEF TypeOK
    <3>2. CASE f \in present \ Listed(tierA)
      <4>1. tierB' = Append(tierB, f)
        BY <2>2, <3>2
      <4>2. Listed(tierB') = Listed(tierB) \union {f} /\ f \notin Listed(tierB)
        BY <2>1, <3>1, <4>1, ListedAppend
      <4>3. IsInjective(tierB')
        BY <2>1, <3>1, <4>1, <4>2, InjectiveAppend
      <4>4. Listed(tierA') = Listed(tierA)
        BY <2>1
      <4>5. step' = "look"
        BY <2>1, <2>2
      <4> QED
        BY <2>1, <2>2, <3>2, <4>2, <4>3, <4>4, <4>5
    <3>3. CASE f \notin present \ Listed(tierA)
      <4>1. tierB' = tierB /\ (f \in stayed => f \in Listed(tierA))
        BY <2>1, <2>2, <3>3
      <4> QED
        BY <2>1, <2>2, <4>1
    <3> QED
      BY <3>2, <3>3
  <2>3. CASE found = {} /\ Goto("done")
    BY <2>1, <2>3 DEF Goto, walk
  <2> QED
    BY <1>5, <2>2, <2>3 DEF Look
<1> QED
  BY <1>1, <1>2, <1>3, <1>4, <1>5 DEF Recorder

-----------------------------------------------------------------------------
(* The theorems *)

LEMMA InitRec == Init => RecInv
<1> SUFFICES ASSUME Init PROVE RecInv
  OBVIOUS
<1>1. TypeOK
  BY InitType
<1>2. Watch
  BY DEF Init, Watch, Over
<1>3. SeenOpened
  <2>1. tracer = "inotify" => log = <<>> /\ queue = <<>>
    BY DEF Init
  <2>2. tracer = "inotify" => Seen = <<>>
    BY <2>1 DEF Seen
  <2> QED
    BY <2>2, ListedNothing DEF SeenOpened, Init
<1>4. AllSeen /\ SeenInOrder
  BY DEF Init, AllSeen, SeenInOrder
<1>5. TracedLog
  <2>1. IsFirstOf(<<>>, <<>>)
    <3>1. IsInjective(<<>>) /\ Ascends(<<>>, <<>>)
      BY DEF IsInjective, Ascends
    <3> QED
      BY <3>1, ListedNothing DEF IsFirstOf
  <2>2. tracer = "strace" => log = <<>> /\ traced = <<>>
    BY DEF Init
  <2> QED
    BY <2>1, <2>2, ListedNothing DEF TracedLog
<1>6. FirstTier /\ Walked
  BY DEF Init, FirstTier, Parsed, Walked, Listing, Looking, SecondTier, AllLooked, Over
<1> QED
  BY <1>1, <1>2, <1>3, <1>4, <1>5, <1>6 DEF RecInv

LEMMA NextRec == RecInv /\ [Next]_vars => RecInv'
  BY TypeStep, WatchStep, SeenOpenedStep, AllSeenStep, SeenInOrderStep, TracedLogStep,
     FirstTierStep, WalkedStep DEF RecInv

(* The invariant holds. *)
THEOREM RecordInvariance == Spec => []RecInv
<1> QED
  BY InitRec, NextRec, PTL DEF Spec

(* The variables of the recorder, of inotifywait and of the tasks have their *)
(* types; the kernel's queue never exceeds its length.                       *)
THEOREM RecordTypeCorrect == Spec => []TypeOK
<1>1. RecInv => TypeOK
  BY DEF RecInv
<1> QED
  BY <1>1, RecordInvariance, PTL

LEMMA TiersOnce == RecInv => EachOnce
<1> SUFFICES ASSUME RecInv, step = "done"
             PROVE  /\ stayed \subseteq Listed(tierA \o tierB)
                    /\ IsInjective(tierA \o tierB)
  BY DEF EachOnce
<1>1. tierA \in Seq(Files) /\ tierB \in Seq(Files)
  BY DEF RecInv, TypeOK
<1>2. IsInjective(tierA) /\ IsInjective(tierB) /\ Listed(tierA) \intersect Listed(tierB) = {}
  BY DEF RecInv, FirstTier, Parsed, Walked, SecondTier
<1>3. stayed \subseteq Listed(tierA) \union Listed(tierB)
  BY DEF RecInv, Walked, SecondTier, AllLooked
<1>4. Listed(tierA \o tierB) = Listed(tierA) \union Listed(tierB)
  BY <1>1, ListedConcat
<1>5. IsInjective(tierA \o tierB)
  BY <1>1, <1>2, InjectiveConcat
<1> QED
  BY <1>3, <1>4, <1>5

(* Whatever the watcher or strace misses, and whatever the tasks create and  *)
(* remove, the sequence has each file that is there from the beginning of    *)
(* the walk to its end, and no path twice (_all_files, _tier and the two     *)
(* parsers of monitor.py).                                                   *)
THEOREM RecordEachOnce == Spec => []EachOnce
  BY RecordInvariance, TiersOnce, PTL

LEMMA TierOfTraced == RecInv => TracedOpens
<1> SUFFICES ASSUME RecInv, tracer = "strace", step = "done"
             PROVE  /\ Listed(tierA) \subseteq Listed(traced)
                    /\ ~split => tierA = traced
  BY DEF TracedOpens
<1>1. tierA \in Seq(Files) /\ traced \in Seq(Files) /\ log \in Seq(Files \union {0})
  BY DEF RecInv, TypeOK
<1>2. IsFirstOf(tierA, log)
  BY DEF RecInv, FirstTier, Parsed
<1>3. Listed(tierA) \subseteq Listed(traced)
  BY <1>2 DEF RecInv, TracedLog, IsFirstOf
<1>4. ~split => tierA = traced
  BY <1>1, <1>2, FirstOfUnique DEF RecInv, TracedLog
<1> QED
  BY <1>3, <1>4

(* Under strace the first tier is what the processes of the command opened   *)
(* or tried to execute, in that order, unless strace split lines.            *)
THEOREM RecordTracedOpens == Spec => []TracedOpens
  BY RecordInvariance, TierOfTraced, PTL

LEMMA TierInOrder == RecInv => OrderOfOpens
<1> SUFFICES ASSUME RecInv, tracer = "inotify", step = "done", confirmed, ~overflow,
                    NEW f \in Listed(tierA) \ early
             PROVE  /\ f \in Listed(opens)
                    /\ \A g \in Listed(opens) \ early : Before(opens, g, f) => Before(tierA, g, f)
  BY DEF OrderOfOpens
<1>1. tierA \in Seq(Files) /\ opens \in Seq(Files) /\ log \in Seq(Files \union {0})
  BY DEF RecInv, TypeOK
<1>2. Seen = log
  <2>1. queue = <<>>
    BY DEF RecInv, Watch, Over
  <2> QED
    BY <1>1, <2>1 DEF Seen
<1>3. IsFirstOf(tierA, log)
  BY DEF RecInv, FirstTier, Parsed
<1>4. f \in Listed(log) \ (early \union {0})
  BY <1>3 DEF IsFirstOf
<1>5. f \in Listed(opens)
  BY <1>2, <1>4 DEF RecInv, SeenOpened
<1>6. ASSUME NEW g \in Listed(opens) \ early, Before(opens, g, f)
      PROVE  Before(tierA, g, f)
  <2>1. Before(log, g, f)
    BY <1>2, <1>4, <1>6 DEF RecInv, SeenInOrder
  <2>2. g \in Listed(log) \ {0}
    <3>1. g \in Listed(log)
      BY <2>1 DEF Before, Listed
    <3>2. g \in Files
      BY <1>1 DEF Listed
    <3> QED
      BY <3>1, <3>2, DirOfFile
  <2> QED
    BY <1>1, <1>3, <2>1, <2>2, BeforeInFirst
<1> QED
  BY <1>5, <1>6

(* With the watches confirmed and no event dropped, the first tier is the    *)
(* order of the first opens since the restore began, up to where the watcher *)
(* was stopped.                                                              *)
THEOREM RecordOrderOfOpens == Spec => []OrderOfOpens
  BY RecordInvariance, TierInOrder, PTL
=============================================================================
