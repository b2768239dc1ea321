------------------------------ MODULE Imports ------------------------------
(***************************************************************************)
(* _dep_graph and _preload of satecode/agent.py: the modules that the      *)
(* script imports, and those that these import, are found by reading       *)
(* sources, breadth first and down to a depth, and then imported.  The     *)
(* imports of a source are a set, whose order differs from run to run.     *)
(***************************************************************************)
EXTENDS Integers, SequencesExt

CONSTANT Depth  \* of the search

ASSUME ImportsAssumption == Depth \in Nat

VARIABLES
  graph,    \* the modules the script imports (top); the imports of each module (uses);
            \* those whose source can be read (source); those in _SKIP or imported
            \* by the wrapper itself (known)
  phase,    \* "config" (before the search), "search", "preload", or "ready"
  queue,    \* modules with their depth
  order,    \* the modules to preload
  modules   \* sys.modules, beyond those known

importVars == <<graph, phase, queue, order, modules>>

(* The modules there are, finitely many, import each other. *)
IsGraph(g) ==
  /\ IsFiniteSet(DOMAIN g.uses) /\ g.top \subseteq DOMAIN g.uses
  /\ \A n \in DOMAIN g.uses : g.uses[n] \subseteq DOMAIN g.uses

SearchFrom(g) ==
  /\ graph = g /\ phase = "config" /\ queue = <<>> /\ order = <<>> /\ modules = {}

AtDepth(s, d) == [i \in 1..Len(s) |-> [name |-> s[i], depth |-> d]]

StartSearch ==
  /\ phase = "config"
  /\ phase' = "search"
  /\ \E s \in SetToSeqs(graph.top \ graph.known) : queue' = AtDepth(s, 0)
  /\ UNCHANGED <<graph, order, modules>>

Ignored(n) == n \in ToSet(order) \union graph.known

(* A plausible bug: the last module of the queue is taken, not the first. *)
Search_LastFirst ==
  /\ phase = "search" /\ queue # <<>>
  /\ LET e == Last(queue)
         children == {n \in graph.uses[e.name] : ~Ignored(n) /\ n # e.name}
     IN  IF Ignored(e.name)
           THEN queue' = Front(queue) /\ UNCHANGED order
           ELSE /\ order' = Append(order, e.name)
                /\ IF e.depth < Depth /\ e.name \in graph.source
                     THEN \E s \in SetToSeqs(children) : queue' = Front(queue) \o AtDepth(s, e.depth + 1)
                     ELSE queue' = Front(queue)
  /\ UNCHANGED <<graph, phase, modules>>

(* A module may be in the queue several times, at its least depth first. *)
Search ==
  /\ phase = "search" /\ queue # <<>>
  /\ LET e == Head(queue)
         children == {n \in graph.uses[e.name] : ~Ignored(n) /\ n # e.name}
     IN  IF Ignored(e.name)
           THEN queue' = Tail(queue) /\ UNCHANGED order
           ELSE /\ order' = Append(order, e.name)
                /\ IF e.depth < Depth /\ e.name \in graph.source
                     THEN \E s \in SetToSeqs(children) : queue' = Tail(queue) \o AtDepth(s, e.depth + 1)
                     ELSE queue' = Tail(queue)
  /\ UNCHANGED <<graph, phase, modules>>

StartPreload ==
  /\ phase = "search" /\ queue = <<>>
  /\ phase' = "preload"
  /\ UNCHANGED <<graph, queue, order, modules>>

(* An import brings what the module imports with it; one that fails, with    *)
(* any exception, brings some of it, and is skipped.                         *)
Preload ==
  /\ phase = "preload"
  /\ LET rest == SelectSeq(order, LAMBDA n : n \notin modules)
     IN  IF rest = <<>>
           THEN phase' = "ready" /\ UNCHANGED <<order, modules>>
           ELSE /\ \/ modules' = modules \union {Head(rest)} \union (graph.uses[Head(rest)] \ graph.known)
                   \/ modules' = modules \union (graph.uses[Head(rest)] \ graph.known)
                /\ order' = Tail(rest) /\ UNCHANGED phase
  /\ UNCHANGED <<graph, queue>>

ImportStep == StartSearch \/ Search \/ StartPreload \/ Preload

-----------------------------------------------------------------------------
(* Properties *)

Unknown == DOMAIN graph.uses \ graph.known

(* The script imports the first of k modules, and each of them the next. *)
Chains(k) ==
  {c \in [1..k -> Unknown] :
     c[1] \in graph.top /\ \A i \in 2..k : c[i-1] \in graph.source /\ c[i] \in graph.uses[c[i-1]]}

(* The modules that a chain of at most n further imports leads to. *)
Within(n) == {m \in Unknown : \E k \in 1..n+1 : \E c \in Chains(k) : c[k] = m}

(* The search finds exactly the modules within the depth, each once, and in  *)
(* the order of their distance from the script, in whatever order the        *)
(* imports of a source come.                                                 *)
SearchComplete ==
  (phase = "search" /\ queue = <<>>) =>
    /\ ToSet(order) = Within(Depth) /\ IsInjective(order)
    /\ \A i, j \in 1..Len(order) : \A n \in 0..Depth :
         i < j /\ order[j] \in Within(n) => order[i] \in Within(n)
=============================================================================
