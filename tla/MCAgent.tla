------------------------------ MODULE MCAgent ------------------------------
(* The wrapper process in four kinds of scenarios: any signals; every graph  *)
(* of three modules; batches of packets that share channels or do not; and   *)
(* run.json written while the process is at the gate.                        *)
EXTENDS Wrapper

CONSTANTS t1, t2, p, q, k

MCThreads == {t1, t2}
MCChannel == {p, q}

Module == 1..3
Graphs ==
  [top : SUBSET Module, uses : [Module -> SUBSET Module], source : {{1, 2}}, known : {{}}]
    \union [top : {{1, 2}}, uses : [Module -> {{2}, {3}, {2, 3}}], source : {Module}, known : {{2}, {3}}]

NoImports == [top |-> {}, uses |-> [n \in Module |-> {}], source |-> {}, known |-> {}]

Hk(t, cs) == [time |-> t, kind |-> "hk", channels |-> cs]
Other(kind) == [time |-> 1, kind |-> kind, channels |-> <<>>]
Batches ==
  {<<Hk(2, <<p, q>>), Hk(1, <<p>>), Hk(1, <<q>>)>>,
   <<Hk(1, <<p, p>>), Hk(1, <<q, q>>), Other("science")>>,
   <<Hk(2, <<p>>), Other("corrupt"), Hk(1, <<p>>)>>,
   <<Hk(2, <<p, p>>), Hk(1, <<p, p>>)>>,
   <<Other("malformed"), Hk(2, <<p, q>>), Hk(1, <<>>)>>}

(* From the root directory "data" leads somewhere; "/data" does from anywhere. *)
Names == {"data", "/data", "gone"}
MCReach ==
  [d \in {"/", "/data"} |-> [w \in Names |->
     IF w = "/data" \/ (w = "data" /\ d = "/") THEN "/data" ELSE NoDir]]

Config(a, v, w) == [args |-> a, env |-> v, workdir |-> w]
MCConfigs ==
  {NoConfig, Config(<<"x">>, k :> 1, "data"), Config(<<"y">>, k :> 2, "/data"),
   Config(<<>>, ("j" :> 1), "gone")}

Base == [graph |-> NoImports, batch |-> <<>>, file |-> NoConfig, writes |-> 0,
         signals |-> 0, sync |-> {FALSE}]

MCScenarios ==
  {[Base EXCEPT !.signals = MaxSignals, !.sync = BOOLEAN]}
    \union {[Base EXCEPT !.graph = g] : g \in Graphs}
    \union {[Base EXCEPT !.batch = b] : b \in Batches}
    \union {[Base EXCEPT !.file = f, !.writes = 2, !.signals = 1, !.sync = {TRUE}] : f \in MCConfigs}
=============================================================================
