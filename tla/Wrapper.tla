------------------------------ MODULE Wrapper ------------------------------
(***************************************************************************)
(* The whole life of the wrapper process, satecode/agent.py: Agent, with   *)
(* what it leaves open.  It reads run.json (_load_cfg, _apply_cfg) when it *)
(* starts and again after the gate; before the gate it imports what the    *)
(* script will need (Imports); the application it runs is a batch of       *)
(* telemetry (Telemetry).  Anybody may write run.json at any time.         *)
(*                                                                         *)
(* A scenario says what is given and what may happen: the graph of the     *)
(* imports, the batch, the writes of run.json, the signals.                *)
(***************************************************************************)
EXTENDS Agent, Imports, Telemetry, TLC

CONSTANTS
  Scenarios,
  Configs,  \* what run.json may say: args, env (variable -> value), workdir
  Torn,     \* what it says while it is being written: nothing that can be parsed
  Home,     \* the working directory in which runc starts the process
  Reach,    \* Reach[d][w]: the directory to which the name w leads from d, or
  NoDir     \* NoDir; a relative name leads elsewhere from elsewhere

ASSUME WrapperAssumption ==
  \A s \in Scenarios :
    /\ IsGraph(s.graph) /\ s.batch \in Seq(Packet)
    /\ s.sync \subseteq BOOLEAN /\ s.signals \in 0..MaxSignals

VARIABLES
  scenario,
  file,     \* run.json: a configuration, or Torn; a missing file is an empty one
  env,      \* the variables that are not as docker has set them
  args,     \* the arguments from run.json; none leaves those of the command line
  cwd,      \* the working directory
  again,    \* has run.json been read after the gate?
  writes,   \* how often it has been written
  first,    \* history: what was read first
  altered   \* history: it has been written since the first signal

configVars == <<file, env, args, cwd, again, writes, first, altered>>
processVars == vars
wrapperVars == <<scenario, configVars, importVars, batchVars, processVars>>

NoConfig == [args |-> <<>>, env |-> <<>>, workdir |-> ""]
Said(f) == IF f = Torn THEN NoConfig ELSE f

WrapperInit ==
  /\ Init /\ scenario \in Scenarios
  /\ SearchFrom(scenario.graph) /\ BatchInit(scenario.batch)
  /\ file = scenario.file /\ env = <<>> /\ args = <<>> /\ cwd = Home
  /\ again = FALSE /\ writes = 0 /\ first = NoConfig /\ altered = FALSE

-----------------------------------------------------------------------------
(* runc run; a process that has ended does not come back. *)
Start ==
  /\ pc = Absent
  /\ \E s \in scenario.sync, c \in BOOLEAN : Exec(s, c)
  /\ UNCHANGED <<scenario, configVars, importVars, batchVars>>

(* A workdir that is no directory, from where the process is, is passed over. *)
WorkingDir(c, dir) ==
  IF c.workdir # "" /\ Reach[dir][c.workdir] # NoDir THEN Reach[dir][c.workdir] ELSE dir

(* The entries of env are set, none is unset. *)
Apply(c) == env' = c.env @@ env /\ args' = c.args /\ cwd' = WorkingDir(c, cwd)

(* Nothing has been set before. *)
FirstConfig ==
  /\ pc = "import" /\ phase = "config"
  /\ first' = Said(file)
  /\ env' = first'.env /\ args' = first'.args /\ cwd' = WorkingDir(first', Home)
  /\ StartSearch
  /\ UNCHANGED <<scenario, file, again, writes, altered, batchVars, processVars>>

ImportDependencies ==
  /\ pc = "import" /\ (Search \/ StartPreload \/ Preload)
  /\ UNCHANGED <<scenario, configVars, batchVars, processVars>>

(* A module may end the process while it is imported, in any import. *)
ImportCrash ==
  /\ phase = "preload" /\ Crash
  /\ UNCHANGED <<scenario, configVars, importVars, batchVars>>

ImportsDone ==
  /\ phase = "ready" /\ Import
  /\ UNCHANGED <<scenario, configVars, importVars, batchVars>>

GateStep ==
  /\ CreateToken \/ WriteToken \/ Install \/ TestDone \/ RunHandler \/ EnterPause \/ Wake
       \/ Uninstall \/ Unlink
  /\ UNCHANGED <<scenario, configVars, importVars, batchVars>>

(* A plausible bug: only the variables are taken from the second reading. *)
SecondConfig_OnlyEnv ==
  /\ pc = "launch" /\ sync /\ ~again
  /\ again' = TRUE /\ env' = Said(file).env @@ env
  /\ UNCHANGED <<scenario, file, args, cwd, writes, first, altered, importVars, batchVars, processVars>>

SecondConfig ==
  /\ pc = "launch" /\ sync /\ ~again
  /\ again' = TRUE /\ Apply(Said(file))
  /\ UNCHANGED <<scenario, file, writes, first, altered, importVars, batchVars, processVars>>

(* Entry point and arguments are put together only here: without either      *)
(* there is nothing to run, but arguments of run.json are something.         *)
Launch ==
  /\ pc = "launch" /\ (sync => again)
  /\ IF cmd \/ args = <<>> THEN StartApp
     ELSE pc' = "app" /\ starts' = starts + 1 /\ UNCHANGED <<handler, tripped, done, token, sync, cmd, sent>>
  /\ UNCHANGED <<scenario, configVars, importVars, batchVars>>

RunBatch ==
  /\ pc = "app" /\ BatchStep
  /\ UNCHANGED <<scenario, configVars, importVars, processVars>>

AppEnds ==
  /\ main \in {"returned", "failed"} /\ Exit
  /\ UNCHANGED <<scenario, configVars, importVars, batchVars>>

-----------------------------------------------------------------------------
(* The rest of the world. *)
Signalled ==
  /\ sent < scenario.signals /\ Signal
  /\ UNCHANGED <<scenario, configVars, importVars, batchVars>>

WriteConfig ==
  /\ writes < scenario.writes
  /\ file' \in {Torn} \union Configs /\ file' # file
  /\ writes' = writes + 1 /\ altered' = (altered \/ sent > 0)
  /\ UNCHANGED <<scenario, env, args, cwd, again, first, importVars, batchVars, processVars>>

WrapperStep ==
  \/ FirstConfig \/ ImportDependencies \/ ImportsDone \/ GateStep
  \/ SecondConfig \/ Launch \/ RunBatch

WrapperNext == Start \/ WrapperStep \/ ImportCrash \/ AppEnds \/ Signalled \/ WriteConfig

(* The kernel keeps scheduling the process and its threads. *)
WrapperSpec == WrapperInit /\ [][WrapperNext]_wrapperVars /\ WF_wrapperVars(WrapperStep)

-----------------------------------------------------------------------------
(* Properties *)

(* What run.json says when the process is told to go on, and still says when *)
(* the application starts, is what the application gets, whatever it said    *)
(* when the process was checkpointed, with two exceptions: the variables     *)
(* that only the first reading has set stay, and so does the directory to    *)
(* which it has led, from which a relative workdir is now looked up, and in  *)
(* which the application stays if the new one is none.  While run.json is    *)
(* being written it says nothing.                                            *)
ConfigFresh ==
  (sync /\ starts > 0 /\ ~altered) =>
    /\ args = Said(file).args
    /\ env = Said(file).env @@ first.env
    /\ cwd = WorkingDir(Said(file), WorkingDir(first, Home))
=============================================================================
