---------------------------------- MODULE Experiment ----------------------------------
(***************************************************************************)
(* The orchestrator, main of experiment.py: it starts the network and the  *)
(* programs, finds their processes, waits until TimeKeeper has them all,   *)
(* lets the experiment progress and takes everything down.  The programs   *)
(* register with TimeKeeper, or exit, by themselves at any moment.  Main   *)
(* catches no exception: one ends it and leaves everything as it is.       *)
(***************************************************************************)
EXTENDS Integers, Sequences, FiniteSets, SequencesExt

CONSTANTS
  HostNames,      \* in the order of their names, as they are started
  SwitchNames,
  Modes       \* of the command line

Programs == ToSet(HostNames) \cup SwitchNames

ASSUME ProgramsAssumption ==
  /\ HostNames # <<>> /\ IsInjective(HostNames) /\ ToSet(HostNames) \cap SwitchNames = {}
  /\ IsFiniteSet(Programs)

Timed == {"APP_VT", "INS_VT"}   \* the modes whose programs register by themselves

VARIABLES
  mode,       \* args.mode
  epc,        \* where main is
  net,        \* "off", "up", "stopped"
  prog,       \* each program: "off", "up", "joined" (registered), "gone"
  procs,      \* host_procs and switch_procs: programs whose pid main has
  owners,     \* programs whose interfaces have an owner
  exp         \* TimeKeeper: "none", "open", "frozen", "progressed", "stopped"

experimentVars == <<mode, epc, net, prog, procs, owners, exp>>

ExperimentInit ==
  /\ mode \in Modes
  /\ epc = "begin" /\ net = "off" /\ exp = "none"
  /\ prog = [p \in Programs |-> "off"]
  /\ procs = {} /\ owners = {}

Alive(p) == prog[p] \in {"up", "joined"}

Goto(place) == epc' = place /\ UNCHANGED mode

---------------------------------------------------------------------------------
(* Setting up. *)

\* Faulty: forgotten for one of the modes.
InitializeExpAppOnly ==
  /\ epc = "begin"
  /\ exp' = IF mode = "APP_VT" THEN "open" ELSE exp
  /\ Goto("net")
  /\ UNCHANGED <<net, prog, procs, owners>>

InitializeExp ==
  /\ epc = "begin"
  /\ IF mode \in Timed
     THEN \/ exp' = "open" /\ Goto("net")
          \/ exp' = exp /\ Goto("aborted")
     ELSE exp' = exp /\ Goto("net")
  /\ UNCHANGED <<net, prog, procs, owners>>

\* net.start() starts the routers; VTSwitch.start keeps their pids.
StartNet ==
  /\ epc = "net"
  /\ net' = "up"
  /\ prog' = [p \in Programs |-> IF p \in SwitchNames THEN "up" ELSE "off"]
  /\ Goto("hosts")
  /\ UNCHANGED <<procs, owners, exp>>

\* The host main is at: the first whose pid it has not.
Current(h) ==
  /\ h \notin procs
  /\ \E k \in DOMAIN HostNames : h = HostNames[k] /\ \A j \in 1..k - 1 : HostNames[j] \in procs

\* The file for its output is opened first.
StartHost ==
  /\ epc = "hosts"
  /\ \E h \in ToSet(HostNames) :
       /\ Current(h)
       /\ \/ prog' = [prog EXCEPT ![h] = "up"] /\ Goto("ps")
          \/ prog' = prog /\ Goto("aborted")
  /\ UNCHANGED <<net, procs, owners, exp>>

\* get_pids_with_cmd: ps shows the process, else it sleeps and looks again.
SeeProcess ==
  /\ epc = "ps"
  /\ \E h \in ToSet(HostNames) : Current(h) /\ Alive(h)
  /\ Goto("status")
  /\ UNCHANGED <<net, prog, procs, owners, exp>>

\* procStatus reads /proc/pid/status.  A process in state D, in a sleep that cannot be
\* interrupted, is not counted, and main sleeps and looks again; one gone since ps has
\* shown it is an exception.
ReadStatus ==
  /\ epc = "status"
  /\ \E h \in ToSet(HostNames) :
       /\ Current(h)
       /\ \/ Alive(h) /\ procs' = procs \cup {h} /\ Goto("hosts")
          \/ Alive(h) /\ procs' = procs /\ Goto("ps")
          \/ ~Alive(h) /\ procs' = procs /\ Goto("aborted")
  /\ UNCHANGED <<net, prog, owners, exp>>

FindSwitches ==
  /\ epc = "hosts"
  /\ ToSet(HostNames) \subseteq procs
  /\ procs' = procs \cup SwitchNames
  /\ Goto(CASE mode = "normal" -> "sleep"
            [] mode = "VT" -> "dilate"
            [] mode \in Timed -> "synchronize"
            [] OTHER -> "stop net")
  /\ UNCHANGED <<net, prog, owners, exp>>

---------------------------------------------------------------------------------
(* The experiment. *)

\* Mode normal: a minute without TimeKeeper.
Sleep ==
  /\ epc = "sleep"
  /\ Goto("stop net")
  /\ UNCHANGED <<net, prog, procs, owners, exp>>

\* Mode VT: the processes are dilated and added to the experiment, and then the name
\* my_tdf is not defined.
Dilate ==
  /\ epc = "dilate"
  /\ prog' = [p \in Programs |-> IF Alive(p) THEN "joined" ELSE prog[p]]
  /\ exp' = "open"
  /\ Goto("aborted")
  /\ UNCHANGED <<net, procs, owners>>

Joined == {p \in Programs : prog[p] = "joined"}

\* Faulty: the result of synchronizeAndFreeze is not looked at.
SynchronizeOnce ==
  /\ epc = "synchronize"
  /\ exp' = IF Cardinality(Joined) >= Cardinality(procs) THEN "frozen" ELSE exp
  /\ Goto("owners")
  /\ UNCHANGED <<net, prog, procs, owners>>

\* synchronizeAndFreeze succeeds when TimeKeeper has as many processes as main; else
\* main sleeps and tries again.
Synchronize ==
  /\ epc = "synchronize"
  /\ Cardinality(Joined) >= Cardinality(procs)
  /\ exp' = "frozen"
  /\ Goto("owners")
  /\ UNCHANGED <<net, prog, procs, owners>>

\* set_netdevice_owner for the interfaces of each process.
SetOwners ==
  /\ epc = "owners"
  /\ owners' = procs
  /\ Goto("progress")
  /\ UNCHANGED <<net, prog, procs, exp>>

\* progress_n_rounds: afterwards each program waits for its next round.
Progress ==
  /\ epc = "progress"
  /\ exp' = "progressed"
  /\ Goto("statistics")
  /\ UNCHANGED <<net, prog, procs, owners>>

\* The statistics may be too few, or the file they are written to not be opened.
WriteStatistics ==
  /\ epc = "statistics"
  /\ \/ Goto("stop exp")
     \/ Goto("aborted")
  /\ UNCHANGED <<net, prog, procs, owners, exp>>

StopExp ==
  /\ epc = "stop exp"
  /\ exp' = "stopped"
  /\ Goto("stop net")
  /\ UNCHANGED <<net, prog, procs, owners>>

StopNet ==
  /\ epc = "stop net"
  /\ net' = "stopped"
  /\ Goto("done")
  /\ UNCHANGED <<prog, procs, owners, exp>>

\* Main is through, or goes round in one of its waiting loops.
Idle == epc \in {"done", "aborted", "ps", "synchronize"} /\ UNCHANGED experimentVars

MainStep ==
  \/ InitializeExp \/ StartNet \/ StartHost \/ SeeProcess \/ ReadStatus \/ FindSwitches
  \/ Sleep \/ Dilate \/ Synchronize \/ SetOwners \/ Progress \/ WriteStatistics
  \/ StopExp \/ StopNet

---------------------------------------------------------------------------------
(* The programs.  A frozen one does nothing until the experiment progresses. *)

\* addToExp_sp; the program registers once TimeKeeper has an experiment.
Join(p) ==
  /\ mode \in Timed
  /\ prog[p] = "up" /\ exp = "open"
  /\ prog' = [prog EXCEPT ![p] = "joined"]
  /\ UNCHANGED <<mode, epc, net, procs, owners, exp>>

Exit(p) ==
  /\ Alive(p) /\ exp # "frozen"
  /\ prog' = [prog EXCEPT ![p] = "gone"]
  /\ UNCHANGED <<mode, epc, net, procs, owners, exp>>

ProgramStep(p) == Join(p) \/ Exit(p)

ExperimentNext == MainStep \/ Idle \/ \E p \in Programs : ProgramStep(p)

\* The orchestrator runs, and a program that lives registers.
ExperimentSpec ==
  /\ ExperimentInit /\ [][ExperimentNext]_experimentVars
  /\ WF_experimentVars(MainStep)
  /\ \A p \in Programs : WF_experimentVars(Join(p))

---------------------------------------------------------------------------------

\* The experiment progresses only with every program of the topology registered,
\* frozen and owning its interfaces, though each registers or exits when it likes
\* (the loop of experiment.py:328).
ProgressComplete ==
  [][exp' = "progressed" /\ exp # "progressed" =>
       exp = "frozen" /\ Joined = Programs /\ owners = Programs]_experimentVars

\* What may cut a run short: a name that is not defined, the statistics, or a host whose
\* program could not be started or is gone when its status is read.
CutShort ==
  \/ mode = "VT"
  \/ exp = "progressed"
  \/ \E h \in ToSet(HostNames) : Current(h) /\ ~Alive(h)

\* Main looks again for a process that was in state D.
LookAgain == epc = "status" /\ epc' = "ps"

\* Each run whose network has come up takes it down in the end, in every mode and whatever
\* the programs do, but for exceptions of these kinds, for a process that main looks
\* for or waits for in one of its loops and that is gone, and for one that is found in state D
\* again and again (experiment.py:107 and 328).
Ends ==
  \/ net = "up" ~> epc = "done" \/ (epc = "aborted" /\ CutShort)
  \/ <>[](\E p \in Programs :
            prog[p] = "gone" /\ epc = (IF p \in procs THEN "synchronize" ELSE "ps"))
  \/ []<><<LookAgain>>_experimentVars

---------------------------------------------------------------------------------
(***************************************************************************)
(* Why these hold: where main is tells what state it has brought           *)
(* TimeKeeper to, and from the freeze to the progress nobody else changes  *)
(* it.                                                                     *)
(***************************************************************************)
ExperimentTypeOK ==
  /\ epc \in {"begin", "net", "hosts", "ps", "status", "sleep", "dilate", "synchronize",
              "owners", "progress", "statistics", "stop exp", "stop net", "done", "aborted"}
  /\ net \in {"off", "up", "stopped"}
  /\ prog \in [Programs -> {"off", "up", "joined", "gone"}]
  /\ procs \subseteq Programs /\ owners \subseteq Programs
  /\ exp \in {"none", "open", "frozen", "progressed", "stopped"}

\* TimeKeeper's experiment at each place of main.
Stage ==
  /\ epc = "begin" => exp = "none"
  /\ epc \in {"net", "hosts", "ps", "status"} => exp = (IF mode \in Timed THEN "open" ELSE "none")
  /\ epc \in {"sleep", "dilate"} => exp = "none" /\ mode \notin Timed
  /\ epc = "synchronize" => exp = "open"
  /\ epc \in {"owners", "progress"} => exp = "frozen"
  /\ epc \in {"statistics", "stop exp"} => exp = "progressed"
  /\ epc \in {"synchronize", "owners", "progress", "statistics", "stop exp"} => mode \in Timed
  /\ epc \in {"stop net", "done"} => exp = (IF mode \in Timed THEN "stopped" ELSE "none")

\* What main knows of the programs once it has found them all.
Complete ==
  /\ epc \in {"synchronize", "owners", "progress"} => procs = Programs
  /\ epc \in {"owners", "progress"} => Joined = Programs
  /\ epc = "progress" => owners = Programs

\* The invariant that every step preserves.
StageInv == ExperimentTypeOK /\ Stage /\ Complete

=================================================================================
