------------------------------ MODULE Container ------------------------------
(***************************************************************************)
(* One container identifier on one agent: the goroutines of handleAssign    *)
(* that run RunContainer for it, the handleUnassign calls that run          *)
(* StopContainer for it, and the agent's crash and restart.  They meet in   *)
(* containerd's record and task, the CNI allocation and the agent's map of  *)
(* addresses, all of which are keyed by the identifier alone: a step of one *)
(* call acts on whatever carries the identifier when it is taken.           *)
(*                                                                         *)
(* containerd and CNI are external.  As the code uses them: a record with   *)
(* a task cannot be deleted; a task can be deleted once its process has     *)
(* exited.  An ADD of CNI is a chain of plugins, the first of which takes   *)
(* an address and the second of which maps the ports: it can fail after the *)
(* address is taken.  A DEL releases what the identifier holds, or fails,   *)
(* which all its callers log and ignore.                                    *)
(***************************************************************************)
EXTENDS Naturals

CONSTANTS Run,        \* calls of RunContainer (one per assignment)
          Stop,       \* calls of StopContainer (one per unassignment)
          None,       \* nothing
          MaxCrashes  \* bound: how often the agent crashes

ASSUME ContainerAssumption == None \notin Run /\ MaxCrashes \in Nat

ASSUME NoTaskAssumption ==
  None \notin [run : Run, state : {"created", "running", "stopped"}]

VARIABLES run,        \* where each RunContainer is
          stop,       \* where each StopContainer is
          loaded,     \* the record each StopContainer found
          record,     \* the run whose container record there is, or None
          task,       \* [run, state] of the task there is, or None
          address,    \* the runs CNI holds an address for
          lost,       \* history: the addresses let go of by a CNI error or a crash
          ip,         \* the run whose address Client.ips has, or None
          up,         \* is the agent serving?
          crashes

external == <<record, task, address, lost>>
network == <<address, lost>>
vars == <<run, stop, loaded, external, ip, up, crashes>>

RunStep == {"none", "pull", "newtask", "setup", "setip", "start", "wait",
            "exit_cni", "exit_task", "exit_clear", "exit_delete",
            "undo_cni", "undo_task", "undo_clear", "undo_delete", "done"}

StopStep == {"none", "load", "task", "kill", "teardown", "tdelete", "clear",
             "cdelete", "done"}

\* The calls are at known steps, and containerd, CNI and Client.ips hold what
\* calls of RunContainer put there.
ContainerTypeOK ==
  /\ run \in [Run -> RunStep]
  /\ stop \in [Stop -> StopStep]
  /\ loaded \in [Stop -> Run \cup {None}]
  /\ record \in Run \cup {None}
  /\ task \in [run : Run, state : {"created", "running", "stopped"}] \cup {None}
  /\ address \subseteq Run /\ lost \subseteq Run
  /\ ip \in Run \cup {None}
  /\ up \in BOOLEAN
  /\ crashes \in 0..MaxCrashes

Init ==
  /\ run = [g \in Run |-> "none"]
  /\ stop = [s \in Stop |-> "none"]
  /\ loaded = [s \in Stop |-> None]
  /\ record = None /\ task = None /\ address = {} /\ lost = {} /\ ip = None
  /\ up = TRUE
  /\ crashes = 0

\* A RunContainer goes from one step to another; so does a StopContainer.
RunGoes(g, from, to) ==
  /\ run[g] = from
  /\ run' = [run EXCEPT ![g] = to]
  /\ UNCHANGED <<stop, loaded, up, crashes>>

StopGoes(s, from, to) ==
  /\ stop[s] = from
  /\ stop' = [stop EXCEPT ![s] = to]
  /\ UNCHANGED <<run, up, crashes>>

-----------------------------------------------------------------------------
(***************************************************************************)
(* containerd, the CNI plugins and the address map.                        *)
(***************************************************************************)

\* Does g's task exist, in the given state?
TaskIs(g, state) == task = [run |-> g, state |-> state]

\* task.Delete: of a task that has exited; of another it is an error that the
\* callers tolerate (benignDeleteErr).
DeleteTask ==
  task' = IF task # None /\ task.state = "stopped" THEN None ELSE task

\* container.Delete: fails while there is a task, and tolerates a missing one.
DeleteRecord == record' = IF task = None THEN None ELSE record

\* task.Kill with SIGKILL, and the wait for the exit.
KillTask == task' = IF task # None THEN [task EXCEPT !.state = "stopped"] ELSE None

\* CNI.Teardown: releases by identifier, whoever holds the address; or fails,
\* and then nobody else releases what it was called for.
Teardown(called) ==
  \/ address' = {} /\ lost' = {}
  \/ address' = address /\ lost' = lost \cup (called \cap address)

\* clearIP, setIP.
clearIP == ip' = None

\* A faulty version: what is recorded is the task.
setIPToTask(g) == ip' = task

setIP(g) == ip' = g

-----------------------------------------------------------------------------
(***************************************************************************)
(* handleAssign and RunContainer.                                          *)
(***************************************************************************)

\* handleAssign answers and leaves the rest to a goroutine.
HandleAssign(g) ==
  /\ up
  /\ RunGoes(g, "none", "pull")
  /\ UNCHANGED <<external, ip>>

\* The image cannot be pulled.
PullFails(g) == RunGoes(g, "pull", "done") /\ UNCHANGED <<external, ip>>

\* NewContainer: given up when the identifier is taken.
NewContainer(g) ==
  /\ IF record = None THEN RunGoes(g, "pull", "newtask") /\ record' = g
                      ELSE RunGoes(g, "pull", "done") /\ UNCHANGED record
  /\ UNCHANGED <<task, network, ip>>

\* NewTask: needs the record, and no task for it; may fail.
NewTask(g) ==
  /\ \/ /\ record # None /\ task = None
        /\ RunGoes(g, "newtask", "setup")
        /\ task' = [run |-> g, state |-> "created"]
     \/ RunGoes(g, "newtask", "undo_clear") /\ UNCHANGED task
  /\ UNCHANGED <<record, network, ip>>

\* CNI.Setup: needs the network namespace of g's process.  It may fail, with
\* nothing done or with the address taken and the ports not mapped; RunContainer
\* returns before the Teardown is deferred.
Setup(g) ==
  /\ \/ /\ TaskIs(g, "created") /\ RunGoes(g, "setup", "setip")
        /\ address' = address \cup {g} /\ lost' = lost
     \/ /\ TaskIs(g, "created") /\ RunGoes(g, "setup", "undo_task")
        /\ address' = address \cup {g} /\ lost' = lost \cup {g}
     \/ RunGoes(g, "setup", "undo_task") /\ UNCHANGED network
  /\ UNCHANGED <<record, task, ip>>

RecordIP(g) == RunGoes(g, "setip", "start") /\ setIP(g) /\ UNCHANGED external

\* task.Wait and task.Start: of g's task, and either may fail.
StartTask(g) ==
  /\ \/ /\ TaskIs(g, "created")
        /\ RunGoes(g, "start", "wait")
        /\ task' = [task EXCEPT !.state = "running"]
     \/ RunGoes(g, "start", "undo_cni") /\ UNCHANGED task
  /\ UNCHANGED <<record, network, ip>>

\* The process exits.
ProcessExits ==
  /\ task # None
  /\ task.state = "running"
  /\ task' = [task EXCEPT !.state = "stopped"]
  /\ UNCHANGED <<run, stop, loaded, record, network, ip, up, crashes>>

\* A faulty version: the exit is missed when the task has been deleted.
ExitMissed(g) ==
  /\ TaskIs(g, "stopped")
  /\ RunGoes(g, "wait", "exit_cni")
  /\ UNCHANGED <<external, ip>>

\* The exit status arrives: tear down the network, the task, the address and
\* the record, in that order.
ExitArrives(g) ==
  /\ ~TaskIs(g, "running")
  /\ RunGoes(g, "wait", "exit_cni")
  /\ UNCHANGED <<external, ip>>

ExitCni(g) ==
  RunGoes(g, "exit_cni", "exit_task") /\ Teardown({g}) /\ UNCHANGED <<record, task, ip>>

\* A faulty version: the task is not deleted.
ExitTaskForgotten(g) ==
  RunGoes(g, "exit_task", "exit_clear") /\ UNCHANGED <<external, ip>>

ExitTask(g) ==
  RunGoes(g, "exit_task", "exit_clear") /\ DeleteTask /\ UNCHANGED <<record, network, ip>>

ExitClear(g) == RunGoes(g, "exit_clear", "exit_delete") /\ clearIP /\ UNCHANGED external

ExitDelete(g) ==
  RunGoes(g, "exit_delete", "done") /\ DeleteRecord /\ UNCHANGED <<task, network, ip>>

\* The deferred clean-up after an error, in the reverse order of the set-up.
\* WithProcessKill kills whatever task carries the identifier.
UndoCni(g) ==
  RunGoes(g, "undo_cni", "undo_task") /\ Teardown({g}) /\ UNCHANGED <<record, task, ip>>

UndoTask(g) ==
  RunGoes(g, "undo_task", "undo_clear") /\ task' = None /\ UNCHANGED <<record, network, ip>>

UndoClear(g) == RunGoes(g, "undo_clear", "undo_delete") /\ clearIP /\ UNCHANGED external

UndoDelete(g) ==
  RunGoes(g, "undo_delete", "done") /\ DeleteRecord /\ UNCHANGED <<task, network, ip>>

-----------------------------------------------------------------------------
(***************************************************************************)
(* handleUnassign and StopContainer.                                       *)
(***************************************************************************)

\* handleUnassign answers when StopContainer returns; a caller that timed out
\* may have called again before.
HandleUnassign(s) ==
  /\ up
  /\ StopGoes(s, "none", "load")
  /\ UNCHANGED <<loaded, external, ip>>

\* LoadContainer: nothing to do for a container that is not there.
LoadContainer(s) ==
  /\ StopGoes(s, "load", IF record = None THEN "done" ELSE "task")
  /\ loaded' = [loaded EXCEPT ![s] = record]
  /\ UNCHANGED <<external, ip>>

\* container.Task: without a task only the record is removed.
LoadTask(s) ==
  /\ StopGoes(s, "task", IF task = None THEN "clear" ELSE "kill")
  /\ UNCHANGED <<loaded, external, ip>>

StopKill(s) ==
  StopGoes(s, "kill", "teardown") /\ KillTask /\ UNCHANGED <<loaded, record, network, ip>>

StopTeardown(s) ==
  StopGoes(s, "teardown", "tdelete") /\ Teardown({}) /\ UNCHANGED <<loaded, record, task, ip>>

StopTaskDelete(s) ==
  StopGoes(s, "tdelete", "clear") /\ DeleteTask /\ UNCHANGED <<loaded, record, network, ip>>

StopClear(s) ==
  StopGoes(s, "clear", "cdelete") /\ clearIP /\ UNCHANGED <<loaded, external>>

\* The last step; a failure to delete is logged, and the call answered.
StopDelete(s) ==
  StopGoes(s, "cdelete", "done") /\ DeleteRecord /\ UNCHANGED <<loaded, task, network, ip>>

-----------------------------------------------------------------------------
(***************************************************************************)
(* The agent crashes, and starts again.                                    *)
(***************************************************************************)

\* All goroutines and the address map are lost; containers live on.  CleanupAll
\* goes by records, and will not find the address of a container without one.
Crash ==
  /\ up
  /\ crashes < MaxCrashes
  /\ crashes' = crashes + 1
  /\ up' = FALSE
  /\ run' = [g \in Run |-> IF run[g] = "none" THEN "none" ELSE "done"]
  /\ stop' = [s \in Stop |-> IF stop[s] = "none" THEN "none" ELSE "done"]
  /\ ip' = None
  /\ lost' = IF record = None THEN address ELSE lost
  /\ UNCHANGED <<loaded, record, task, address>>

\* A faulty version: the network is not released.
CleanupAllKeepsNetwork ==
  /\ ~up
  /\ up' = TRUE
  /\ record' = None /\ task' = None
  /\ ip' = None
  /\ UNCHANGED <<run, stop, loaded, network, crashes>>

\* CleanupAll, before anything is served: every container that has a record is
\* killed, released and removed.
CleanupAll ==
  /\ ~up
  /\ up' = TRUE
  /\ IF record # None
       THEN record' = None /\ task' = None /\ Teardown(Run)
       ELSE UNCHANGED external
  /\ ip' = None
  /\ UNCHANGED <<run, stop, loaded, crashes>>

-----------------------------------------------------------------------------

RunNext(g) ==
  \/ PullFails(g) \/ NewContainer(g) \/ NewTask(g) \/ Setup(g) \/ RecordIP(g)
  \/ StartTask(g) \/ ExitArrives(g)
  \/ ExitCni(g) \/ ExitTask(g) \/ ExitClear(g) \/ ExitDelete(g)
  \/ UndoCni(g) \/ UndoTask(g) \/ UndoClear(g) \/ UndoDelete(g)

StopNext(s) ==
  \/ LoadContainer(s) \/ LoadTask(s) \/ StopKill(s) \/ StopTeardown(s)
  \/ StopTaskDelete(s) \/ StopClear(s) \/ StopDelete(s)

Next ==
  \/ \E g \in Run : HandleAssign(g) \/ RunNext(g)
  \/ \E s \in Stop : HandleUnassign(s) \/ StopNext(s)
  \/ ProcessExits
  \/ Crash
  \/ CleanupAll

\* Goroutines keep running, and a crashed agent is restarted.
Fairness ==
  /\ \A g \in Run : WF_vars(RunNext(g))
  /\ \A s \in Stop : WF_vars(StopNext(s))
  /\ WF_vars(CleanupAll)

Spec == Init /\ [][Next]_vars /\ Fairness
-----------------------------------------------------------------------------
(***************************************************************************)
(* Properties.                                                             *)
(***************************************************************************)

\* The agent serves, and no call is under way.
AtRest ==
  /\ up
  /\ \A g \in Run : run[g] \in {"none", "done"}
  /\ \A s \in Stop : stop[s] \in {"none", "done"}

\* Whatever the calls did to each other, and wherever the agent crashed, when
\* every RunContainer and StopContainer has returned there is no ghost record,
\* no task and no address in the map; and an address CNI still holds is one
\* whose ADD failed half-way (RunContainer returns before its Teardown is
\* deferred), or whose run's own DEL failed, or CleanupAll's, or that had no
\* record when the agent crashed.  A failed DEL of StopContainer alone, or any
\* other order of the calls, loses none.
NothingLeftAtRest ==
  AtRest => record = None /\ task = None /\ ip = None /\ address \subseteq lost

\* A RunContainer that has returned has left no task behind, and no address
\* but one lost in these ways, even if the identifier has been taken over since
\* and the successor's network is set up, or torn down, at the same time.
ReturnedLeavesNothing ==
  \A g \in Run : up /\ run[g] = "done" =>
    /\ task # None => task.run # g
    /\ g \in address => g \in lost

\* Every call comes to an end, except a RunContainer whose own process runs:
\* no goroutine waits for a process that is not there, or is not its own.
CallsSettle ==
  <>[](\A g \in Run : \/ run[g] \in {"none", "done"}
                      \/ run[g] = "wait" /\ TaskIs(g, "running"))

\* A running container that nobody has asked to stop has its address on record
\* ("Empty when CNI is disabled, or briefly before Setup completes",
\* ContainerStatus): without it the replica is no endpoint of its service.
RunningHasIP ==
  \A g \in Run :
    /\ up
    /\ run[g] = "wait"
    /\ TaskIs(g, "running")
    /\ \A s \in Stop : loaded[s] # g
    => ip # None

\* "StopContainer is synchronous on the agent, the old container is fully gone
\* before the new one is created" (docs/specs/rolling-updates.md): once a
\* StopContainer has returned, the container it found runs no more.
StoppedIsGone ==
  \A s \in Stop : up /\ stop[s] = "done" /\ loaded[s] # None =>
    ~TaskIs(loaded[s], "running")
=============================================================================
