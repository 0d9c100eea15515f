------------------------- MODULE SimulationExecutor -------------------------
(***************************************************************************)
(* The SimulationExecutor of the run-time starts the simulators and the    *)
(* proxies of a fragment in the order of their dependencies, waits for     *)
(* those to be awaited, and terminates all of them, whatever happens.      *)
(* The processes it starts set up their channels as in Handshake; a proxy  *)
(* stands for the simulator on the other side of it.                       *)
(*                                                                         *)
(* The executor is a program of asyncio tasks: run() and one start task    *)
(* per component.  A step is what a task does between two awaits.  A task  *)
(* that is cancelled does nothing but handle CancelledError, so that its   *)
(* cancellation and its end are one step, unless it is launching a process *)
(* that asyncio has to kill and await first.                               *)
(***************************************************************************)
EXTENDS Handshake

CONSTANTS Proxies,     \* the processes that are proxies; the others are simulators
          External,    \* External[p]: the external proxy that proxy p connects to, or NoProxy
          NoProxy,
          WaitSims,    \* simulators with wait_terminate, all in this fragment
          Stubborn     \* processes that end only by SIGKILL

Externals == {External[p] : p \in Proxies} \ {NoProxy}

\* build_simulation_dependency_graph: who connects depends on who listens.
Dependencies(n) ==
  IF n \in Externals THEN {}
  ELSE {p \in Procs \ {n} : \E e \in Ends : Owner(e) = n /\ e[2] = "con" /\ Owner(Peer(e)) = p}
       \cup (IF n \in Proxies THEN {External[n]} \ {NoProxy} ELSE {})
Graph == [n \in Procs \cup Externals |-> Dependencies(n)]
Nodes == {n \in DOMAIN Graph : Graph[n] # {} \/ \E m \in DOMAIN Graph : n \in Graph[m]}

\* External proxies belong to other fragments.  Every process has a channel, and so
\* is in the graph; a component without one would not be started.  There are no
\* cycles: _insert_dependency and TopologicalSorter.prepare raise an exception.
ASSUME ExecutorAssumption ==
  /\ IsFiniteSet(Procs) /\ Externals \cap Procs = {}
  /\ Proxies \subseteq Procs /\ WaitSims \subseteq Procs \ Proxies /\ Stubborn \subseteq Procs
  /\ DOMAIN Graph = Nodes
  /\ \A S \in SUBSET Nodes \ {{}} : \E n \in S : Graph[n] \cap S = {}

VARIABLES main,      \* where run() is
          npred,     \* npred[n]: npredecessors of TopologicalSorter
          task,      \* task[n]: the start task of n; it is "killing" when its launch was
                     \* cancelled and the end of the process is awaited
          running,   \* _running_sims and _running_proxies
          up,        \* external proxies marked running
          signals,   \* how many of SIGINT, SIGTERM and SIGKILL have been sent
          result,    \* the state passed to simulation_exited
          cancelled  \* run() has been cancelled: interrupt or KILL

control == <<main, npred, task, running, up, signals, result, cancelled>>
vars == <<phase, endpoints, control>>

NODE_OUT == -1
NODE_DONE == -2

Init == /\ HandshakeInit
        /\ main = "sort" /\ npred = [n \in Nodes |-> Cardinality(Graph[n])]
        /\ task = [n \in Nodes |-> "none"] /\ running = {} /\ up = {}
        /\ signals = 0 /\ result = "none" /\ cancelled = FALSE

Ended == main \in {"returned", "raised"}

Finished(n) == task[n] \in {"done", "raised", "cancelled"}
Unfinished == {n \in Nodes : task[n] # "none" /\ ~Finished(n)}

-----------------------------------------------------------------------------
(* Mutants. *)

SocketsSome(p) == \A e \in Ends : Owner(e) = p /\ e[2] = "lis" =>
                    \E f \in Ends : Owner(f) = p /\ f[2] = "lis" /\ conn[f] # "Closed"
DrainNothing ==
  /\ main = "drain" /\ main' = "terminate"
  /\ UNCHANGED <<phase, endpoints, npred, task, running, up, signals, result, cancelled>>
EscalateNoKill ==
  /\ main = "terminate" /\ signals < 2 /\ \E p \in running : ~Gone(p)
  /\ signals' = signals + 1
  /\ UNCHANGED <<phase, endpoints, main, npred, task, running, up, result, cancelled>>

-----------------------------------------------------------------------------
(* Start tasks. *)

\* create_subprocess_exec starts the process, or fails for want of a binary.
Begin(p) ==
  /\ task[p] = "created"
  /\ IF p \in setup.broken
       THEN task' = [task EXCEPT ![p] = "raised"] /\ UNCHANGED phase
       ELSE /\ task' = [task EXCEPT ![p] = "launching"]
            /\ phase' = [phase EXCEPT ![p] = "Setup"]
  /\ UNCHANGED <<endpoints, main, npred, running, up, signals, result, cancelled>>

\* The pipes to the process are there; its executor is registered.
Launched(p) ==
  /\ task[p] = "launching"
  /\ task' = [task EXCEPT ![p] = "waiting"] /\ running' = running \cup {p}
  /\ UNCHANGED <<phase, endpoints, main, npred, up, signals, result, cancelled>>

\* sockets_wait: the files of the sockets p listens on.
SocketsExist(p) == \A e \in Ends : Owner(e) = p /\ e[2] = "lis" => conn[e] # "Closed"

\* await_file finds the last of the files, after start_delay for a simulator.  The
\* files of a listening proxy, with its port, are written once its sockets exist.
Ready(p) ==
  /\ task[p] = "waiting" /\ SocketsExist(p)
  /\ task' = [task EXCEPT ![p] = "done"]
  /\ UNCHANGED <<phase, endpoints, main, npred, running, up, signals, result, cancelled>>

\* await_file gives up.  Its ten minutes are enough for a process that can go on.
Stalled(p) == Gone(p) \/ (p \in Blocking /\ conn[Current(p)] = "Listening")
TimedOut(p) ==
  /\ task[p] = "waiting" /\ ~SocketsExist(p) /\ Stalled(p)
  /\ task' = [task EXCEPT ![p] = "raised"]
  /\ UNCHANGED <<phase, endpoints, main, npred, running, up, signals, result, cancelled>>

\* mark_external_proxies_running, after the other runner has reported the proxy.
ExternalUp(x) ==
  /\ x \notin up \cup setup.silent
  /\ up' = up \cup {x}
  /\ UNCHANGED <<phase, endpoints, main, npred, task, running, signals, result, cancelled>>

\* _wait_for_external_proxy.
ExternalReady(x) ==
  /\ task[x] = "created" /\ x \in up
  /\ task' = [task EXCEPT ![x] = "done"]
  /\ UNCHANGED <<phase, endpoints, main, npred, running, up, signals, result, cancelled>>

\* What becomes of a start task that is cancelled and awaited: _start_sim returns,
\* the tasks of proxies end with CancelledError, and so does one that has not begun.
AfterCancel(n) ==
  IF n \in Procs \ Proxies /\ task[n] # "created" THEN "done" ELSE "cancelled"

\* asyncio kills a process whose launch is cancelled.
KilledByCancel(S) ==
  [p \in Procs |-> IF p \in S /\ task[p] = "launching" THEN "Exited" ELSE phase[p]]

\* create_subprocess_exec has seen the end of the process it killed.
Reaped(p) ==
  /\ task[p] = "killing"
  /\ task' = [task EXCEPT ![p] = AfterCancel(p)]
  /\ UNCHANGED <<phase, endpoints, main, npred, running, up, signals, result, cancelled>>

-----------------------------------------------------------------------------
(* run(). *)

\* get_ready, and a start task for each component that is ready.
Sort ==
  LET ready == {n \in Nodes : npred[n] = 0} IN
  /\ main = "sort"
  /\ npred' = [n \in Nodes |-> IF n \in ready THEN NODE_OUT ELSE npred[n]]
  /\ task' = [n \in Nodes |-> IF n \in ready THEN "created" ELSE task[n]]
  /\ main' = "gather"
  /\ UNCHANGED <<phase, endpoints, running, up, signals, result, cancelled>>

\* TopologicalSorter.done for the components that have been passed out.
MarkDone == [n \in Nodes |->
  LET passed == {m \in Nodes : npred[m] = NODE_OUT} IN
  IF n \in passed THEN NODE_DONE
  ELSE IF npred[n] = NODE_DONE THEN NODE_DONE ELSE npred[n] - Cardinality(Graph[n] \cap passed)]

\* gather returns when all start tasks have.
Gathered ==
  /\ main = "gather" /\ ~cancelled /\ \A n \in Nodes : task[n] \in {"none", "done"}
  /\ npred' = MarkDone
  /\ main' = IF \E n \in Nodes : MarkDone[n] = 0 THEN "sort" ELSE "wait"
  /\ UNCHANGED <<phase, endpoints, task, running, up, signals, result, cancelled>>

\* gather raises the exception of the first task that fails.  The event loop has
\* begun all tasks by the time it resumes run().
Begun == \A p \in Procs : task[p] # "created"
GatherFails ==
  /\ main = "gather" /\ Begun /\ \E n \in Nodes : task[n] = "raised"
  /\ result' = "FAILED" /\ main' = "drain"
  /\ UNCHANGED <<phase, endpoints, npred, task, running, up, signals, cancelled>>

\* All simulators to be awaited have been marked terminated, whatever their exit codes.
WaitOver ==
  /\ main = "wait" /\ \A p \in WaitSims : Gone(p)
  /\ result' = "SUCCESS" /\ main' = "drain"
  /\ UNCHANGED <<phase, endpoints, npred, task, running, up, signals, cancelled>>

\* run() is cancelled, before or after the start tasks have begun.  gather passes
\* that on to them, unless it is done itself.  Later on it has no effect:
\* terminate_collect_sims is shielded.
CancelAll(S) ==
  /\ task' = [n \in Nodes |-> IF n \notin S THEN task[n]
                              ELSE IF task[n] = "launching" THEN "killing" ELSE AfterCancel(n)]
  /\ phase' = KilledByCancel(S)
Cancel ==
  LET over == Unfinished = {} \/ \E n \in Nodes : task[n] = "raised" IN
  /\ main \in {"gather", "wait"} /\ ~cancelled
  /\ Begun \/ \A n \in Nodes : task[n] \in {"none", "created", "done"}
  /\ cancelled' = TRUE
  /\ CancelAll(IF over THEN {} ELSE Unfinished)
  /\ IF over THEN main' = "drain" /\ result' = "INTERRUPTED" ELSE UNCHANGED <<main, result>>
  /\ UNCHANGED <<endpoints, npred, running, up, signals>>

\* gather raises CancelledError when the first of the tasks has, or all have returned.
GatherCancelled ==
  /\ main = "gather" /\ cancelled
  /\ Unfinished = {} \/ \E n \in Nodes : task[n] = "cancelled"
  /\ result' = "INTERRUPTED" /\ main' = "drain"
  /\ UNCHANGED <<phase, endpoints, npred, task, running, up, signals, cancelled>>

\* The start tasks that are left are cancelled and awaited one by one; the
\* CancelledError of such a task is also the end of run().
Drain ==
  /\ main = "drain"
  /\ \/ Unfinished = {} /\ main' = "terminate" /\ UNCHANGED <<task, phase>>
     \/ \E n \in Unfinished :
          /\ task' = [task EXCEPT ![n] = AfterCancel(n)]
          /\ phase' = KilledByCancel({n})
          /\ main' = IF AfterCancel(n) = "cancelled" THEN "raised" ELSE "drain"
  /\ UNCHANGED <<endpoints, npred, running, up, signals, result, cancelled>>

\* int_term_kill sends the next signal to the processes that have not reacted to
\* the last one; the delays are the same for all.
Escalate ==
  /\ main = "terminate" /\ signals < 3 /\ \E p \in running : ~Gone(p)
  /\ signals' = signals + 1
  /\ UNCHANGED <<phase, endpoints, main, npred, task, running, up, result, cancelled>>

Terminated ==
  /\ main = "terminate" /\ \A p \in running : Gone(p)
  /\ main' = "returned"
  /\ UNCHANGED <<phase, endpoints, npred, task, running, up, signals, result, cancelled>>

Executor ==
  \/ Sort \/ Gathered \/ GatherFails \/ GatherCancelled \/ WaitOver \/ Drain \/ Escalate \/ Terminated
  \/ \E p \in Procs : Begin(p) \/ Launched(p) \/ Ready(p) \/ TimedOut(p) \/ Reaped(p)
  \/ \E x \in Externals : ExternalUp(x) \/ ExternalReady(x)

-----------------------------------------------------------------------------
(* Processes. *)

\* An awaited simulator comes to the end of its workload.
Finish(p) == p \in WaitSims /\ phase[p] = "Running"
Signalled(p) == p \in running /\ ~Gone(p) /\ signals >= (IF p \in Stubborn THEN 3 ELSE 1)
Exit(p) == /\ Finish(p) \/ Signalled(p)
           /\ phase' = [phase EXCEPT ![p] = "Exited"]
           /\ UNCHANGED <<endpoints, control>>

Process(p) == (Step(p) /\ UNCHANGED control) \/ Exit(p)

Next == Executor \/ Cancel \/ \E p \in Procs : Process(p)

\* The event loop runs its tasks, processes go on until they wait in poll, accept or
\* recvmsg, and react to signals.  Nobody has to interrupt.
Spec == Init /\ [][Next]_vars /\ WF_vars(Executor \/ \E p \in Procs : Process(p))

-----------------------------------------------------------------------------
(* Properties. *)

\* A process is not started before the sockets it connects to exist, and a
\* connecting proxy not before the one it connects to is up: Connect need not wait.
StartOrder ==
  \A p \in Procs : phase[p] # "Off" =>
    /\ \A e \in Ends : Owner(e) = p /\ e[2] = "con" => conn[Peer(e)] # "Closed"
    /\ p \in Proxies => External[p] \in up \cup {NoProxy}

\* When run() returns, no process it has started is alive and no start task is left
\* that could start one.  It may end with CancelledError instead, and leave
\* processes behind, but only in two cases: the start of another component has
\* failed and a proxy was still being started or waited for, or it was cancelled
\* itself while it launched a proxy together with something else.
LaunchLost(p) == task[p] = "cancelled" /\ phase[p] = "Exited"
NothingLeft ==
  /\ main = "returned" => /\ \A p \in Procs : phase[p] = "Off" \/ Gone(p)
                          /\ Unfinished = {}
  /\ main = "raised" =>
       \/ \E n \in Nodes : task[n] = "raised"
       \/ /\ cancelled
          /\ \E p \in Proxies : LaunchLost(p) /\ \E n \in Nodes \ {p} : task[n] = "cancelled"

\* When all is well, every awaited simulator gets through Establish and to its end,
\* and the run is a success, whatever the order of interfaces and of the steps.
Established ==
  /\ \A e \in Ends : Compatible(e)
  /\ \A p \in Procs : Fits(p)
  /\ setup.broken = {} /\ setup.silent = {}
  /\ []~cancelled
  => <>(result = "SUCCESS" /\ \A p \in WaitSims : phase[p] = "Exited")

\* A run comes to an end, also when a simulator fails half way or ignores signals:
\* only an external proxy that never comes up keeps it waiting, until it is
\* cancelled.
RunEnds == <>(cancelled \/ Externals \subseteq up \/ Ended) => <>Ended

=============================================================================
