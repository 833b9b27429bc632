-------------------------------- MODULE Plugin --------------------------------
(***************************************************************************)
(* External analyzers (pkg/plugin): the supervisor that owns a plugin's    *)
(* child process and client, the client's one lazily dialled connection,   *)
(* and the registry that attaches the client to the scanner.               *)
(*                                                                         *)
(* A step is what happens between two acquisitions of a mutex, or one      *)
(* outcome of a select.  Messages of the protocol are external; a call     *)
(* that has its connection succeeds or fails as the plugin likes.  What a  *)
(* caller does right after the unlock, cancelling the start it found or    *)
(* closing the connection it took out, is part of the step: nobody else    *)
(* has the connection any more, and a start that is cancelled late ends by *)
(* the request to stop.                                                    *)
(***************************************************************************)
EXTENDS Naturals, FiniteSets

CONSTANTS
  Starters,       \* callers of Start
  Stoppers,       \* callers of Stop and Close
  PluginCalls,    \* callers of Health, Analyze and Discover
  MaxConcurrent   \* Options.MaxConcurrent

ASSUME PluginAssumption == MaxConcurrent \in Nat \ {0}

VARIABLES
  supervisor,   \* ProcessSupervisor
  child,        \* the process of the operating system
  starting,     \* where each caller of Start is
  stopping,     \* where each caller of Stop or Close is
  client,       \* Client: made, returned by Start, closed, conn (installed), live (connections not closed)
  calling,      \* where each call of the client is
  entry         \* Registry: status, the scanner's attached analyzer, the lifecycle lock

supervision == <<supervisor, child, starting, stopping>>
pluginVars == <<supervision, client, calling, entry>>

PluginInit ==
  /\ supervisor = [state |-> "new", op |-> "none", stopRequested |-> FALSE,
                   armed |-> FALSE, canceled |-> FALSE, run |-> FALSE]
  /\ child = "none"
  /\ starting = [t \in Starters |-> "idle"]
  /\ stopping = [t \in Stoppers |-> [pc |-> "idle"]]
  /\ client = [made |-> FALSE, returned |-> FALSE, closed |-> FALSE, conn |-> FALSE, live |-> 0]
  /\ calling = [k \in PluginCalls |-> "idle"]
  /\ entry = [status |-> "absent", attached |-> FALSE, busy |-> FALSE]

Start(t, pc) == starting' = [starting EXCEPT ![t] = pc]
Stop(t, pc) == stopping' = [stopping EXCEPT ![t].pc = pc]
StopReturns(t) == stopping' = [stopping EXCEPT ![t] = [pc |-> "idle"]]

\* Client.Close: the flag first, then the connection it found.
Closed(c) == [c EXCEPT !.closed = TRUE, !.conn = FALSE, !.live = IF c.conn THEN @ - 1 ELSE @]

ChildAlive == child \in {"up", "interrupted"}
Killed == IF ChildAlive THEN "killed" ELSE child

-----------------------------------------------------------------------------
(* ProcessSupervisor.Start. *)

StartEnters(t) ==
  /\ starting[t] = "idle" /\ supervisor.state = "new"
  /\ supervisor' = [supervisor EXCEPT !.state = "starting", !.op = "start"]
  /\ Start(t, "arm")
  /\ UNCHANGED <<child, stopping, client, calling, entry>>

\* The cancel function is published; a Stop that came before is noticed here.
StartArms(t) ==
  /\ starting[t] = "arm"
  /\ IF supervisor.state # "starting" \/ supervisor.stopRequested
       THEN /\ Start(t, "failed") /\ UNCHANGED supervisor
       ELSE /\ Start(t, "launch") /\ supervisor' = [supervisor EXCEPT !.armed = TRUE]
  /\ UNCHANGED <<child, stopping, client, calling, entry>>

\* startProcess: a client, then the command.  A canceled context starts nothing.
StartLaunches(t) ==
  /\ starting[t] = "launch"
  /\ \/ /\ ~supervisor.canceled
        /\ child' = "up" /\ client' = [client EXCEPT !.made = TRUE] /\ Start(t, "health")
     \/ /\ client' = Closed([client EXCEPT !.made = TRUE]) /\ Start(t, "failed") /\ UNCHANGED child
     \/ /\ supervisor.canceled /\ Start(t, "failed") /\ UNCHANGED <<child, client>>
  /\ UNCHANGED <<supervisor, stopping, calling, entry>>

\* The select of startProcess: ready while the child lives, or unhealthy, exited,
\* timed out, canceled.
StartHealthy(t) ==
  /\ starting[t] = "health"
  /\ \/ child # "down" /\ Start(t, "ready")
     \/ Start(t, "unhealthy")
  /\ UNCHANGED <<supervisor, child, stopping, client, calling, entry>>

StartWins == supervisor.state = "starting" /\ ~supervisor.stopRequested

\* finishStart, success: Start returns the client.
StartFinishes(t) ==
  /\ starting[t] = "ready" /\ StartWins
  /\ supervisor' = [supervisor EXCEPT !.state = "running", !.run = TRUE, !.armed = FALSE, !.op = "none"]
  /\ client' = [client EXCEPT !.returned = TRUE]
  /\ Start(t, "idle")
  /\ UNCHANGED <<child, stopping, calling, entry>>

\* finishStart, failure: cleanupProcess kills the child and waits a moment for it.
StartCleansUp(t) ==
  /\ \/ starting[t] = "unhealthy"
     \/ starting[t] = "ready" /\ ~StartWins
  /\ child' = Killed
  /\ client' = Closed(client)
  /\ Start(t, "failed")
  /\ UNCHANGED <<supervisor, stopping, calling, entry>>

StartFails(t) ==
  /\ starting[t] = "failed"
  /\ supervisor' = [supervisor EXCEPT !.state = IF @ = "closed" THEN @ ELSE "stopped",
                                      !.run = FALSE, !.armed = FALSE, !.stopRequested = FALSE,
                                      !.op = "none"]
  /\ Start(t, "idle")
  /\ UNCHANGED <<child, stopping, client, calling, entry>>

-----------------------------------------------------------------------------
(* ProcessSupervisor.Stop and Close. *)

\* Stop's switch.  A Start in progress is canceled and waited for.
StopEnters(t, close) ==
  /\ stopping[t].pc = "idle"
  /\ stopping' = [stopping EXCEPT ![t] =
       [pc |-> CASE supervisor.state \in {"starting", "stopping"} -> "wait"
                 [] supervisor.state = "running" -> "interrupt"
                 [] OTHER -> "return",
        close |-> close, op |-> supervisor.op]]
  /\ supervisor' =
       CASE supervisor.state = "starting" ->
              [supervisor EXCEPT !.stopRequested = TRUE, !.canceled = @ \/ supervisor.armed]
         [] supervisor.state = "running" -> [supervisor EXCEPT !.state = "stopping", !.op = "stop"]
         [] OTHER -> supervisor
  /\ child' = IF supervisor.state = "starting" /\ supervisor.armed THEN Killed ELSE child
  /\ UNCHANGED <<starting, client, calling, entry>>

\* waitForOperation: the channel is closed, or patience ends.  Only the wait of a Start
\* is bounded when the caller's context is not.
StopWaited(t) ==
  /\ stopping[t].pc = "wait"
  /\ \/ supervisor.op # stopping[t].op
     \/ stopping[t].op = "start" \/ ~stopping[t].close
  /\ Stop(t, "return")
  /\ UNCHANGED <<supervisor, child, starting, client, calling, entry>>

\* stopProcess: the client is closed, the child interrupted, or killed if that fails.
StopInterrupts(t) ==
  /\ stopping[t].pc = "interrupt"
  /\ client' = Closed(client)
  /\ child' \in IF child = "up" THEN {"interrupted", "killed"} ELSE {child}
  /\ Stop(t, "grace")
  /\ UNCHANGED <<supervisor, starting, calling, entry>>

\* Fault: a child that ignores the interrupt is left alone.
StopLeaves(c) == c

\* The child is gone within the grace period, or killed after it.
StopKills(c) == IF c = "interrupted" THEN "killed" ELSE c

StopFinishes(t) ==
  /\ stopping[t].pc = "grace"
  /\ child' = StopKills(child)
  /\ supervisor' = [supervisor EXCEPT !.state = IF @ = "closed" THEN @ ELSE "stopped",
                                      !.run = FALSE, !.op = "none"]
  /\ Stop(t, "return")
  /\ UNCHANGED <<starting, client, calling, entry>>

\* Close sets the state when Stop has returned, in a critical section of its own.
CloseOrReturn(t) ==
  /\ stopping[t].pc = "return"
  /\ supervisor' = IF stopping[t].close THEN [supervisor EXCEPT !.state = "closed"] ELSE supervisor
  /\ StopReturns(t)
  /\ UNCHANGED <<child, starting, client, calling, entry>>

\* A child may exit by itself; a killed one does.
ChildExits ==
  /\ child \in {"up", "interrupted", "killed"}
  /\ child' = "down"
  /\ UNCHANGED <<supervisor, starting, stopping, client, calling, entry>>

-----------------------------------------------------------------------------
(* Client. *)

Call(k, pc) == calling' = [calling EXCEPT ![k] = pc]

\* beginCall: a place of the quota.
CallBegins(k) ==
  /\ client.made /\ calling[k] = "idle"
  /\ Cardinality({j \in PluginCalls : calling[j] # "idle"}) < MaxConcurrent
  /\ Call(k, "connect")
  /\ UNCHANGED <<supervision, client, entry>>

\* connection: the installed one, or connectMu is taken and the question asked again.
CallConnects(k) ==
  /\ calling[k] = "connect"
  /\ \/ client.closed /\ Call(k, "idle")
     \/ ~client.closed /\ client.conn /\ Call(k, "request")
     \/ ~client.closed /\ ~client.conn /\ Call(k, "queued")
  /\ UNCHANGED <<supervision, client, entry>>

MustDial == ~client.conn

\* Under connectMu the question is asked again before the dial.
CallDials(k) ==
  /\ calling[k] = "queued"
  /\ \A j \in PluginCalls : calling[j] \notin {"dial", "install"}
  /\ Call(k, CASE client.closed -> "idle" [] ~client.closed /\ MustDial -> "dial" [] OTHER -> "request")
  /\ UNCHANGED <<supervision, client, entry>>

CallDialed(k) ==
  /\ calling[k] = "dial"
  /\ \/ /\ ChildAlive /\ client' = [client EXCEPT !.live = @ + 1] /\ Call(k, "install")
     \/ /\ Call(k, "idle") /\ UNCHANGED client
  /\ UNCHANGED <<supervision, entry>>

\* Fault: the connection is installed in a client closed meanwhile.
RefusesNever == FALSE

Refuses == client.closed

CallInstalls(k) ==
  /\ calling[k] = "install"
  /\ IF Refuses
       THEN client' = [client EXCEPT !.live = @ - 1] /\ Call(k, "idle")
       ELSE client' = [client EXCEPT !.conn = TRUE] /\ Call(k, "request")
  /\ UNCHANGED <<supervision, entry>>

\* The remote call ends; release gives the place back.
PluginCallEnds(k) ==
  /\ calling[k] = "request"
  /\ Call(k, "idle")
  /\ UNCHANGED <<supervision, client, entry>>

-----------------------------------------------------------------------------
(* Registry.  lifecycleMu is held through each operation; Deactivate calls the *)
(* scanner between two critical sections of the inner mutex.                   *)

\* Register and RegisterDiscovered (the handshake is before the lock).
RegisterPlugin ==
  /\ client.returned /\ ~entry.busy /\ entry.status = "absent"
  /\ entry' = [entry EXCEPT !.status = "inactive"]
  /\ UNCHANGED <<supervision, client, calling>>

\* Activate: attached first, active then; the scanner refuses a name that is taken.
Activate ==
  /\ ~entry.busy /\ entry.status = "inactive" /\ ~entry.attached
  /\ entry' = [entry EXCEPT !.status = "active", !.attached = TRUE]
  /\ UNCHANGED <<supervision, client, calling>>

DeactivateMarks ==
  /\ ~entry.busy /\ entry.status = "active"
  /\ entry' = [entry EXCEPT !.status = "inactive", !.busy = TRUE]
  /\ UNCHANGED <<supervision, client, calling>>

\* UnregisterAnalyzer; an analyzer the scanner does not know is detached.  Another error
\* makes the entry active again.
DeactivateDetaches ==
  /\ entry.busy
  /\ entry' \in {[entry EXCEPT !.busy = FALSE, !.attached = FALSE],
                 [entry EXCEPT !.busy = FALSE, !.status = "active"]}
  /\ UNCHANGED <<supervision, client, calling>>

MayUnregister == entry.status = "inactive"

\* Unregister closes the client.
Unregister ==
  /\ ~entry.busy /\ MayUnregister
  /\ entry' = [entry EXCEPT !.status = "absent"]
  /\ client' = Closed(client)
  /\ UNCHANGED <<supervision, calling>>

\* Registry.Close: an entry that cannot be detached stays, active and open.
CloseRegistry ==
  /\ ~entry.busy /\ entry.status # "absent"
  /\ \/ /\ entry' = [entry EXCEPT !.status = "absent", !.attached = FALSE]
        /\ client' = Closed(client)
     \/ /\ entry.status = "active"
        /\ UNCHANGED <<entry, client>>
  /\ UNCHANGED <<supervision, calling>>

-----------------------------------------------------------------------------
PluginNext ==
  \/ \E t \in Starters : \/ StartEnters(t) \/ StartArms(t) \/ StartLaunches(t) \/ StartHealthy(t)
                         \/ StartFinishes(t) \/ StartCleansUp(t) \/ StartFails(t)
  \/ \E t \in Stoppers : \/ \E close \in BOOLEAN : StopEnters(t, close)
                         \/ StopWaited(t) \/ StopInterrupts(t) \/ StopFinishes(t) \/ CloseOrReturn(t)
  \/ ChildExits
  \/ \E k \in PluginCalls : \/ CallBegins(k) \/ CallConnects(k) \/ CallDials(k) \/ CallDialed(k)
                            \/ CallInstalls(k) \/ PluginCallEnds(k)
  \/ RegisterPlugin \/ Activate \/ DeactivateMarks \/ DeactivateDetaches \/ Unregister \/ CloseRegistry

PluginSpec == PluginInit /\ [][PluginNext]_pluginVars

-----------------------------------------------------------------------------
(* Properties. *)

StartInProgress == \E t \in Starters : starting[t] # "idle"

\* A stopped supervisor leaves no child running and its client is closed, whichever of
\* Start, Stop and Close overlapped (finishStart, Stop, cleanupProcess).
StoppedIsClean ==
  supervisor.state = "stopped" =>
    /\ child \in {"none", "killed", "down"}
    /\ client.made => client.closed

\* Close "stops the process if necessary": a closed supervisor has no running child once
\* no Start is in progress.
ClosedIsStopped ==
  supervisor.state = "closed" /\ ~StartInProgress => child \in {"none", "killed", "down"}

\* No connection outlives its client: a dial that ends after Close gives its connection
\* back, and two calls that dial at once install one (Client.connection, Close).
NoConnectionLeaks ==
  client.closed /\ (\A k \in PluginCalls : calling[k] # "install") => client.live = 0
=============================================================================
