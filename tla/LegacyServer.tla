---------------------------- MODULE LegacyServer ----------------------------
(***************************************************************************)
(* The life of the standalone HTTP server (internal/legacyserver): calls   *)
(* of Start and Shutdown that race each other, the watcher that shuts a    *)
(* generation down when its context ends, the tracker of its requests, its *)
(* readiness and the MCP runs.                                             *)
(*                                                                         *)
(* A server may be started again once a generation is over.  One action is *)
(* one section under lifecycleMu, or what is done between two of them; the *)
(* http.Server and the listener are modelled from how they are used.       *)
(***************************************************************************)
EXTENDS Naturals, FiniteSets

CONSTANTS Starters, Stoppers,   \* callers of Start and of Shutdown
          Requests,             \* HTTP requests, and MCP runs over stdio
          MaxStarts

ASSUME ServerAssumption == MaxStarts \in Nat \ {0}

Generations == 1..MaxStarts
Watchers == Generations        \* the goroutine that waits for a generation's context
Callers == Starters \cup Stoppers \cup Watchers

\* A caller of Start is none of Shutdown, and neither is a watcher.
ASSUME CallerAssumption ==
  Starters \cap Stoppers = {} /\ Starters \cap Watchers = {} /\ Stoppers \cap Watchers = {}

VARIABLES
  life,      \* started, pending, cancelled, stopping, complete, generation, serveStarted, http
  ready,     \* what /readyz answers
  proc,      \* where each caller is, and the generation or the startup it is about
  owner,     \* who started a generation
  done,      \* starters whose context has ended
  net,       \* listening, serving and closed generations
  tracker,   \* the requests in the handler, by generation, and the trackers that stop
  slot,      \* the start slot is free
  mcp        \* closed, the registered runs and the ones not cancelled

serverVars == <<life, ready, proc, owner, done, net, tracker, slot, mcp>>

ServerInit ==
  /\ life = [started |-> FALSE, pending |-> FALSE, cancelled |-> FALSE, stopping |-> FALSE, complete |-> FALSE,
             generation |-> 0, serveStarted |-> FALSE, http |-> 0, startup |-> 0]
  /\ ready = FALSE
  /\ proc = [p \in Callers |-> [at |-> "idle", of |-> 0]]
  /\ owner = [g \in Generations |-> CHOOSE s \in Starters : TRUE]
  /\ done = {}
  /\ net = [listening |-> {}, serving |-> {}, closed |-> {}]
  /\ tracker = [active |-> [g \in Generations |-> {}], stopping |-> {}]
  /\ slot = TRUE
  /\ mcp = [closed |-> FALSE, registered |-> {}, running |-> {}]

At(p, place) == proc[p].at = place
Goes(p, place, of) == proc' = [proc EXCEPT ![p] = [at |-> place, of |-> of]]
Moves(p, place) == Goes(p, place, proc[p].of)
Same(p) == proc[p].of = life.generation
Drained(g) == g \in tracker.stopping /\ tracker.active[g] = {}

-----------------------------------------------------------------------------
(* completeLifecycle: the section under the lock, then the rest. *)

Complete(p) ==
  /\ At(p, "complete")
  /\ IF Same(p) /\ ~life.complete
       THEN /\ life' = [life EXCEPT !.complete = TRUE, !.started = FALSE, !.serveStarted = FALSE, !.http = 0]
            /\ Moves(p, "completed")
       ELSE UNCHANGED life /\ Moves(p, "return")
  /\ UNCHANGED <<ready, owner, done, net, tracker, slot, mcp>>

Completed(p) ==
  /\ At(p, "completed")
  /\ net' = [net EXCEPT !.listening = @ \ {proc[p].of}]
  /\ tracker' = [tracker EXCEPT !.stopping = @ \cup {proc[p].of}]
  /\ ready' = FALSE
  /\ Moves(p, "return")
  /\ UNCHANGED <<life, owner, done, slot, mcp>>

-----------------------------------------------------------------------------
(* Start. *)

StartEnters(s) ==
  /\ At(s, "idle") /\ s \notin done /\ life.startup < MaxStarts
  /\ ~life.started /\ ~life.pending
  /\ life' = [life EXCEPT !.pending = TRUE, !.cancelled = FALSE, !.startup = @ + 1]
  /\ Moves(s, "slot")
  /\ UNCHANGED <<ready, owner, done, net, tracker, slot, mcp>>

AcquireSlot(s) ==
  /\ At(s, "slot")
  /\ \/ slot /\ slot' = FALSE /\ Moves(s, "claim") /\ UNCHANGED life
     \/ s \in done /\ life' = [life EXCEPT !.pending = FALSE, !.cancelled = FALSE] /\ Moves(s, "idle") /\ UNCHANGED slot
  /\ UNCHANGED <<ready, owner, done, net, tracker, mcp>>

Claims(s) == ~life.cancelled

\* A shutdown that came first cancels the startup.  A claim opens a new generation.
ClaimGeneration(s) ==
  LET g == life.generation + 1
  IN  /\ At(s, "claim")
      /\ IF Claims(s)
           THEN /\ life' = [life EXCEPT !.pending = FALSE, !.started = TRUE, !.generation = g, !.stopping = FALSE,
                                        !.complete = FALSE, !.http = 0]
                /\ owner' = [owner EXCEPT ![g] = s]
                /\ mcp' = [mcp EXCEPT !.closed = FALSE, !.registered = {}]
                /\ Goes(s, "unready", g)
                /\ UNCHANGED slot
           ELSE /\ life' = [life EXCEPT !.pending = FALSE, !.cancelled = FALSE]
                /\ slot' = TRUE
                /\ Moves(s, "idle")
                /\ UNCHANGED <<owner, mcp>>
      /\ UNCHANGED <<ready, done, net, tracker>>

StartUnready(s) ==
  /\ At(s, "unready")
  /\ ready' = FALSE
  /\ Moves(s, "listen")
  /\ UNCHANGED <<life, owner, done, net, tracker, slot, mcp>>

Listen(s) ==
  /\ At(s, "listen")
  /\ \/ net' = [net EXCEPT !.listening = @ \cup {proc[s].of}] /\ Moves(s, "publish")
     \/ Moves(s, "complete") /\ UNCHANGED net
  /\ UNCHANGED <<life, ready, owner, done, tracker, slot, mcp>>

\* Start looks three times, under the lock, whether it is still wanted.
Wanted(s) == Same(s) /\ ~life.stopping /\ s \notin done

GivesUp(s) ==
  /\ net' = [net EXCEPT !.listening = @ \ {proc[s].of}]
  /\ Moves(s, "complete")
  /\ UNCHANGED <<life, ready>>

Publish(s) ==
  /\ At(s, "publish")
  /\ IF Wanted(s)
       THEN life' = [life EXCEPT !.http = proc[s].of] /\ Moves(s, "published") /\ UNCHANGED <<ready, net>>
       ELSE GivesUp(s)
  /\ UNCHANGED <<owner, done, tracker, slot, mcp>>

MarkServeStarted(s) ==
  /\ At(s, "published")
  /\ IF Wanted(s)
       THEN life' = [life EXCEPT !.serveStarted = TRUE] /\ Moves(s, "handoff") /\ UNCHANGED <<ready, net>>
       ELSE GivesUp(s)
  /\ UNCHANGED <<owner, done, tracker, slot, mcp>>

HandsOff(s) == Wanted(s) /\ life.http = proc[s].of

\* Readiness and the handoff to Serve are one step; the watcher starts with it.
Handoff(s) ==
  /\ At(s, "handoff")
  /\ IF HandsOff(s)
       THEN /\ ready' = TRUE
            /\ net' = [net EXCEPT !.serving = @ \cup {proc[s].of}]
            /\ proc' = [proc EXCEPT ![s].at = "serving", ![proc[s].of] = [at |-> "watch", of |-> proc[s].of]]
            /\ UNCHANGED life
       ELSE GivesUp(s)
  /\ UNCHANGED <<owner, done, tracker, slot, mcp>>

\* Serve returns when the server was shut down or closed, or when accepting fails; what
\* no Shutdown asked for is closed here.
ServeReturns(s) ==
  /\ At(s, "serving")
  /\ net' = [listening |-> net.listening \ {proc[s].of}, serving |-> net.serving \ {proc[s].of},
             closed |-> net.closed \cup {proc[s].of}]
  /\ tracker' = [tracker EXCEPT !.stopping = @ \cup {proc[s].of}]
  /\ proc' = [proc EXCEPT ![s].at = "drain", ![proc[s].of].at = IF @ = "watch" THEN "idle" ELSE @]
  /\ UNCHANGED <<life, ready, owner, done, slot, mcp>>

\* Fault: Start does not wait for the requests.
StartDrainedAlways(s) == TRUE

StartDrained(s) == Drained(proc[s].of)

StartDrains(s) ==
  /\ At(s, "drain") /\ StartDrained(s)
  /\ Moves(s, "complete")
  /\ UNCHANGED <<life, ready, owner, done, net, tracker, slot, mcp>>

StartReturns(s) ==
  /\ At(s, "return")
  /\ slot' = TRUE
  /\ Goes(s, "idle", 0)
  /\ UNCHANGED <<life, ready, owner, done, net, tracker, mcp>>

ContextEnds(s) ==
  /\ s \notin done
  /\ done' = done \cup {s}
  /\ UNCHANGED <<life, ready, proc, owner, net, tracker, slot, mcp>>

-----------------------------------------------------------------------------
(* Shutdown, for the current generation or for the watcher's own. *)

\* CloseMCP: no new run, and every registered one is cancelled.
CloseMCP == mcp' = [closed |-> TRUE, registered |-> IF mcp.closed THEN mcp.registered ELSE {},
                    running |-> IF mcp.closed THEN mcp.running ELSE mcp.running \ mcp.registered]

ShutdownSection(p) ==
  /\ CloseMCP
  /\ IF life.pending /\ ~life.started
       THEN life' = [life EXCEPT !.cancelled = TRUE] /\ Goes(p, "cancelled", life.startup)
     ELSE IF life.stopping
       THEN Goes(p, "await", life.generation) /\ UNCHANGED life
     ELSE IF ~life.started
       THEN Goes(p, "unready", 0) /\ UNCHANGED life
     ELSE /\ life' = [life EXCEPT !.stopping = TRUE]
          /\ Goes(p, IF life.http = 0 \/ ~life.serveStarted THEN "await" ELSE "stop", life.generation)

Shutdown(p) ==
  /\ p \in Stoppers /\ At(p, "idle")
  /\ ShutdownSection(p)
  /\ UNCHANGED <<ready, owner, done, net, tracker, slot>>

WatcherFires(g) ==
  /\ At(g, "watch") /\ owner[g] \in done
  /\ IF g = life.generation THEN ShutdownSection(g) ELSE Moves(g, "idle") /\ UNCHANGED <<life, mcp>>
  /\ UNCHANGED <<ready, owner, done, net, tracker, slot>>

\* A startup that was cancelled, and a server that is not started, are marked not ready.
ShutdownUnready(p) ==
  /\ At(p, "cancelled") \/ At(p, "unready")
  /\ ready' = FALSE
  /\ Moves(p, IF At(p, "cancelled") THEN "awaitStartup" ELSE "returned")
  /\ UNCHANGED <<life, owner, done, net, tracker, slot, mcp>>

\* startupDone is closed when the startup it belongs to is no longer pending.
AwaitStartup(p) ==
  /\ At(p, "awaitStartup")
  /\ ~(life.pending /\ life.startup = proc[p].of)
  /\ Goes(p, "returned", 0)
  /\ UNCHANGED <<life, ready, owner, done, net, tracker, slot, mcp>>

\* shutdownDone of a generation is closed when it completes.
AwaitLifecycle(p) ==
  /\ At(p, "await")
  /\ life.generation > proc[p].of \/ life.complete
  /\ Moves(p, "returned")
  /\ UNCHANGED <<life, ready, owner, done, net, tracker, slot, mcp>>

StopRequests(p) ==
  /\ p \in Stoppers \cup Watchers /\ At(p, "stop")
  /\ tracker' = [tracker EXCEPT !.stopping = @ \cup {proc[p].of}]
  /\ ready' = FALSE
  /\ Moves(p, "http")
  /\ UNCHANGED <<life, owner, done, net, slot, mcp>>

\* http.Server.Shutdown closes the listener it serves and waits for the requests; when
\* the context ends first, or closing fails, the server is closed and the error is returned.
ShutdownHTTP(p) ==
  /\ p \in Stoppers \cup Watchers /\ At(p, "http")
  /\ net' = [net EXCEPT !.closed = @ \cup {proc[p].of},
                        !.listening = IF proc[p].of \in net.serving THEN @ \ {proc[p].of} ELSE @]
  /\ \/ tracker.active[proc[p].of] = {} /\ Moves(p, "complete")
     \/ Moves(p, "failed")
  /\ UNCHANGED <<life, ready, owner, done, tracker, slot, mcp>>

ShutdownReturns(p) ==
  /\ p \in Stoppers \cup Watchers /\ At(p, "return")
  /\ Moves(p, "returned")
  /\ UNCHANGED <<life, ready, owner, done, net, tracker, slot, mcp>>

\* Any wait of a Shutdown ends with its context.
ShutdownTimesOut(p) ==
  /\ p \in Stoppers \cup Watchers /\ (At(p, "await") \/ At(p, "awaitStartup"))
  /\ Moves(p, "failed")
  /\ UNCHANGED <<life, ready, owner, done, net, tracker, slot, mcp>>

\* A caller may call Shutdown again.
ShutdownAgain(p) ==
  /\ p \in Stoppers /\ At(p, "failed")
  /\ Goes(p, "idle", 0)
  /\ UNCHANGED <<life, ready, owner, done, net, tracker, slot, mcp>>

-----------------------------------------------------------------------------
(* Requests and MCP runs. *)

Busy == (UNION {tracker.active[g] : g \in Generations}) \cup mcp.running

\* A request that a tracker refuses is answered at once.
RequestEnters(r) ==
  /\ r \notin Busy
  /\ \E g \in net.serving \ (net.closed \cup tracker.stopping) :
       tracker' = [tracker EXCEPT !.active[g] = @ \cup {r}]
  /\ UNCHANGED <<life, ready, proc, owner, done, net, slot, mcp>>

RequestEnds(r) ==
  /\ \E g \in Generations : r \in tracker.active[g]
  /\ tracker' = [tracker EXCEPT !.active = [g \in Generations |-> @[g] \ {r}]]
  /\ UNCHANGED <<life, ready, proc, owner, done, net, slot, mcp>>

RegisterMCPRun(r) ==
  /\ r \notin Busy /\ ~mcp.closed
  /\ mcp' = [mcp EXCEPT !.registered = @ \cup {r}, !.running = @ \cup {r}]
  /\ UNCHANGED <<life, ready, proc, owner, done, net, tracker, slot>>

UnregisterMCPRun(r) ==
  /\ r \in mcp.running
  /\ mcp' = [mcp EXCEPT !.registered = @ \ {r}, !.running = @ \ {r}]
  /\ UNCHANGED <<life, ready, proc, owner, done, net, tracker, slot>>

ServerNext ==
  \/ \E p \in Callers :
       \/ Complete(p) \/ Completed(p) \/ Shutdown(p) \/ AwaitStartup(p) \/ AwaitLifecycle(p) \/ StopRequests(p)
       \/ ShutdownHTTP(p) \/ ShutdownReturns(p) \/ ShutdownTimesOut(p) \/ ShutdownAgain(p)
  \/ \E p \in Stoppers \cup Watchers : ShutdownUnready(p)
  \/ \E g \in Watchers : WatcherFires(g)
  \/ \E s \in Starters :
       \/ StartEnters(s) \/ AcquireSlot(s) \/ ClaimGeneration(s) \/ StartUnready(s) \/ Listen(s) \/ Publish(s)
       \/ MarkServeStarted(s) \/ Handoff(s) \/ ServeReturns(s) \/ StartDrains(s) \/ StartReturns(s) \/ ContextEnds(s)
  \/ \E r \in Requests : RequestEnters(r) \/ RequestEnds(r) \/ RegisterMCPRun(r) \/ UnregisterMCPRun(r)

ServerSpec == ServerInit /\ [][ServerNext]_serverVars

-----------------------------------------------------------------------------
(* Properties. *)

\* A Shutdown that returned without an error leaves nothing of its generation behind
\* (shutdownForGeneration, waitForLifecycle): no request is in its handler, then or
\* later, although another caller may have given up waiting for them.
ShutdownIsQuiet ==
  \A p \in Stoppers \cup Watchers :
    At(p, "returned") /\ proc[p].of # 0 => tracker.active[proc[p].of] = {}
=============================================================================
