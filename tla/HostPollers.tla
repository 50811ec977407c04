---------------------------- MODULE HostPollers ----------------------------
(***************************************************************************)
(* The background pollers and the reload that restarts them: runSshPoller  *)
(* and PollManager (core/ssh/pool.ts), GuiState.restartPollers             *)
(* (state/guiState.ts), reloadHostsState (ipc/hosts.ts) and what the       *)
(* renderer shows of their events (ui lib/ipc/router.ts).                  *)
(*                                                                         *)
(* A reload awaits twice: for the host list on disk and for the refresh    *)
(* interval.  Reloads overlap, since every editor of the host list asks    *)
(* for one when it is done.  A poller is named by the reload that started  *)
(* it and its host; it learns that it was stopped only between two awaits. *)
(*                                                                         *)
(* Time is left out: a timer may elapse at any moment.  Hosts watched by a *)
(* bare port probe, which hold no session, are not modelled here.          *)
(***************************************************************************)
EXTENDS Naturals, FiniteSets

CONSTANTS Hosts,      \* host names
          MaxReloads, \* bound: reload_hosts calls in one behaviour
          MaxEdits,   \* bound: changes to hosts.toml in one behaviour
          LastStep    \* BACKOFF_SECS.length - 1

ASSUME PollerAssumptions ==
  IsFiniteSet(Hosts) /\ {MaxReloads, MaxEdits, LastStep} \subseteq Nat

Reloads == 1 .. MaxReloads
Pollers == Reloads \X Hosts
HostOf(p) == p[2]
Nobody == <<0>>    \* no poller

VARIABLES
  disk, edits,  \* the hosts in hosts.toml; how often they changed
  reload,       \* reload[r]: where the r-th reload_hosts is
  seen,         \* seen[r]: the hosts it read
  hosts,        \* GuiState.hosts, and the hosts the renderer lists
  controllers,  \* PollManager.controllers: the registered poller of a host
  stopped,      \* the pollers whose signal is aborted
  pc,           \* pc[p]: the await a poller is at
  session,      \* the pollers that hold an SshSession
  step,         \* BackoffState.step
  shown         \* shown[h]: the poller whose event the renderer shows for h

reloadVars == <<disk, edits, reload, seen, hosts, controllers, stopped>>
vars == <<disk, edits, reload, seen, hosts, controllers, stopped,
          pc, session, step, shown>>

ReloadStates == {"new", "loading", "read", "restarting", "done"}
\* At SshSession.shared(), collectMetrics(), waitOrRefresh(), waitBackoff().
Awaits == {"connecting", "collecting", "waiting", "backoff"}

TypeOK ==
  /\ disk \in SUBSET Hosts /\ edits \in 0 .. MaxEdits
  /\ reload \in [Reloads -> ReloadStates]
  /\ seen \in [Reloads -> SUBSET Hosts]
  /\ hosts \in SUBSET Hosts
  /\ controllers \in [Hosts -> Pollers \cup {Nobody}]
  /\ stopped \in SUBSET Pollers
  /\ pc \in [Pollers -> Awaits \cup {"none", "ended"}]
  /\ session \in SUBSET Pollers
  /\ step \in [Pollers -> 0 .. LastStep]
  /\ shown \in [Hosts -> Pollers \cup {Nobody}]

Init ==
  /\ disk \in SUBSET Hosts /\ edits = 0
  /\ reload = [r \in Reloads |-> "new"]
  /\ seen = [r \in Reloads |-> {}]
  /\ hosts = {}
  /\ controllers = [h \in Hosts |-> Nobody]
  /\ stopped = {}
  /\ pc = [p \in Pollers |-> "none"]
  /\ session = {}
  /\ step = [p \in Pollers |-> 0]
  /\ shown = [h \in Hosts |-> Nobody]

-----------------------------------------------------------------------------
(* Reloads *)

\* save_host and delete_host.
EditHosts(h) ==
  /\ edits < MaxEdits
  /\ edits' = edits + 1
  /\ disk' = IF h \in disk THEN disk \ {h} ELSE disk \cup {h}
  /\ UNCHANGED <<reload, seen, hosts, controllers, stopped, pc, session, step, shown>>

\* reload_hosts, up to the await of loadAllHosts(); later, the file is read.
ReloadHosts(r) ==
  /\ reload[r] = "new"
  /\ reload' = [reload EXCEPT ![r] = "loading"]
  /\ UNCHANGED <<disk, edits, seen, hosts, controllers, stopped, pc, session, step, shown>>

ReadHosts(r) ==
  /\ reload[r] = "loading"
  /\ reload' = [reload EXCEPT ![r] = "read"]
  /\ seen' = [seen EXCEPT ![r] = disk]
  /\ UNCHANGED <<disk, edits, hosts, controllers, stopped, pc, session, step, shown>>

\* setHosts(), the hosts-loaded event, which prunes what the renderer shows, and
\* restartPollers() up to its await: the registered pollers are aborted.
Publish(r) ==
  /\ reload[r] = "read"
  /\ reload' = [reload EXCEPT ![r] = "restarting"]
  /\ hosts' = seen[r]
  /\ shown' = [h \in Hosts |-> IF h \in seen[r] THEN shown[h] ELSE Nobody]
  /\ stopped' = stopped \cup ({controllers[h] : h \in Hosts} \ {Nobody})
  /\ controllers' = [h \in Hosts |-> Nobody]
  /\ UNCHANGED <<disk, edits, seen, pc, session, step>>

\* Each poller of S runs up to its first await and announces itself.
Spawn(r, S) ==
  /\ reload[r] = "restarting"
  /\ reload' = [reload EXCEPT ![r] = "done"]
  /\ controllers' = [h \in Hosts |-> IF h \in S THEN <<r, h>> ELSE controllers[h]]
  /\ pc' = [p \in Pollers |->
              IF p[1] = r /\ HostOf(p) \in S THEN "connecting" ELSE pc[p]]
  /\ shown' = [h \in Hosts |-> IF h \in S THEN <<r, h>> ELSE shown[h]]
  /\ UNCHANGED <<disk, edits, seen, hosts, stopped, session, step>>

\* Mutant: the pollers start for the hosts this reload read before its await.
StartPollersOfSnapshot(r) == Spawn(r, seen[r])

\* restartPollers() from its await on: PollManager.start() for the hosts of now.
StartPollers(r) == Spawn(r, hosts)

-----------------------------------------------------------------------------
(* One poller *)

At(p, state) == pc[p] = state
Goto(p, state) == pc' = [pc EXCEPT ![p] = state]
Emit(p) == shown' = [shown EXCEPT ![HostOf(p)] = p]

\* Mutant: the loop never looks at the signal.
LoopTurnsForEver(p) ==
  IF p \in session
  THEN Goto(p, "collecting") /\ UNCHANGED <<session, shown>>
  ELSE Goto(p, "connecting") /\ Emit(p) /\ UNCHANGED session

\* From one turn of `while (!signal.aborted)` to the next await.
Turn(p) ==
  IF p \in stopped
  THEN Goto(p, "ended") /\ session' = session \ {p} /\ UNCHANGED shown
  ELSE IF p \in session
       THEN Goto(p, "collecting") /\ UNCHANGED <<session, shown>>
       ELSE Goto(p, "connecting") /\ Emit(p) /\ UNCHANGED session

\* Mutant: the backoff starts over with every connection.
ConnectedResets(p) ==
  /\ At(p, "connecting")
  /\ Goto(p, "collecting")
  /\ session' = session \cup {p}
  /\ step' = [step EXCEPT ![p] = 0]
  /\ Emit(p)
  /\ UNCHANGED reloadVars

\* SshSession.shared() answers; the signal is not looked at before the cycle.
Connected(p) ==
  /\ At(p, "connecting")
  /\ Goto(p, "collecting")
  /\ session' = session \cup {p}
  /\ Emit(p)
  /\ UNCHANGED <<reloadVars, step>>

\* Mutant: the step runs past the end of BACKOFF_SECS.
NextDelayUncapped(p) == step' = [step EXCEPT ![p] = @ + 1]

\* BackoffState.nextDelayMs().
NextDelay(p) == step' = [step EXCEPT ![p] = IF @ < LastStep THEN @ + 1 ELSE @]

ConnectFails(p) ==
  /\ At(p, "connecting")
  /\ Goto(p, "backoff")
  /\ NextDelay(p)
  /\ Emit(p)
  /\ UNCHANGED <<reloadVars, session>>

\* A cycle that produced data resets the backoff.
Collected(p) ==
  /\ At(p, "collecting")
  /\ Goto(p, "waiting")
  /\ step' = [step EXCEPT ![p] = 0]
  /\ Emit(p)
  /\ UNCHANGED <<reloadVars, session>>

\* Mutant: the failed cycle forgets session.disconnect().
CollectFailsKeepsSession(p) ==
  /\ At(p, "collecting")
  /\ Goto(p, "backoff")
  /\ NextDelay(p)
  /\ Emit(p)
  /\ UNCHANGED <<reloadVars, session>>

\* A failed cycle gives the session back: the next one dials afresh.
CollectFails(p) ==
  /\ At(p, "collecting")
  /\ Goto(p, "backoff")
  /\ session' = session \ {p}
  /\ NextDelay(p)
  /\ Emit(p)
  /\ UNCHANGED reloadVars

\* The timer of sleep() elapses, or its signal is aborted.
Wakes(p) ==
  /\ At(p, "waiting") \/ At(p, "backoff")
  /\ Turn(p)
  /\ UNCHANGED <<reloadVars, step>>

\* RefreshChannel.fire() of the registered pollers that are at one of the awaits:
\* each begins its next turn.
FireAt(awaits) ==
  LET W == {p \in Pollers : pc[p] \in awaits /\ controllers[HostOf(p)] = p}
  IN /\ W # {}
     /\ pc' = [p \in Pollers |->
                 IF p \notin W THEN pc[p]
                 ELSE IF p \in session THEN "collecting" ELSE "connecting"]
     /\ UNCHANGED <<reloadVars, session, step, shown>>

\* Mutant: waitBackoff() listens to the refresh channel as waitOrRefresh() does.
RefreshEndsBackoff == FireAt({"waiting", "backoff"})

\* refresh_metrics: only waitOrRefresh() listens, whose poller holds a session.
RefreshMetrics == FireAt({"waiting"})

Next ==
  \/ \E h \in Hosts : EditHosts(h)
  \/ \E r \in Reloads : ReloadHosts(r) \/ ReadHosts(r) \/ Publish(r) \/ StartPollers(r)
  \/ \E p \in Pollers :
       \/ Connected(p) \/ ConnectFails(p)
       \/ Collected(p) \/ CollectFails(p)
       \/ Wakes(p)
  \/ RefreshMetrics

\* Dials and commands are bounded by timeouts, sleeps by their timers.
Fairness ==
  \A p \in Pollers :
    /\ WF_vars(Connected(p) \/ ConnectFails(p))
    /\ WF_vars(Collected(p) \/ CollectFails(p))
    /\ WF_vars(Wakes(p))

Spec == Init /\ [][Next]_vars /\ Fairness

-----------------------------------------------------------------------------
(* Properties *)

\* No restart is under way.
Quiet == \A r \in Reloads : reload[r] \notin {"read", "restarting"}

Running(p) == pc[p] \in Awaits /\ p \notin stopped

\* Once the reloads have settled, each host of the list, and no other, has a
\* registered poller that runs, in whatever order the reloads read the file,
\* published and started (guiState.ts:145-150, pool.ts:170-190).
PollersMatchHosts ==
  Quiet /\ (\E r \in Reloads : reload[r] = "done") =>
    \A h \in Hosts :
      IF h \in hosts
      THEN controllers[h] # Nobody /\ Running(controllers[h])
      ELSE controllers[h] = Nobody

\* A poller that backs off or ended keeps no lease on the shared connection:
\* it would never be closed (pool.ts:317-332).
IdlePollersHoldNoSession ==
  \A p \in session : pc[p] \in {"collecting", "waiting"}

\* "A reconnect must never dial faster than the backoff schedule": a refresh does
\* not end a backoff (pool.ts:149-158).
RefreshNeverDials ==
  [][RefreshMetrics => \A p \in Pollers : At(p, "backoff") => pc'[p] = "backoff"]_vars

\* A stopped poller ends, wherever the abort finds it (pool.ts:185-190, 287, 331).
StoppedPollersEnd == \A p \in Pollers : p \in stopped ~> pc[p] = "ended"

\* A host that authenticates but never delivers metrics is not dialled at the
\* first step of the schedule for ever (pool.ts:309-312).
BackoffClimbs ==
  \A p \in Pollers :
    \/ []<><<Collected(p)>>_vars
    \/ <>(step[p] = LastStep \/ p \in stopped)
    \/ [](pc[p] = "none")

-----------------------------------------------------------------------------
(* The inductive invariant behind PollersMatchHosts and IdlePollersHoldNoSession. *)

\* A poller is one its reload has started.
OnlyStartedOnes ==
  \A p \in Pollers : pc[p] # "none" \/ p \in stopped => reload[p[1]] = "done"

\* The loop ends for the signal alone, and a registered poller was not stopped.
RegisteredOnesRun ==
  /\ \A p \in Pollers : pc[p] = "ended" => p \in stopped
  /\ \A h \in Hosts : controllers[h] # Nobody =>
       /\ controllers[h] \in Pollers /\ HostOf(controllers[h]) = h
       /\ pc[controllers[h]] # "none" /\ controllers[h] \notin stopped

\* Only listed hosts are watched, and all of them once the last restart is done.
WatchedAreListed ==
  /\ \A h \in Hosts : controllers[h] # Nobody => h \in hosts
  /\ (\E r \in Reloads : reload[r] = "done") /\ (\A r \in Reloads : reload[r] # "restarting")
       => \A h \in hosts : controllers[h] # Nobody

IInv == /\ TypeOK /\ OnlyStartedOnes /\ RegisteredOnesRun /\ WatchedAreListed
        /\ IdlePollersHoldNoSession

-----------------------------------------------------------------------------
(* What the documentation says and the code does not keep *)

\* "Stops the current pollers (if any) and starts a fresh one per host"
\* (guiState.ts:142): no two pollers run for one host.
OnePollerPerHost ==
  \A p, q \in Pollers : HostOf(p) = HostOf(q) /\ Running(p) /\ Running(q) => p = q

\* "Drop status/metrics for hosts that are gone, so a name reused by a new host
\* never inherits the old host's stale sample" (router.ts:57-58).
GoneHostsShowNothing == \A h \in Hosts : shown[h] # Nobody => h \in hosts
=============================================================================
