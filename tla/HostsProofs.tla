---------------------------- MODULE HostsProofs ----------------------------
(***************************************************************************)
(* What is proved of the things done with a host before a tab is open on   *)
(* it: of the pollers (HostPollers), for every set of hosts and number of  *)
(* overlapping reloads; of the set-up of a key (KeySetup); of ProxyJump    *)
(* chains (JumpChain), for every host list and MaxHops; and of connections *)
(* being opened (Dialling), for every number of them, of servers and keys. *)
(***************************************************************************)
EXTENDS MCHosts, SequenceTheorems, WellFoundedInduction, TLAPS

-----------------------------------------------------------------------------
(* Pollers *)

LEMMA PollerIsPair ==
  ASSUME NEW p \in Pollers
  PROVE  p[1] \in Reloads /\ HostOf(p) \in Hosts /\ p = <<p[1], HostOf(p)>>
BY DEF Pollers, HostOf

LEMMA PairIsPoller ==
  ASSUME NEW r \in Reloads, NEW h \in Hosts
  PROVE  /\ <<r, h>> \in Pollers /\ HostOf(<<r, h>>) = h /\ <<r, h>>[1] = r
         /\ <<r, h>> # Nobody
BY DEF Pollers, HostOf, Nobody

-----------------------------------------------------------------------------
(* IInv is inductive *)

LEMMA InitIInv == Init => IInv
<1> SUFFICES ASSUME Init PROVE IInv
  OBVIOUS
<1>1. TypeOK
  <2>1. 0 \in 0 .. MaxEdits /\ 0 \in 0 .. LastStep
    BY PollerAssumptions
  <2>2. /\ controllers \in [Hosts -> Pollers \cup {Nobody}]
        /\ shown \in [Hosts -> Pollers \cup {Nobody}]
        /\ pc \in [Pollers -> Awaits \cup {"none", "ended"}]
        /\ step \in [Pollers -> 0 .. LastStep]
    BY <2>1 DEF Init
  <2>3. reload \in [Reloads -> ReloadStates] /\ seen \in [Reloads -> SUBSET Hosts]
    BY DEF Init, ReloadStates
  <2>4. QED
    BY <2>1, <2>2, <2>3 DEF Init, TypeOK
<1>2. OnlyStartedOnes /\ RegisteredOnesRun /\ WatchedAreListed
  BY DEF Init, OnlyStartedOnes, RegisteredOnesRun, WatchedAreListed
<1>3. IdlePollersHoldNoSession
  BY DEF Init, IdlePollersHoldNoSession
<1>4. QED
  BY <1>1, <1>2, <1>3 DEF IInv

\* Editing the list, asking for a reload and reading the list touch no poller.
LEMMA ReadingIInv ==
  ASSUME IInv,
         \/ \E h \in Hosts : EditHosts(h)
         \/ \E r \in Reloads : ReloadHosts(r) \/ ReadHosts(r)
  PROVE  IInv'
<1>1. /\ UNCHANGED <<hosts, controllers, stopped, pc, session, step, shown>>
      /\ reload' \in [Reloads -> ReloadStates]
      /\ \A r \in Reloads : /\ reload[r] = "done" <=> reload'[r] = "done"
                            /\ reload[r] = "restarting" <=> reload'[r] = "restarting"
  BY DEF EditHosts, ReloadHosts, ReadHosts, IInv, TypeOK, ReloadStates
<1>2. /\ disk' \in SUBSET Hosts /\ edits' \in 0 .. MaxEdits
      /\ seen' \in [Reloads -> SUBSET Hosts]
  <2>1. CASE \E h \in Hosts : EditHosts(h)
    BY <2>1, PollerAssumptions DEF EditHosts, IInv, TypeOK
  <2>2. CASE \E r \in Reloads : ReloadHosts(r) \/ ReadHosts(r)
    BY <2>2 DEF ReloadHosts, ReadHosts, IInv, TypeOK
  <2>3. QED
    BY <2>1, <2>2
<1>3. TypeOK'
  BY <1>1, <1>2 DEF IInv, TypeOK
<1>4. OnlyStartedOnes'
  BY <1>1, PollerIsPair DEF IInv, OnlyStartedOnes
<1>5. RegisteredOnesRun' /\ IdlePollersHoldNoSession'
  BY <1>1 DEF IInv, RegisteredOnesRun, IdlePollersHoldNoSession
<1>6. WatchedAreListed'
  BY <1>1 DEF IInv, WatchedAreListed
<1>7. QED
  BY <1>3, <1>4, <1>5, <1>6 DEF IInv

\* A reload publishes: whoever was registered is stopped, and nobody is.
LEMMA PublishIInv == ASSUME IInv, NEW r \in Reloads, Publish(r) PROVE IInv'
<1>1. /\ reload[r] = "read" /\ reload' = [reload EXCEPT ![r] = "restarting"]
      /\ hosts' = seen[r] /\ controllers' = [h \in Hosts |-> Nobody]
      /\ shown' = [h \in Hosts |-> IF h \in seen[r] THEN shown[h] ELSE Nobody]
      /\ stopped' = stopped \cup ({controllers[h] : h \in Hosts} \ {Nobody})
      /\ UNCHANGED <<disk, edits, seen, pc, session, step>>
  BY DEF Publish
<1>2. reload' \in [Reloads -> ReloadStates] /\ stopped' \in SUBSET Pollers
  BY <1>1 DEF IInv, TypeOK, ReloadStates
<1>3. TypeOK'
  BY <1>1, <1>2 DEF IInv, TypeOK
<1>4. OnlyStartedOnes'
  <2>1. ASSUME NEW p \in Pollers, pc'[p] # "none" \/ p \in stopped'
        PROVE  pc[p] # "none" \/ p \in stopped
    BY <1>1, <2>1 DEF IInv, RegisteredOnesRun
  <2>2. ASSUME NEW p \in Pollers, reload[p[1]] = "done"
        PROVE  reload'[p[1]] = "done"
    BY <1>1, <2>2, PollerIsPair DEF IInv, TypeOK
  <2>3. QED
    BY <2>1, <2>2 DEF IInv, OnlyStartedOnes
<1>5. RegisteredOnesRun'
  BY <1>1 DEF IInv, RegisteredOnesRun
<1>6. WatchedAreListed'
  <2>1. reload'[r] = "restarting"
    BY <1>1 DEF IInv, TypeOK
  <2>2. QED
    BY <1>1, <2>1 DEF WatchedAreListed
<1>7. IdlePollersHoldNoSession'
  BY <1>1 DEF IInv, IdlePollersHoldNoSession
<1>8. QED
  BY <1>3, <1>4, <1>5, <1>6, <1>7 DEF IInv

\* A reload starts its pollers, none of which ran before.
LEMMA StartPollersIInv == ASSUME IInv, NEW r \in Reloads, StartPollers(r) PROVE IInv'
<1>1. /\ reload[r] = "restarting" /\ reload' = [reload EXCEPT ![r] = "done"]
      /\ controllers' = [h \in Hosts |-> IF h \in hosts THEN <<r, h>> ELSE controllers[h]]
      /\ pc' = [p \in Pollers |->
                  IF p[1] = r /\ HostOf(p) \in hosts THEN "connecting" ELSE pc[p]]
      /\ shown' = [h \in Hosts |-> IF h \in hosts THEN <<r, h>> ELSE shown[h]]
      /\ UNCHANGED <<disk, edits, seen, hosts, stopped, session, step>>
  BY DEF StartPollers, Spawn
<1>2. /\ reload' \in [Reloads -> ReloadStates] /\ reload'[r] = "done"
      /\ \A q \in Reloads : reload[q] = "done" => reload'[q] = "done"
  BY <1>1 DEF IInv, TypeOK, ReloadStates
<1>3. ASSUME NEW p \in Pollers, p[1] = r
      PROVE  pc[p] = "none" /\ p \notin stopped /\ p \notin session
  <2>1. pc[p] = "none" /\ p \notin stopped
    BY <1>1, <1>3 DEF IInv, OnlyStartedOnes
  <2>2. QED
    BY <2>1 DEF IInv, IdlePollersHoldNoSession
<1>4. TypeOK'
  <2>1. controllers' \in [Hosts -> Pollers \cup {Nobody}]
    BY <1>1, PairIsPoller DEF IInv, TypeOK
  <2>2. shown' \in [Hosts -> Pollers \cup {Nobody}]
    BY <1>1, PairIsPoller DEF IInv, TypeOK
  <2>3. pc' \in [Pollers -> Awaits \cup {"none", "ended"}]
    BY <1>1 DEF IInv, TypeOK, Awaits
  <2>4. QED
    BY <1>1, <1>2, <2>1, <2>2, <2>3 DEF IInv, TypeOK
<1>5. OnlyStartedOnes'
  BY <1>1, <1>2, PollerIsPair DEF IInv, OnlyStartedOnes
<1>6. RegisteredOnesRun'
  <2>1. ASSUME NEW p \in Pollers, pc'[p] = "ended"
        PROVE  p \in stopped'
    BY <1>1, <2>1 DEF IInv, RegisteredOnesRun
  <2>2. ASSUME NEW h \in Hosts, controllers'[h] # Nobody
        PROVE  /\ controllers'[h] \in Pollers /\ HostOf(controllers'[h]) = h
               /\ pc'[controllers'[h]] # "none" /\ controllers'[h] \notin stopped'
    <3>1. CASE h \in hosts
      <4>1. controllers'[h] = <<r, h>>
        BY <1>1, <3>1
      <4>2. pc'[<<r, h>>] = "connecting"
        BY <1>1, <3>1, PairIsPoller
      <4>3. <<r, h>> \notin stopped
        BY <1>3, PairIsPoller
      <4>4. QED
        BY <1>1, <4>1, <4>2, <4>3, PairIsPoller
    <3>2. CASE h \notin hosts
      BY <1>1, <2>2, <3>2 DEF IInv, WatchedAreListed
    <3>3. QED
      BY <3>1, <3>2
  <2>3. QED
    BY <2>1, <2>2 DEF RegisteredOnesRun
<1>7. WatchedAreListed'
  <2>1. \A h \in Hosts : controllers'[h] # Nobody => h \in hosts'
    BY <1>1 DEF IInv, WatchedAreListed
  <2>2. \A h \in hosts' : controllers'[h] # Nobody
    BY <1>1, PairIsPoller DEF IInv, TypeOK
  <2>3. QED
    BY <2>1, <2>2 DEF WatchedAreListed
<1>8. IdlePollersHoldNoSession'
  <2>1. ASSUME NEW p \in session
        PROVE  pc'[p] = pc[p]
    BY <1>1, <1>3 DEF IInv, TypeOK
  <2>2. QED
    BY <1>1, <2>1 DEF IInv, IdlePollersHoldNoSession
<1>9. QED
  BY <1>4, <1>5, <1>6, <1>7, <1>8 DEF IInv

\* A poller that goes on, or ends when it was stopped, and keeps its session only
\* on its way to the next cycle.
LEMMA OwnStepIInv ==
  ASSUME IInv, NEW p \in Pollers, NEW state \in Awaits \cup {"ended"},
         pc[p] # "none", Goto(p, state), UNCHANGED reloadVars,
         state = "ended" => p \in stopped,
         session' \in SUBSET (session \cup {p}),
         p \in session' => state \in {"collecting", "waiting"},
         step' \in [Pollers -> 0 .. LastStep],
         shown' \in [Hosts -> Pollers \cup {Nobody}]
  PROVE  IInv'
<1>1. /\ UNCHANGED <<disk, edits, reload, seen, hosts, controllers, stopped>>
      /\ pc' \in [Pollers -> Awaits \cup {"none", "ended"}]
      /\ pc'[p] = state /\ \A q \in Pollers : q # p => pc'[q] = pc[q]
  BY DEF Goto, reloadVars, IInv, TypeOK
<1>2. TypeOK'
  BY <1>1 DEF IInv, TypeOK
<1>3. OnlyStartedOnes'
  BY <1>1 DEF IInv, OnlyStartedOnes
<1>4. RegisteredOnesRun'
  <2>1. state # "none"
    BY DEF Awaits
  <2>2. QED
    BY <1>1, <2>1 DEF IInv, RegisteredOnesRun
<1>5. WatchedAreListed'
  BY <1>1 DEF IInv, WatchedAreListed
<1>6. IdlePollersHoldNoSession'
  BY <1>1 DEF IInv, TypeOK, IdlePollersHoldNoSession
<1>7. QED
  BY <1>2, <1>3, <1>4, <1>5, <1>6 DEF IInv

LEMMA EmitType ==
  ASSUME TypeOK, NEW p \in Pollers, Emit(p) \/ UNCHANGED shown
  PROVE  shown' \in [Hosts -> Pollers \cup {Nobody}]
BY DEF Emit, TypeOK

LEMMA NextDelayType ==
  ASSUME TypeOK, NEW p \in Pollers, NextDelay(p)
  PROVE  step' \in [Pollers -> 0 .. LastStep]
<1>1. step[p] \in 0 .. LastStep /\ step \in [Pollers -> 0 .. LastStep] /\ LastStep \in Nat
  BY PollerAssumptions DEF TypeOK
<1>2. (IF step[p] < LastStep THEN step[p] + 1 ELSE step[p]) \in 0 .. LastStep
  BY <1>1
<1>3. QED
  BY <1>1, <1>2 DEF NextDelay

LEMMA PollerIInv ==
  ASSUME IInv, NEW p \in Pollers,
         Connected(p) \/ ConnectFails(p) \/ Collected(p) \/ CollectFails(p) \/ Wakes(p)
  PROVE  IInv'
<1>0. /\ TypeOK /\ step \in [Pollers -> 0 .. LastStep] /\ 0 \in 0 .. LastStep
      /\ session \in SUBSET Pollers
      /\ p \in session => pc[p] \in {"collecting", "waiting"}
  BY PollerAssumptions DEF IInv, TypeOK, IdlePollersHoldNoSession
<1>1. CASE Connected(p)
  <2>1. /\ Goto(p, "collecting") /\ pc[p] = "connecting" /\ UNCHANGED <<reloadVars, step>>
        /\ session' = session \cup {p} /\ Emit(p)
    BY <1>1 DEF Connected, At
  <2>2. QED
    BY <1>0, <2>1, EmitType, OwnStepIInv DEF Awaits
<1>2. CASE ConnectFails(p)
  <2>1. /\ Goto(p, "backoff") /\ pc[p] = "connecting" /\ UNCHANGED <<reloadVars, session>>
        /\ NextDelay(p) /\ Emit(p)
    BY <1>2 DEF ConnectFails, At
  <2>2. QED
    BY <1>0, <2>1, EmitType, NextDelayType, OwnStepIInv DEF Awaits
<1>3. CASE Collected(p)
  <2>1. /\ Goto(p, "waiting") /\ pc[p] = "collecting" /\ UNCHANGED <<reloadVars, session>>
        /\ step' = [step EXCEPT ![p] = 0] /\ Emit(p)
    BY <1>3 DEF Collected, At
  <2>2. step' \in [Pollers -> 0 .. LastStep]
    BY <1>0, <2>1
  <2>3. QED
    BY <1>0, <2>1, <2>2, EmitType, OwnStepIInv DEF Awaits
<1>4. CASE CollectFails(p)
  <2>1. /\ Goto(p, "backoff") /\ pc[p] = "collecting" /\ UNCHANGED reloadVars
        /\ session' = session \ {p} /\ NextDelay(p) /\ Emit(p)
    BY <1>4 DEF CollectFails, At
  <2>2. QED
    BY <1>0, <2>1, EmitType, NextDelayType, OwnStepIInv DEF Awaits
<1>5. CASE Wakes(p)
  <2>1. pc[p] \in {"waiting", "backoff"} /\ Turn(p) /\ UNCHANGED <<reloadVars, step>>
    BY <1>5 DEF Wakes, At
  <2>2. CASE p \in stopped
    <3>1. Goto(p, "ended") /\ session' = session \ {p} /\ UNCHANGED shown
      BY <2>1, <2>2 DEF Turn
    <3>2. QED
      BY <1>0, <2>1, <2>2, <3>1, EmitType, OwnStepIInv
  <2>3. CASE p \notin stopped /\ p \in session
    <3>1. Goto(p, "collecting") /\ UNCHANGED <<session, shown>>
      BY <2>1, <2>3 DEF Turn
    <3>2. QED
      BY <1>0, <2>1, <3>1, EmitType, OwnStepIInv DEF Awaits
  <2>4. CASE p \notin stopped /\ p \notin session
    <3>1. Goto(p, "connecting") /\ Emit(p) /\ UNCHANGED session
      BY <2>1, <2>4 DEF Turn
    <3>2. QED
      BY <1>0, <2>1, <2>4, <3>1, EmitType, OwnStepIInv DEF Awaits
  <2>5. QED
    BY <2>2, <2>3, <2>4
<1>6. QED
  BY <1>1, <1>2, <1>3, <1>4, <1>5

\* A refresh wakes registered pollers between two cycles.
LEMMA RefreshIInv == ASSUME IInv, RefreshMetrics PROVE IInv'
<1>1. PICK W \in SUBSET Pollers :
        /\ \A p \in W : pc[p] = "waiting"
        /\ pc' = [p \in Pollers |->
                    IF p \notin W THEN pc[p]
                    ELSE IF p \in session THEN "collecting" ELSE "connecting"]
  BY DEF RefreshMetrics, FireAt
<1>2. UNCHANGED <<disk, edits, reload, seen, hosts, controllers, stopped, session, step, shown>>
  BY DEF RefreshMetrics, FireAt, reloadVars
<1>3. pc' \in [Pollers -> Awaits \cup {"none", "ended"}]
  BY <1>1 DEF IInv, TypeOK, Awaits
<1>4. /\ \A p \in Pollers : /\ pc'[p] = "none" => pc[p] = "none"
                            /\ pc'[p] = "ended" => pc[p] = "ended"
                            /\ pc[p] = "none" => pc'[p] = "none"
      /\ \A p \in session : pc[p] \in {"collecting", "waiting"} =>
                              pc'[p] \in {"collecting", "waiting"}
  BY <1>1 DEF IInv, TypeOK
<1>5. TypeOK'
  BY <1>2, <1>3 DEF IInv, TypeOK
<1>6. OnlyStartedOnes' /\ WatchedAreListed'
  BY <1>2, <1>4 DEF IInv, OnlyStartedOnes, WatchedAreListed
<1>7. RegisteredOnesRun'
  BY <1>2, <1>4 DEF IInv, RegisteredOnesRun
<1>8. IdlePollersHoldNoSession'
  BY <1>2, <1>4 DEF IInv, IdlePollersHoldNoSession
<1>9. QED
  BY <1>5, <1>6, <1>7, <1>8 DEF IInv

LEMMA NextIInv == IInv /\ [Next]_vars => IInv'
<1> SUFFICES ASSUME IInv, [Next]_vars PROVE IInv'
  OBVIOUS
<1>1. CASE \/ \E h \in Hosts : EditHosts(h)
           \/ \E r \in Reloads : ReloadHosts(r) \/ ReadHosts(r)
  BY <1>1, ReadingIInv
<1>2. CASE \E r \in Reloads : Publish(r) \/ StartPollers(r)
  BY <1>2, PublishIInv, StartPollersIInv
<1>3. CASE \E p \in Pollers : \/ Connected(p) \/ ConnectFails(p)
                              \/ Collected(p) \/ CollectFails(p) \/ Wakes(p)
  BY <1>3, PollerIInv
<1>4. CASE RefreshMetrics
  BY <1>4, RefreshIInv
<1>5. CASE UNCHANGED vars
  BY <1>5 DEF vars, IInv, TypeOK, OnlyStartedOnes, RegisteredOnesRun, WatchedAreListed,
     IdlePollersHoldNoSession
<1>6. QED
  BY <1>1, <1>2, <1>3, <1>4, <1>5 DEF Next

-----------------------------------------------------------------------------
(* What holds in every state *)

\* The inductive invariant: only started pollers run or were stopped, registered
\* ones run, and only listed hosts are watched (guiState.ts:145-150).
THEOREM Invariance == Spec => []IInv
<1>1. Init => IInv
  BY InitIInv
<1>2. IInv /\ [Next]_vars => IInv'
  BY NextIInv
<1>3. QED
  BY <1>1, <1>2, PTL DEF Spec

\* However many reloads overlap, once they settled each listed host and no other
\* has a registered poller that runs (guiState.ts:145-150, pool.ts:170-190).
THEOREM PollersAlwaysMatch == Spec => []PollersMatchHosts
<1>1. IInv => PollersMatchHosts
  <2>1. SUFFICES ASSUME IInv, Quiet, \E r \in Reloads : reload[r] = "done", NEW h \in Hosts
                 PROVE  IF h \in hosts
                        THEN controllers[h] # Nobody /\ Running(controllers[h])
                        ELSE controllers[h] = Nobody
    BY DEF PollersMatchHosts
  <2>2. controllers[h] # Nobody <=> h \in hosts
    BY <2>1 DEF IInv, WatchedAreListed, Quiet
  <2>3. ASSUME controllers[h] # Nobody
        PROVE  Running(controllers[h])
    BY <2>1, <2>3 DEF IInv, RegisteredOnesRun, TypeOK, Running
  <2>4. QED
    BY <2>2, <2>3
<1>2. QED
  BY <1>1, Invariance, PTL

\* A poller that backs off or ended keeps no lease on the shared connection
\* (pool.ts:317-332).
THEOREM IdleOnesHoldNothing == Spec => []IdlePollersHoldNoSession
<1>1. IInv => IdlePollersHoldNoSession
  BY DEF IInv
<1>2. QED
  BY <1>1, Invariance, PTL

-----------------------------------------------------------------------------
(* The set-up of a key *)

SetupSteps == {"new", "generate", "copy", "verify", "sudo"}

\* The script that turns passwords off is sent after a sign-in by key, which stays possible.
KeyKnownGood ==
  ~passwordRef /\ (\/ inner \in {"sudo", "disable", "reload", "final"}
                   \/ remote["disable"] # "unsent" \/ server.config = "no")
    => server.key \/ otherKey

\* Whoever is past the script has seen it succeed, or has lost the session, in which case
\* nothing more is sent and the last check is not reached.
DisableBeforeReload ==
  /\ inner \in SetupSteps => remote["disable"] = "unsent" /\ remote["reload"] = "unsent"
  /\ inner = "disable" => remote["reload"] = "unsent"
  /\ remote["reload"] # "unsent" \/ inner = "final" => remote["disable"] = "ran"
  /\ machine.passwordDisabled => inner \in {"reload", "final", "returned", "threw"}

\* A host is recorded by a run that still waited, and such a run is not rolled back.
RecordedIsNotRolledBack ==
  /\ outer = "new" => inner = "new"
  /\ outer \in {"new", "running"} => remote["rollback"] = "unsent" /\ recorded = "none"
  /\ recorded # "none" => remote["rollback"] = "unsent" /\ outer = "ended"
  /\ recorded = "disabled" => remote["disable"] = "ran"
  /\ remote["disable"] = "ran" /\ remote["rollback"] = "unsent" => server.config = "no"

SetupInv ==
  Setup!TypeOK /\ KeyKnownGood /\ DisableBeforeReload /\ RecordedIsNotRolledBack

\* Commands and their fates, one by one.
LEMMA CommandsAre ==
  /\ Setup!Commands = {"copy", "sudo", "disable", "reload", "rollback"}
  /\ Setup!Fates = {"unsent", "sent", "ran", "failed", "refused"}
  BY DEF Setup!Commands, Setup!Fates

LEMMA SetupInitInv == Setup!Init => SetupInv
<1> SUFFICES ASSUME Setup!Init PROVE SetupInv
  OBVIOUS
<1>1. Setup!TypeOK
  BY CommandsAre DEF Setup!Init, Setup!TypeOK, Setup!States
<1>2. remote["disable"] = "unsent" /\ remote["reload"] = "unsent" /\ remote["rollback"] = "unsent"
  BY CommandsAre DEF Setup!Init
<1>3. KeyKnownGood /\ DisableBeforeReload /\ RecordedIsNotRolledBack
  BY <1>2 DEF Setup!Init, KeyKnownGood, DisableBeforeReload, RecordedIsNotRolledBack, SetupSteps
<1>4. QED
  BY <1>1, <1>3 DEF SetupInv

\* What a script may do to the server: only the one that turns passwords off does so.
LEMMA ScriptEffects ==
  ASSUME Setup!TypeOK, NEW c \in Setup!Commands, Setup!RunsOnServer(c)
  PROVE  /\ server' \in [key : BOOLEAN, config : {"yes", "no"}, live : {"yes", "no"},
                         backup : BOOLEAN]
         /\ server.key => server'.key
         /\ server'.config = "no" => server.config = "no" \/ c = "disable"
         /\ c # "rollback" /\ server.config = "no" => server'.config = "no"
         /\ c = "disable" /\ remote'[c] = "ran" => server'.config = "no"
<1>1. CASE c \in {"copy", "sudo"}
  BY <1>1 DEF Setup!RunsOnServer, Setup!TypeOK
<1>2. CASE c = "disable"
  BY <1>2 DEF Setup!RunsOnServer, Setup!TypeOK, Setup!Fate
<1>3. CASE c = "reload"
  BY <1>3 DEF Setup!RunsOnServer, Setup!TypeOK
<1>4. CASE c = "rollback"
  BY <1>4 DEF Setup!RunsOnServer, Setup!TypeOK
<1>5. QED
  BY <1>1, <1>2, <1>3, <1>4, CommandsAre

LEMMA RunsKeeps ==
  ASSUME SetupInv, NEW c \in Setup!Commands, Setup!RunsOnServer(c)
  PROVE  SetupInv'
<1>1. remote[c] = "sent" /\ UNCHANGED <<Setup!choices, up, inner, outer, machine, recorded>>
  BY DEF Setup!RunsOnServer
<1>2. \E fate \in {"ran", "failed", "refused"} : remote' = [remote EXCEPT ![c] = fate]
  BY CommandsAre DEF Setup!RunsOnServer, Setup!Fate
<1>3. PICK fate \in {"ran", "failed", "refused"} : remote' = [remote EXCEPT ![c] = fate]
  BY <1>2
<1>4. /\ \A d \in Setup!Commands : remote'[d] = IF d = c THEN fate ELSE remote[d]
      /\ remote' \in [Setup!Commands -> Setup!Fates]
  BY <1>3, CommandsAre DEF SetupInv, Setup!TypeOK
<1>5. Setup!TypeOK'
  BY <1>1, <1>4, ScriptEffects DEF SetupInv, Setup!TypeOK, Setup!choices
<1>6. KeyKnownGood' /\ DisableBeforeReload'
  BY <1>1, <1>4, ScriptEffects, CommandsAre DEF SetupInv, Setup!choices, KeyKnownGood,
     DisableBeforeReload
<1>7. RecordedIsNotRolledBack'
  BY <1>1, <1>4, ScriptEffects, CommandsAre DEF SetupInv, RecordedIsNotRolledBack
<1>8. QED
  BY <1>5, <1>6, <1>7 DEF SetupInv

\* What a run that waits while the script reported passwords off ends by, or it rolls back.
FinalSuccess == inner = "final" /\ Setup!Authenticates

NoGivingUp ==
  outer = "running" /\ outer' = "ended" /\ machine.passwordDisabled =>
    FinalSuccess /\ machine'.state = "success" /\ recorded' \in {"disabled", "none"}

\* The machine's state afterwards is one of its states.
LEMMA ResultIsAState ==
  ASSUME Setup!TypeOK, NEW name, NEW ok, NEW hasSudo
  PROVE  Setup!StepResult(name, ok, hasSudo) \in Setup!States
  BY DEF Setup!StepResult, Setup!States, Setup!TypeOK

LEMMA SentIs ==
  ASSUME Setup!TypeOK, NEW c \in Setup!Commands
  PROVE  /\ Setup!Sent(c) \in [Setup!Commands -> Setup!Fates]
         /\ \A d \in Setup!Commands : d # c => Setup!Sent(c)[d] = remote[d]
         /\ Setup!Sent(c)[c] \in {"sent", remote[c]}
         /\ ~up => Setup!Sent(c) = remote
<1>1. "sent" \in Setup!Fates
  BY CommandsAre
<1>2. QED
  BY <1>1 DEF Setup!Sent, Setup!TypeOK

\* inner throws: a run that waits ends, or rolls back if passwords may be off.
LEMMA ThrowsKeeps ==
  ASSUME SetupInv, NEW state \in Setup!States, Setup!Throws(state), UNCHANGED <<Setup!choices, server>>,
         inner # "new", machine.passwordDisabled => state = "needsRollback"
  PROVE  SetupInv' /\ NoGivingUp
<1>1. /\ inner' = "threw" /\ machine' = [machine EXCEPT !.state = state] /\ UNCHANGED recorded
      /\ UNCHANGED <<sudo, otherKey, passwordRef, wanted, server>>
  BY DEF Setup!Throws, Setup!Becomes, Setup!choices
<1>2. \/ /\ outer = "running" /\ state = "needsRollback"
         /\ outer' = "rollback" /\ remote' = Setup!Sent("rollback") /\ up' = up
      \/ /\ outer = "running" /\ state # "needsRollback"
         /\ outer' = "ended" /\ up' = FALSE /\ remote' = remote
      \/ outer # "running" /\ UNCHANGED <<outer, up, remote>>
  BY DEF Setup!Throws, Setup!Catch, Setup!End
<1>3. /\ remote' \in [Setup!Commands -> Setup!Fates]
      /\ \A d \in Setup!Commands : d # "rollback" => remote'[d] = remote[d]
      /\ outer # "running" => remote' = remote
      /\ outer' # "rollback" => remote' = remote
      /\ outer = "running" => outer' \in {"rollback", "ended"}
      /\ outer # "running" => outer' = outer
      /\ outer' \in {"new", "running", "rollback", "ended"} /\ up' \in BOOLEAN
  BY <1>2, SentIs, CommandsAre DEF SetupInv, Setup!TypeOK
<1>4. Setup!TypeOK'
  BY <1>1, <1>3 DEF SetupInv, Setup!TypeOK
<1>5. KeyKnownGood' /\ DisableBeforeReload'
  BY <1>1, <1>3, CommandsAre DEF SetupInv, Setup!TypeOK, KeyKnownGood, DisableBeforeReload, SetupSteps
<1>6. RecordedIsNotRolledBack'
  BY <1>1, <1>3, CommandsAre DEF SetupInv, Setup!TypeOK, RecordedIsNotRolledBack
<1>7. NoGivingUp
  BY <1>2 DEF NoGivingUp
<1>8. QED
  BY <1>4, <1>5, <1>6, <1>7 DEF SetupInv

\* inner returns: a run that waits records what the script reported, or nothing.
LEMMA ReturnsKeeps ==
  ASSUME SetupInv, NEW state \in Setup!States, Setup!Returns(state), UNCHANGED <<Setup!choices, server>>,
         inner \in {"verify", "sudo", "disable", "final"},
         machine.passwordDisabled => FinalSuccess /\ state = "success"
  PROVE  SetupInv' /\ NoGivingUp
<1>1. /\ inner' = "returned" /\ machine' = [machine EXCEPT !.state = state]
      /\ UNCHANGED <<sudo, otherKey, passwordRef, wanted, server, remote>>
  BY DEF Setup!Returns, Setup!Becomes, Setup!choices
<1>2. \/ /\ outer = "running" /\ outer' = "ended" /\ up' = FALSE
         /\ recorded' \in {IF machine.passwordDisabled THEN "disabled" ELSE "key", recorded}
      \/ outer # "running" /\ UNCHANGED <<outer, up, recorded>>
  BY DEF Setup!Returns, Setup!End, Setup!PersistKey
<1>3. Setup!TypeOK'
  BY <1>1, <1>2 DEF SetupInv, Setup!TypeOK
<1>4. KeyKnownGood' /\ DisableBeforeReload'
  BY <1>1 DEF SetupInv, Setup!TypeOK, KeyKnownGood, DisableBeforeReload, SetupSteps
<1>5. machine.passwordDisabled => remote["disable"] = "ran"
  BY DEF SetupInv, DisableBeforeReload
<1>6. RecordedIsNotRolledBack'
  BY <1>1, <1>2, <1>5 DEF SetupInv, RecordedIsNotRolledBack
<1>7. NoGivingUp
  <2>1. outer = "running" /\ machine.passwordDisabled => recorded' \in {"disabled", "none"}
    BY <1>2 DEF SetupInv, RecordedIsNotRolledBack
  <2>2. machine.passwordDisabled => machine'.state = "success"
    BY <1>1 DEF SetupInv, Setup!TypeOK
  <2>3. QED
    BY <2>1, <2>2 DEF NoGivingUp
<1>8. QED
  BY <1>3, <1>4, <1>6, <1>7 DEF SetupInv

\* inner goes on to its next step and sends that step's command.
LEMMA GoOnKeeps ==
  ASSUME SetupInv, NEW next, Setup!GoOn(next), UNCHANGED <<Setup!choices, server>>,
         NEW state \in Setup!States, NEW off \in BOOLEAN,
         machine' = [state |-> state, passwordDisabled |-> off],
         \/ inner = "generate" /\ next = "copy" /\ off = machine.passwordDisabled
         \/ inner = "copy" /\ next = "verify" /\ off = machine.passwordDisabled
         \/ inner = "verify" /\ next = "sudo" /\ off = machine.passwordDisabled /\ Setup!Authenticates
         \/ inner = "sudo" /\ next = "disable" /\ off = machine.passwordDisabled
         \/ inner = "disable" /\ next = "reload" /\ (up => remote["disable"] = "ran")
         \/ inner = "reload" /\ next = "final" /\ remote["reload"] # "unsent"
  PROVE  SetupInv' /\ NoGivingUp
<1>1. /\ inner' = next
      /\ UNCHANGED <<sudo, otherKey, passwordRef, wanted, server, outer, up, recorded>>
      /\ remote' = IF next \in Setup!Commands THEN Setup!Sent(next) ELSE remote
  BY DEF Setup!GoOn, Setup!choices
<1>2. /\ remote' \in [Setup!Commands -> Setup!Fates]
      /\ \A d \in Setup!Commands : d # next => remote'[d] = remote[d]
      /\ ~up => remote' = remote
      /\ remote["rollback"] = remote'["rollback"]
      /\ remote'["disable"] \in {"sent", remote["disable"]}
  BY <1>1, SentIs, CommandsAre DEF SetupInv, Setup!TypeOK
<1>3. Setup!TypeOK'
  <2>1. machine' \in [state : Setup!States, passwordDisabled : BOOLEAN]
    OBVIOUS
  <2>2. QED
    BY <1>1, <1>2, <2>1 DEF SetupInv, Setup!TypeOK
<1>4. KeyKnownGood'
  BY <1>1, <1>2, CommandsAre DEF SetupInv, Setup!TypeOK, KeyKnownGood, Setup!Authenticates
<1>5. DisableBeforeReload'
  BY <1>1, <1>2, CommandsAre DEF SetupInv, Setup!TypeOK, DisableBeforeReload, SetupSteps
<1>6. RecordedIsNotRolledBack'
  BY <1>1, <1>2, CommandsAre DEF SetupInv, Setup!TypeOK, RecordedIsNotRolledBack, DisableBeforeReload,
     SetupSteps
<1>7. NoGivingUp
  BY <1>1 DEF NoGivingUp
<1>8. QED
  BY <1>3, <1>4, <1>5, <1>6, <1>7 DEF SetupInv

LEMMA InnerKeeps ==
  ASSUME SetupInv, Setup!Inner
  PROVE  SetupInv' /\ NoGivingUp
<1> DEFINE Kept == SetupInv' /\ NoGivingUp
<1>1. /\ machine \in [state : Setup!States, passwordDisabled : BOOLEAN] /\ up \in BOOLEAN
      /\ Setup!TypeOK
  BY DEF SetupInv, Setup!TypeOK
<1>2. ASSUME NEW state \in Setup!States, Setup!Becomes(state)
      PROVE  machine' = [state |-> state, passwordDisabled |-> machine.passwordDisabled]
  BY <1>1, <1>2 DEF Setup!Becomes
<1>3. machine.passwordDisabled => inner \in {"reload", "final", "returned", "threw"}
  BY DEF SetupInv, DisableBeforeReload
<1>4. ASSUME Setup!Generate PROVE Kept
  <2>1. CASE Setup!Throws(Setup!StepResult("generate", FALSE, TRUE))
             \/ Setup!Throws(Setup!StepResult("generate", TRUE, TRUE))
    BY <1>1, <1>3, <1>4, <2>1, ResultIsAState, ThrowsKeeps DEF Setup!Generate
  <2>2. CASE Setup!GoOn("copy") /\ Setup!Becomes(Setup!StepResult("generate", TRUE, TRUE))
    BY <1>1, <1>2, <1>4, <2>2, ResultIsAState, GoOnKeeps DEF Setup!Generate
  <2>3. QED
    BY <1>4, <2>1, <2>2 DEF Setup!Generate
<1>5. ASSUME NEW c \in Setup!Commands \ {"rollback"}, Setup!CommandFails(c) PROVE Kept
  <2>1. CASE c = "sudo"
    BY <1>1, <1>3, <1>5, <2>1, ResultIsAState, ReturnsKeeps DEF Setup!CommandFails
  <2>2. CASE c # "sudo"
    <3>1. Setup!StepResult("reload", FALSE, TRUE) = "needsRollback"
      BY DEF Setup!StepResult
    <3>2. /\ Setup!Throws(Setup!StepResult(c, FALSE, TRUE)) /\ inner = c
          /\ UNCHANGED <<Setup!choices, server>>
      BY <1>5, <2>2 DEF Setup!CommandFails
    <3>3. inner # "new" /\ (machine.passwordDisabled => c = "reload")
      BY <1>3, <1>5, <3>2, CommandsAre
    <3>4. QED
      BY <1>1, <3>1, <3>2, <3>3, ResultIsAState, ThrowsKeeps
  <2>3. QED
    BY <2>1, <2>2
<1>6. ASSUME Setup!CopyAnswered PROVE Kept
  BY <1>1, <1>2, <1>6, ResultIsAState, GoOnKeeps DEF Setup!CopyAnswered
<1>7. ASSUME Setup!Verify PROVE Kept
  <2>1. CASE Setup!Throws(Setup!StepResult("verify", FALSE, TRUE))
    BY <1>1, <1>3, <1>7, <2>1, ResultIsAState, ThrowsKeeps DEF Setup!Verify
  <2>2. CASE Setup!Authenticates /\ wanted /\ Setup!GoOn("sudo")
             /\ Setup!Becomes(Setup!StepResult("verify", TRUE, TRUE))
    BY <1>1, <1>2, <1>7, <2>2, ResultIsAState, GoOnKeeps DEF Setup!Verify
  <2>3. CASE Setup!Returns("success")
    <3>1. "success" \in Setup!States
      BY DEF Setup!States
    <3>2. QED
      BY <1>3, <1>7, <2>3, <3>1, ReturnsKeeps DEF Setup!Verify
  <2>4. QED
    BY <1>7, <2>1, <2>2, <2>3 DEF Setup!Verify
<1>8. ASSUME Setup!SudoAnswered PROVE Kept
  <2>1. CASE Setup!Returns(Setup!StepResult("verify", TRUE, FALSE))
    BY <1>1, <1>3, <1>8, <2>1, ResultIsAState, ReturnsKeeps DEF Setup!SudoAnswered
  <2>2. CASE Setup!GoOn("disable") /\ UNCHANGED machine
    <3>1. machine' = [state |-> machine.state, passwordDisabled |-> machine.passwordDisabled]
      BY <1>1, <2>2
    <3>2. QED
      BY <1>1, <1>8, <2>2, <3>1, GoOnKeeps DEF Setup!SudoAnswered
  <2>3. QED
    BY <1>8, <2>1, <2>2 DEF Setup!SudoAnswered
<1>9. ASSUME Setup!DisableAnswered PROVE Kept
  <2>1. CASE Setup!Returns(Setup!StepResult("verify", TRUE, FALSE))
    BY <1>1, <1>3, <1>9, <2>1, ResultIsAState, ReturnsKeeps DEF Setup!DisableAnswered
  <2>2. CASE Setup!Throws(Setup!StepResult("disable", FALSE, TRUE))
    BY <1>1, <1>3, <1>9, <2>2, ResultIsAState, ThrowsKeeps DEF Setup!DisableAnswered
  <2>3. ASSUME NEW a \in Setup!Answers("disable"), a \in {"ran", "lost"}, Setup!GoOn("reload"),
               machine' = [state |-> Setup!StepResult("disable", TRUE, TRUE),
                           passwordDisabled |-> TRUE]
        PROVE  Kept
    <3>1. up => remote["disable"] = "ran"
      BY <2>3, CommandsAre, <1>1 DEF Setup!Answers, Setup!TypeOK
    <3>2. QED
      BY <1>1, <1>9, <2>3, <3>1, ResultIsAState, GoOnKeeps DEF Setup!DisableAnswered
  <2>4. QED
    BY <1>9, <2>1, <2>2, <2>3 DEF Setup!DisableAnswered
<1>10. ASSUME Setup!ReloadAnswered PROVE Kept
  <2>1. remote["reload"] # "unsent"
    BY <1>10 DEF Setup!ReloadAnswered, Setup!Answers
  <2>2. QED
    BY <1>1, <1>2, <1>10, <2>1, ResultIsAState, GoOnKeeps DEF Setup!ReloadAnswered
<1>11. ASSUME Setup!FinalCheck PROVE Kept
  <2>1. /\ Setup!StepResult("final", FALSE, TRUE) = "needsRollback"
        /\ Setup!StepResult("final", TRUE, TRUE) = "success"
    BY DEF Setup!StepResult
  <2>2. CASE Setup!Authenticates /\ Setup!Returns(Setup!StepResult("final", TRUE, TRUE))
    BY <1>1, <1>11, <2>1, <2>2, ResultIsAState, ReturnsKeeps DEF Setup!FinalCheck, FinalSuccess
  <2>3. CASE Setup!Throws(Setup!StepResult("final", FALSE, TRUE))
    BY <1>1, <1>11, <2>1, <2>3, ResultIsAState, ThrowsKeeps DEF Setup!FinalCheck
  <2>4. QED
    BY <1>11, <2>2, <2>3 DEF Setup!FinalCheck
<1> HIDE DEF Kept
<1>12. Kept
  BY <1>4, <1>5, <1>6, <1>7, <1>8, <1>9, <1>10, <1>11 DEF Setup!Inner
<1>13. QED
  BY <1>12 DEF Kept

\* The threads around it, the session that drops and the end.
LEMMA OuterKeeps ==
  ASSUME SetupInv, Setup!Begin \/ Setup!TotalTimeout \/ Setup!RollbackEnds
                   \/ Setup!SessionDrops \/ Setup!Over
  PROVE  SetupInv' /\ NoGivingUp
<1>1. CASE Setup!Begin
  <2>1. /\ outer = "new" /\ outer' \in {"running", "ended"}
        /\ \/ inner' = "generate" /\ up' = TRUE
           \/ UNCHANGED <<inner, up>>
        /\ UNCHANGED <<sudo, otherKey, passwordRef, wanted, server, remote, machine, recorded>>
    BY <1>1 DEF Setup!Begin, Setup!choices
  <2>2. inner = "new" /\ inner' \in {"new", "generate"} /\ up' \in BOOLEAN
    BY <2>1 DEF SetupInv, RecordedIsNotRolledBack, Setup!TypeOK
  <2>3. Setup!TypeOK'
    BY <2>1, <2>2 DEF SetupInv, Setup!TypeOK
  <2>4. KeyKnownGood' /\ DisableBeforeReload'
    BY <2>1, <2>2 DEF SetupInv, KeyKnownGood, DisableBeforeReload, SetupSteps
  <2>5. RecordedIsNotRolledBack' /\ NoGivingUp
    BY <2>1, <2>2 DEF SetupInv, DisableBeforeReload, RecordedIsNotRolledBack, NoGivingUp
  <2>6. QED
    BY <2>3, <2>4, <2>5 DEF SetupInv
<1>2. CASE Setup!TotalTimeout
  <2> DEFINE name == IF machine.passwordDisabled THEN "final" ELSE "verify"
             state == Setup!StepResult(name, FALSE, TRUE)
  <2>1. /\ state \in Setup!States /\ (machine.passwordDisabled => state = "needsRollback")
    BY ResultIsAState DEF Setup!StepResult, SetupInv
  <2>2. /\ outer = "running" /\ machine' = [machine EXCEPT !.state = state]
        /\ Setup!Catch(state)
        /\ UNCHANGED <<sudo, otherKey, passwordRef, wanted, server, inner, recorded>>
    BY <1>2 DEF Setup!TotalTimeout, Setup!Becomes, Setup!choices
  <2> HIDE DEF state
  <2>3. \/ state = "needsRollback" /\ outer' = "rollback" /\ remote' = Setup!Sent("rollback") /\ up' = up
        \/ state # "needsRollback" /\ outer' = "ended" /\ up' = FALSE /\ remote' = remote
    BY <2>2 DEF Setup!Catch, Setup!End
  <2>4. /\ remote' \in [Setup!Commands -> Setup!Fates]
        /\ \A d \in Setup!Commands : d # "rollback" => remote'[d] = remote[d]
        /\ outer' # "rollback" => remote' = remote
        /\ outer' \in {"rollback", "ended"} /\ up' \in BOOLEAN
    BY <2>3, SentIs, CommandsAre DEF SetupInv, Setup!TypeOK
  <2>5. Setup!TypeOK'
    BY <2>1, <2>2, <2>4 DEF SetupInv, Setup!TypeOK
  <2>6. KeyKnownGood' /\ DisableBeforeReload'
    BY <2>2, <2>4, CommandsAre DEF SetupInv, Setup!TypeOK, KeyKnownGood, DisableBeforeReload
  <2>7. RecordedIsNotRolledBack' /\ NoGivingUp
    BY <2>1, <2>2, <2>3, <2>4, CommandsAre DEF SetupInv, RecordedIsNotRolledBack, NoGivingUp
  <2>8. QED
    BY <2>5, <2>6, <2>7 DEF SetupInv
<1>3. CASE Setup!RollbackEnds
  <2>1. /\ outer = "rollback" /\ outer' = "ended" /\ up' = FALSE
        /\ machine' \in {machine, [state |-> "rolledBack", passwordDisabled |-> FALSE]}
        /\ UNCHANGED <<sudo, otherKey, passwordRef, wanted, server, remote, inner, recorded>>
    BY <1>3 DEF Setup!RollbackEnds, Setup!End, Setup!choices
  <2>2. /\ machine' \in [state : Setup!States, passwordDisabled : BOOLEAN]
        /\ machine'.passwordDisabled => machine.passwordDisabled
    <3>1. machine \in [state : Setup!States, passwordDisabled : BOOLEAN]
      BY DEF SetupInv, Setup!TypeOK
    <3>2. CASE machine' = machine
      BY <3>1, <3>2
    <3>3. CASE machine' = [state |-> "rolledBack", passwordDisabled |-> FALSE]
      BY <3>3 DEF Setup!States
    <3>4. QED
      BY <2>1, <3>2, <3>3
  <2>3. Setup!TypeOK'
    BY <2>1, <2>2 DEF SetupInv, Setup!TypeOK
  <2>4. KeyKnownGood' /\ DisableBeforeReload' /\ RecordedIsNotRolledBack' /\ NoGivingUp
    BY <2>1, <2>2 DEF SetupInv, KeyKnownGood, DisableBeforeReload, RecordedIsNotRolledBack, NoGivingUp
  <2>5. QED
    BY <2>3, <2>4 DEF SetupInv
<1>4. CASE Setup!SessionDrops \/ Setup!Over
  <2>1. /\ UNCHANGED <<sudo, otherKey, passwordRef, wanted, server, remote, inner, outer, machine, recorded>>
        /\ up' \in {up, FALSE}
    BY <1>4 DEF Setup!SessionDrops, Setup!Over, Setup!vars, Setup!choices
  <2>2. Setup!TypeOK'
    BY <2>1 DEF SetupInv, Setup!TypeOK
  <2>3. KeyKnownGood' /\ DisableBeforeReload' /\ RecordedIsNotRolledBack' /\ NoGivingUp
    BY <2>1 DEF SetupInv, KeyKnownGood, DisableBeforeReload, RecordedIsNotRolledBack, NoGivingUp
  <2>4. QED
    BY <2>2, <2>3 DEF SetupInv
<1>5. QED
  BY <1>1, <1>2, <1>3, <1>4

LEMMA SetupStep == SetupInv /\ [PartsNext]_<<part, dialVars, vars, setupVars>> => SetupInv' /\ NoGivingUp
<1> SUFFICES ASSUME SetupInv, [PartsNext]_<<part, dialVars, vars, setupVars>>
             PROVE  SetupInv' /\ NoGivingUp
  OBVIOUS
<1>1. CASE UNCHANGED setupVars
  BY <1>1 DEF setupVars, SetupInv, Setup!TypeOK, KeyKnownGood, DisableBeforeReload,
     RecordedIsNotRolledBack, NoGivingUp
<1>2. CASE Setup!Next
  <2>1. ASSUME NEW c \in Setup!Commands, Setup!RunsOnServer(c) PROVE NoGivingUp
    BY <2>1 DEF Setup!RunsOnServer, NoGivingUp
  <2>2. QED
    BY <1>2, <2>1, InnerKeeps, OuterKeeps, RunsKeeps DEF Setup!Next
<1>3. QED
  BY <1>1, <1>2 DEF PartsNext

\* The inductive invariant of a set-up, its two threads and the server's scripts.
THEOREM SetupInvariance == PartsSpec => [](SetupInv)
<1>1. PartsInit => SetupInv
  BY SetupInitInv DEF PartsInit
<1>2. QED
  BY <1>1, SetupStep, PTL DEF PartsSpec

\* "Never disable password authentication without verified key auth" (keySetup.ts:17), on a
\* host whose password is stored: whatever times out, drops or goes on in the background.
THEOREM KeyAuthComesFirst == PartsSpec => []KeyAuthFirst
<1>1. SetupInv => KeyAuthFirst
  BY DEF SetupInv, KeyKnownGood, KeyAuthFirst, Setup!KeyAuthFirst
<1>2. QED
  BY <1>1, SetupInvariance, PTL

\* A host is recorded as without passwords only when its sshd_config says so
\* (keysetup.ts:42-53, 76-81).
THEOREM WhatIsRecordedIsSo == PartsSpec => []RecordsWhatIsSo
<1>1. SetupInv => RecordsWhatIsSo
  BY DEF SetupInv, RecordedIsNotRolledBack, RecordsWhatIsSo, Setup!RecordsWhatIsSo
<1>2. QED
  BY <1>1, SetupInvariance, PTL

\* Once the script reported passwords off, a run that waits leaves them off only from a final
\* check that has just signed in; anything else goes through the rollback (keySetup.ts:302-322).
THEOREM NoRunGivesUp == PartsSpec => NoReturnWithoutRollback
<1>1. PartsInit => SetupInv
  BY SetupInitInv DEF PartsInit
<1>2. NoGivingUp =>
        (outer = "running" /\ outer' = "ended" /\ machine.passwordDisabled
           => /\ inner = "final" /\ Setup!Authenticates /\ machine'.state = "success"
              /\ recorded' \in {"disabled", "none"})
  BY DEF NoGivingUp, FinalSuccess
<1>3. QED
  BY <1>1, <1>2, SetupStep, PTL DEF PartsSpec, NoReturnWithoutRollback, Setup!NoReturnWithoutRollback

-----------------------------------------------------------------------------
(* ProxyJump chains: what a host list may resolve to *)

\* A set of numbers that is not empty has a least: what induction on numbers comes
\* down to here, the least number for which a claim fails being none.
LEMMA LeastOf ==
  ASSUME NEW T, T \subseteq Nat, T # {}
  PROVE  \E x \in T : \A y \in T : x <= y
<1> DEFINE R == {ss \in Nat \X Nat : ss[1] < ss[2]}
<1>1. IsWellFoundedOn(OpToRel(<, Nat), Nat)
  BY NatLessThanWellFounded
<1>2. OpToRel(<, Nat) = R
  BY DEF OpToRel
<1> HIDE DEF R
<1>3. PICK x \in T : \A y \in T : ~(<<y, x>> \in R)
  BY <1>1, <1>2, WFMin
<1>4. ASSUME NEW y \in T PROVE x <= y
  <2>1. <<y, x>> \notin R
    BY <1>3
  <2>2. QED
    BY <2>1 DEF R
<1>5. QED
  BY <1>4

LEMMA ItemsOfSeq ==
  ASSUME NEW E, NEW s \in Seq(E)
  PROVE  /\ Len(s) \in Nat
         /\ DOMAIN s = 1 .. Len(s)
         /\ Range(s) = {s[i] : i \in 1 .. Len(s)}
BY LenProperties DEF Range

\* Leads, in a given list.
LeadsIn(list, a, b) ==
  \/ \E l \in {h.jump : h \in Range(list)} : \E i \in 2 .. Len(l) :
        resolveHop(l[i - 1], list) = a /\ resolveHop(l[i], list) = b
  \/ b.jump # <<>> /\ resolveHop(Last(b.jump), list) = a

\* The chain leads to the target, from a host without a proxyJump.
LeadsTo(list, chain, target) ==
  /\ chain \in Seq(Range(chain))
  /\ IF chain = <<>> THEN target.jump = <<>>
     ELSE /\ chain[1].jump = <<>> /\ LeadsIn(list, chain[Len(chain)], target)
          /\ \A i \in 2 .. Len(chain) : LeadsIn(list, chain[i - 1], chain[i])

\* The proxyJump values of a list, and the hosts they name.
ValuesOf(list) == {h.jump : h \in Range(list)}
Bastions(list) == {resolveHop(hop, list) : hop \in UNION {Range(l) : l \in ValuesOf(list)}}

\* The first of a sequence's elements whose index is in a set that is not empty.
LEMMA FirstIsThere ==
  ASSUME NEW E, NEW s \in Seq(E), NEW I, I \subseteq 1 .. Len(s), I # {}
  PROVE  s[CHOOSE m \in I : \A j \in I : m <= j] \in Range(s)
<1>1. DOMAIN s = 1 .. Len(s)
  BY LenProperties
<1>2. (CHOOSE m \in I : \A j \in I : m <= j) \in I
  <2>1. I \subseteq Nat
    OBVIOUS
  <2> QED
    BY <2>1, LeastOf
<1> QED
  BY <1>1, <1>2 DEF Range

\* A hop stands for a host of the list, or for one that is reached directly.
LEMMA HopIsAHost ==
  ASSUME NEW list \in Lists, NEW hop
  PROVE  resolveHop(hop, list).jump \in ValuesOf(list) \cup {<<>>}
<1> DEFINE First(I) == IF I # {} THEN CHOOSE m \in I : \A j \in I : m <= j ELSE 0
           called == First({i \in 1 .. Len(list) : list[i].name = hop.host})
           renamed == First({i \in 1 .. Len(list) : list[i].alias = hop.host})
           literal == [name |-> hop.host, alias |-> hop.host, end |-> hop.host, jump |-> <<>>,
                       op |-> FALSE, password |-> "none"]
           entry == IF called # 0 THEN list[called]
                    ELSE IF renamed # 0 THEN list[renamed] ELSE literal
<1>1. list \in Seq(Range(list))
  BY ListAssumption
<1>2. ASSUME NEW I, I \subseteq 1 .. Len(list), First(I) # 0 PROVE list[First(I)] \in Range(list)
  BY <1>1, <1>2, FirstIsThere
<1>3. resolveHop(hop, list) = IF hop.as = Inherit THEN entry ELSE [entry EXCEPT !.end = hop.as]
  BY DEF resolveHop, SelectInSeq, Min
<1>4. entry \in Range(list) \cup {literal}
  <2>1. called # 0 => list[called] \in Range(list)
    BY <1>2
  <2>2. renamed # 0 => list[renamed] \in Range(list)
    BY <1>2
  <2> HIDE DEF called, renamed, literal
  <2> QED
    BY <2>1, <2>2
<1>5. "jump" \in DOMAIN entry /\ entry.jump \in ValuesOf(list) \cup {<<>>}
  <2>1. literal.jump = <<>> /\ "jump" \in DOMAIN literal
    OBVIOUS
  <2> HIDE DEF entry, literal
  <2> QED
    BY <1>4, <2>1, ListAssumption DEF ValuesOf
<1> HIDE DEF entry
<1> QED
  BY <1>3, <1>5

\* The hosts of a value that can be used, hop by hop.
LEMMA HostsOfValue ==
  ASSUME NEW list \in Lists, NEW value \in ValuesOf(list)
  PROVE  /\ hopsOf(value, list) \in Seq(Bastions(list))
         /\ value \in Seq(Range(value))
         /\ parseJumpSpec(value).ok =>
              hopsOf(value, list) = [i \in 1 .. Len(value) |-> resolveHop(value[i], list)]
<1>1. value \in Seq(Range(value))
  BY ListAssumption DEF ValuesOf
<1>2. Len(value) \in Nat /\ DOMAIN value = 1 .. Len(value)
  BY <1>1, LenProperties
<1>3. CASE \E i \in DOMAIN value : value[i].host = Bad
  <2>1. parseJumpSpec(value).ok = FALSE /\ parseJumpSpec(value).hops = <<>>
    BY <1>3 DEF parseJumpSpec, NoChain
  <2>2. hopsOf(value, list) = [i \in 1 .. 0 |-> resolveHop(<<>>[i], list)]
    BY <2>1 DEF hopsOf
  <2>3. hopsOf(value, list) \in Seq(Bastions(list))
    BY <2>2
  <2> QED
    BY <1>1, <2>1, <2>3
<1>4. CASE ~(\E i \in DOMAIN value : value[i].host = Bad)
  <2>1. parseJumpSpec(value).hops = value
    BY <1>4 DEF parseJumpSpec, Chain
  <2>2. hopsOf(value, list) = [i \in 1 .. Len(value) |-> resolveHop(value[i], list)]
    BY <1>2, <2>1 DEF hopsOf
  <2>3. \A i \in 1 .. Len(value) : resolveHop(value[i], list) \in Bastions(list)
    BY <1>2 DEF Bastions, Range
  <2>4. hopsOf(value, list) \in Seq(Bastions(list))
    BY <1>2, <2>2, <2>3
  <2> QED
    BY <1>1, <2>2, <2>4
<1> QED
  BY <1>3, <1>4

\* A walk whose chain leads to the target, as far as its hops could be used.
Onward(list, chain, target) ==
  /\ chain # <<>> /\ LeadsIn(list, chain[Len(chain)], target)
  /\ \A i \in 2 .. Len(chain) : LeadsIn(list, chain[i - 1], chain[i])
GoodWalk(list, walk, target) ==
  /\ walk.chain \in Seq(Bastions(list))
  /\ walk.ok => Onward(list, walk.chain, target)

\* The hosts of a value lead to one another and to the host whose value it is.
LEMMA ValueLeadsOn ==
  ASSUME NEW list \in Lists, NEW host, host.jump \in ValuesOf(list), host.jump # <<>>,
         parseJumpSpec(host.jump).ok
  PROVE  Onward(list, hopsOf(host.jump, list), host)
<1> DEFINE value == host.jump
           hops == hopsOf(value, list)
<1>1. value \in Seq(Range(value)) /\ hops = [i \in 1 .. Len(value) |-> resolveHop(value[i], list)]
      /\ hops \in Seq(Bastions(list))
  BY HostsOfValue
<1>2. Len(value) \in Nat /\ Len(value) # 0 /\ Len(hops) = Len(value)
  BY <1>1, EmptySeq, LenProperties
<1> HIDE DEF hops
<1>3. \A i \in 1 .. Len(value) : hops[i] = resolveHop(value[i], list)
  BY <1>1
<1>4. LeadsIn(list, hops[Len(hops)], host)
  BY <1>2, <1>3 DEF LeadsIn, Last
<1>5. ASSUME NEW i \in 2 .. Len(hops) PROVE LeadsIn(list, hops[i - 1], hops[i])
  <2>1. i - 1 \in 1 .. Len(value) /\ i \in 1 .. Len(value)
    BY <1>2
  <2>2. hops[i - 1] = resolveHop(value[i - 1], list) /\ hops[i] = resolveHop(value[i], list)
    BY <1>3, <2>1
  <2> QED
    BY <1>2, <2>2 DEF LeadsIn, ValuesOf
<1>6. hops # <<>>
  BY <1>1, <1>2
<1> QED
  BY <1>4, <1>5, <1>6 DEF Onward, hops

\* One value further in leads on to what was there.
LEMMA IntoIsGood ==
  ASSUME NEW list \in Lists, NEW target, NEW walk, NEW host,
         host.jump \in ValuesOf(list), host.jump # <<>>,
         \/ walk.chain = <<>> /\ host = target
         \/ GoodWalk(list, walk, target) /\ walk.chain # <<>> /\ host = walk.chain[1]
  PROVE  GoodWalk(list, Into(walk, host, list), target)
<1> DEFINE new == Into(walk, host, list)
           hops == hopsOf(host.jump, list)
           chain == hops \o walk.chain
<1>1. new.chain = chain
  BY DEF Into
<1>2. new.ok => walk.ok /\ parseJumpSpec(host.jump).ok
  BY DEF Into
<1>3. hops \in Seq(Bastions(list)) /\ walk.chain \in Seq(Bastions(list))
  BY HostsOfValue, EmptySeq DEF GoodWalk
<1>4. chain \in Seq(Bastions(list)) /\ Len(chain) = Len(hops) + Len(walk.chain)
      /\ \A i \in 1 .. Len(chain) :
           chain[i] = IF i <= Len(hops) THEN hops[i] ELSE walk.chain[i - Len(hops)]
  <2>1. chain \in Seq(Bastions(list)) /\ Len(chain) = Len(hops) + Len(walk.chain)
    BY <1>3, ConcatProperties
  <2>2. \A i \in 1 .. Len(hops) + Len(walk.chain) :
          chain[i] = IF i <= Len(hops) THEN hops[i] ELSE walk.chain[i - Len(hops)]
    BY <1>3, ConcatProperties
  <2> HIDE DEF chain
  <2> QED
    BY <2>1, <2>2
<1>5. Len(hops) \in Nat /\ Len(walk.chain) \in Nat
  BY <1>3, LenProperties
<1> HIDE DEF new, chain, hops
<1>6. ASSUME new.ok PROVE Onward(list, chain, target)
  <2>1. Onward(list, hops, host)
    BY <1>2, <1>6, ValueLeadsOn DEF hops
  <2>2. Len(hops) # 0
    BY <1>3, <2>1, EmptySeq DEF Onward
  <2>3. CASE walk.chain = <<>> /\ host = target
    <3>1. chain = hops
      BY <1>3, <2>3, ConcatEmptySeq DEF chain
    <3> QED
      BY <2>1, <2>3, <3>1
  <2>4. CASE GoodWalk(list, walk, target) /\ walk.chain # <<>> /\ host = walk.chain[1]
    <3>1. Onward(list, walk.chain, target) /\ Len(walk.chain) # 0
      BY <1>2, <1>3, <1>6, <2>4, EmptySeq DEF GoodWalk
    <3>2. chain[Len(chain)] = walk.chain[Len(walk.chain)] /\ Len(chain) # 0
      BY <1>4, <1>5, <2>2, <3>1
    <3>3. ASSUME NEW i \in 2 .. Len(chain) PROVE LeadsIn(list, chain[i - 1], chain[i])
      <4>1. CASE i <= Len(hops)
        <5>1. chain[i - 1] = hops[i - 1] /\ chain[i] = hops[i] /\ i \in 2 .. Len(hops)
          BY <1>4, <1>5, <4>1
        <5> QED
          BY <2>1, <5>1 DEF Onward
      <4>2. CASE i = Len(hops) + 1
        <5>1. chain[i - 1] = hops[Len(hops)] /\ chain[i] = walk.chain[1]
          BY <1>4, <1>5, <2>2, <3>1, <4>2
        <5> QED
          BY <2>1, <2>4, <5>1 DEF Onward
      <4>3. CASE i > Len(hops) + 1
        <5> DEFINE j == i - Len(hops)
        <5>1. j \in 2 .. Len(walk.chain) /\ i - 1 \in 1 .. Len(chain) /\ i \in 1 .. Len(chain)
              /\ ~(i <= Len(hops)) /\ ~(i - 1 <= Len(hops)) /\ (i - 1) - Len(hops) = j - 1
          BY <1>4, <1>5, <4>3
        <5>2. chain[i - 1] = walk.chain[j - 1] /\ chain[i] = walk.chain[j]
          <6>1. chain[i] = walk.chain[i - Len(hops)]
            BY <1>4, <5>1
          <6>2. chain[i - 1] = walk.chain[(i - 1) - Len(hops)]
            BY <1>4, <5>1
          <6> QED
            BY <5>1, <6>1, <6>2
        <5> HIDE DEF j
        <5> QED
          BY <3>1, <5>1, <5>2 DEF Onward
      <4> QED
        BY <1>5, <4>1, <4>2, <4>3
    <3> QED
      BY <1>4, <3>1, <3>2, <3>3, EmptySeq DEF Onward
  <2> QED
    BY <2>3, <2>4
<1> QED
  BY <1>1, <1>4, <1>6 DEF GoodWalk, new

-----------------------------------------------------------------------------
(* expand() as a function of the depth *)

Deeper(walk, list) == IF Nests(walk) THEN Into(walk, walk.chain[1], list) ELSE walk

Walks(f, n, target, list) ==
  /\ f = [i \in 0 .. n |-> f[i]] /\ f[0] = Into(NewWalk, target, list)
  /\ \A i \in 1 .. n : f[i] = Deeper(f[i - 1], list)

LEMMA WalksExist ==
  ASSUME NEW target, NEW list, NEW n \in Nat
  PROVE  \E f : Walks(f, n, target, list)
<1> DEFINE T == {k \in Nat : ~(\E f : Walks(f, k, target, list))}
<1>1. SUFFICES ASSUME T # {} PROVE FALSE
  OBVIOUS
<1>2. PICK k \in T : \A j \in T : k <= j
  <2>1. T \subseteq Nat
    OBVIOUS
  <2> HIDE DEF T
  <2> QED
    BY <1>1, <2>1, LeastOf
<1>3. k \in Nat /\ ~(\E f : Walks(f, k, target, list))
  OBVIOUS
<1>4. k # 0
  <2> DEFINE f == [i \in 0 .. 0 |-> Into(NewWalk, target, list)]
  <2>1. Walks(f, 0, target, list)
    BY DEF Walks
  <2> QED
    BY <1>3, <2>1
<1>5. k - 1 \in Nat /\ ~(k <= k - 1)
  BY <1>3, <1>4
<1>6. PICK h : Walks(h, k - 1, target, list)
  <2>1. k - 1 \notin T
    <3> HIDE DEF T
    <3> QED
      BY <1>2, <1>5
  <2> QED
    BY <1>5, <2>1
<1> DEFINE new == Deeper(h[k - 1], list)
           f == [i \in 0 .. k |-> IF i = k THEN new ELSE h[i]]
<1> HIDE DEF new
<1>7. f[0] = Into(NewWalk, target, list)
  BY <1>3, <1>4, <1>6 DEF Walks
<1>8. ASSUME NEW i \in 1 .. k PROVE f[i] = Deeper(f[i - 1], list)
  <2>1. CASE i = k
    <3>1. f[k] = new /\ f[k - 1] = h[k - 1]
      BY <1>3, <1>4
    <3> QED
      BY <2>1, <3>1 DEF new
  <2>2. CASE i # k
    <3>1. i \in 1 .. (k - 1) /\ i \in 0 .. k /\ i - 1 \in 0 .. k /\ i - 1 # k
      BY <1>3, <2>2
    <3>2. f[i] = h[i] /\ f[i - 1] = h[i - 1]
      BY <2>2, <3>1
    <3> QED
      BY <1>6, <3>1, <3>2 DEF Walks
  <2> QED
    BY <2>1, <2>2
<1>9. f = [i \in 0 .. k |-> f[i]]
  OBVIOUS
<1> HIDE DEF f
<1> QED
  BY <1>3, <1>7, <1>8, <1>9 DEF Walks

LEMMA ExpandWalks ==
  ASSUME NEW target, NEW list
  PROVE  Walks(expand(target, list), MaxHops, target, list)
<1> DEFINE F(h) == [depth \in 0 .. MaxHops |->
             IF depth = 0 THEN Into(NewWalk, target, list)
             ELSE IF Nests(h[depth - 1]) THEN Into(h[depth - 1], h[depth - 1].chain[1], list)
                  ELSE h[depth - 1]]
           K == CHOOSE h : h = F(h)
<1>1. PICK f : Walks(f, MaxHops, target, list)
  BY MaxHopsAssumption, WalksExist
<1>2. f = F(f)
  <2>1. ASSUME NEW i \in 0 .. MaxHops PROVE f[i] = F(f)[i]
    <3>1. CASE i = 0
      BY <1>1, <3>1 DEF Walks
    <3>2. CASE i # 0
      <4>1. i \in 1 .. MaxHops
        BY <3>2, MaxHopsAssumption
      <4>2. f[i] = Deeper(f[i - 1], list)
        BY <1>1, <4>1 DEF Walks
      <4> QED
        BY <3>2, <4>2 DEF Deeper
    <3> QED
      BY <3>1, <3>2
  <2>2. f = [i \in 0 .. MaxHops |-> f[i]]
    BY <1>1 DEF Walks
  <2> QED
    BY <2>1, <2>2
<1>3. K = F(K)
  <2> HIDE DEF F
  <2> QED
    BY <1>2
<1>4. expand(target, list) = K
  BY DEF expand
<1>5. K = [i \in 0 .. MaxHops |-> K[i]] /\ K[0] = Into(NewWalk, target, list)
  <2> HIDE DEF K
  <2>1. 0 \in 0 .. MaxHops
    BY MaxHopsAssumption
  <2> QED
    BY <1>3, <2>1
<1>6. ASSUME NEW i \in 1 .. MaxHops PROVE K[i] = Deeper(K[i - 1], list)
  <2> HIDE DEF K
  <2>1. i \in 0 .. MaxHops /\ i # 0
    BY MaxHopsAssumption
  <2>2. K[i] = F(K)[i]
    BY <1>3, Zenon
  <2> QED
    BY <2>1, <2>2 DEF Deeper
<1> HIDE DEF K
<1> QED
  BY <1>4, <1>5, <1>6 DEF Walks

LEMMA ExpandIsGood ==
  ASSUME NEW list \in Lists, NEW target \in Range(list), target.jump # <<>>,
         NEW depth \in 0 .. MaxHops
  PROVE  GoodWalk(list, expand(target, list)[depth], target)
<1> DEFINE walk == expand(target, list)
           T == {k \in 0 .. MaxHops : ~GoodWalk(list, walk[k], target)}
<1>0. Walks(walk, MaxHops, target, list) /\ MaxHops \in Nat
  BY ExpandWalks, MaxHopsAssumption
<1> HIDE DEF walk
<1>1. SUFFICES ASSUME T # {} PROVE FALSE
  BY DEF walk
<1>2. PICK k \in T : \A j \in T : k <= j
  <2>1. T \subseteq Nat
    BY <1>0
  <2> HIDE DEF T
  <2> QED
    BY <1>1, <2>1, LeastOf
<1>3. k \in 0 .. MaxHops /\ ~GoodWalk(list, walk[k], target)
  OBVIOUS
<1>4. k # 0
  <2>1. walk[0] = Into(NewWalk, target, list)
    BY <1>0 DEF Walks
  <2>2. target.jump \in ValuesOf(list) /\ NewWalk.chain = <<>>
    BY DEF ValuesOf, NewWalk
  <2>3. GoodWalk(list, walk[0], target)
    BY <2>1, <2>2, IntoIsGood
  <2> QED
    BY <1>3, <2>3
<1>5. k \in 1 .. MaxHops /\ k - 1 \in 0 .. MaxHops /\ ~(k <= k - 1)
  BY <1>0, <1>3, <1>4
<1>6. GoodWalk(list, walk[k - 1], target)
  <2>1. k - 1 \notin T
    <3> HIDE DEF T
    <3> QED
      BY <1>2, <1>5
  <2> QED
    BY <1>5, <2>1
<1> DEFINE w == walk[k - 1]
<1>7. walk[k] = Deeper(w, list)
  BY <1>0, <1>5 DEF Walks
<1> HIDE DEF w
<1>8. CASE Nests(w)
  <2>1. w.chain # <<>> /\ w.chain[1].jump # <<>> /\ GoodWalk(list, w, target)
    BY <1>6, <1>8 DEF Nests, w
  <2>2. w.chain[1] \in Bastions(list)
    <3>1. w.chain \in Seq(Bastions(list))
      BY <2>1 DEF GoodWalk
    <3>2. Len(w.chain) \in Nat \ {0}
      BY <2>1, <3>1, EmptySeq, LenProperties
    <3> QED
      BY <3>1, <3>2, ElementOfSeq
  <2>3. w.chain[1].jump \in ValuesOf(list)
    BY <2>1, <2>2, HopIsAHost DEF Bastions
  <2>4. GoodWalk(list, Into(w, w.chain[1], list), target)
    BY <2>1, <2>3, IntoIsGood
  <2> QED
    BY <1>3, <1>7, <1>8, <2>4 DEF Deeper
<1>9. CASE ~Nests(w)
  BY <1>3, <1>6, <1>7, <1>9 DEF Deeper, w
<1> QED
  BY <1>8, <1>9

\* A chain that is resolved begins with a host that is reached directly, and each host leads
\* to the next and the last to the target.
LEMMA ChainResolved ==
  ASSUME NEW list \in Lists, NEW h \in Range(list), resolveChain(h, list).ok
  PROVE  LeadsTo(list, resolveChain(h, list).hops, h)
<1>1. CASE h.jump = <<>>
  <2>1. resolveChain(h, list).hops = <<>>
    BY <1>1 DEF resolveChain, Chain
  <2> QED
    BY <1>1, <2>1, EmptySeq DEF LeadsTo
<1>2. CASE h.jump # <<>>
  <2> DEFINE walk == expand(h, list)[MaxHops]
  <2>1. GoodWalk(list, walk, h)
    <3>1. MaxHops \in 0 .. MaxHops
      BY MaxHopsAssumption
    <3> QED
      BY <1>2, <3>1, ExpandIsGood
  <2> HIDE DEF walk
  <2>2. resolveChain(h, list) = IF ~walk.ok \/ Nests(walk) \/ Len(walk.chain) > MaxHops
                                THEN NoChain ELSE Chain(walk.chain)
    BY <1>2 DEF resolveChain, walk
  <2>3. walk.ok /\ ~Nests(walk) /\ resolveChain(h, list).hops = walk.chain
    BY <2>2 DEF NoChain, Chain
  <2>4. walk.chain \in Seq(Bastions(list)) /\ Onward(list, walk.chain, h)
    BY <2>1, <2>3 DEF GoodWalk
  <2>5. walk.chain[1].jump = <<>>
    BY <2>3, <2>4 DEF Nests, Onward
  <2>6. walk.chain \in Seq(Range(walk.chain))
    BY <2>4, SeqOfRange
  <2> QED
    BY <2>3, <2>4, <2>5, <2>6 DEF LeadsTo, Onward
<1> QED
  BY <1>1, <1>2

-----------------------------------------------------------------------------
(* Connections being opened: what is invariant *)

CallFields == {"at", "target", "chain", "hop", "up", "methods", "next", "single", "tried",
               "shown", "knew", "reached", "shook", "why"}
HasCallFields(r) == r = [f \in CallFields |-> r[f]]

\* A call that is over holds no hop.
HoldsNothing(r) == r.at \in {"failed", "closed"} => r.up = {}

\* Every connection made for a method of its own has given that method its turn.
HadTheirTurn(r) ==
  /\ r.methods \in Seq(Methods) /\ r.single \in 0 .. Len(r.methods)
  /\ r.tried \subseteq Range(r.methods)
  /\ \A i \in 1 .. r.single : r.methods[i] \in r.tried

\* So have, on the one connection for all of them, those before next.
AllBefore(r) ==
  /\ r.next \in 1 .. Len(Offered(r))
  /\ r.single = 0 => \A i \in 1 .. Len(r.methods) : i < r.next => r.methods[i] \in r.tried

FailsAfterAll(r, why) ==
  why = "auth" /\ Direct(r) /\ r.shook /\ Len(r.methods) > 1 => r.tried = Range(r.methods)

TakesTurns(r) ==
  /\ HadTheirTurn(r)
  /\ r.at = "auth" => AllBefore(r)
  /\ r.at \in {"checking", "learning", "auth"} => r.methods # <<>>
  /\ r.at \in {"idle", "resolving", "tunnel", "methods"} => r.methods = <<>>
  /\ r.at = "failed" => FailsAfterAll(r, r.why)

OnItsWay(list, r) ==
  r.at \in Busy \cup {"open"} =>
    LeadsTo(list, r.chain, r.target) /\ r.hop \in 1 .. Len(r.chain) + 1

OwnInv(list, r) ==
  HasCallFields(r) /\ HoldsNothing(r) /\ TakesTurns(r) /\ OnItsWay(list, r)

CallsInv ==
  /\ known \in Lists
  /\ call = [c \in Calls |-> call[c]]
  /\ \A c \in Calls : OwnInv(known, call[c])

\* What is recorded of a server, or is being recorded, was known when it showed its key.
AllKnown(r, lines, pending) ==
  LET e == Host(r).end IN
  /\ \E l \in lines : l[1] = e
  /\ \A l \in lines : l[1] = e => l[2] \in r.knew
  /\ \A a \in pending : a[3] = e => a[4] \in r.knew

KnowsItsServer(r, lines, pending) ==
  /\ r.at = "learning" => r.knew = {}
  /\ r.at \in {"checking", "auth"} /\ r.knew # {} => AllKnown(r, lines, pending)
  /\ r.at = "auth" /\ r.knew # {} => r.shown \in r.knew

ServersInv == \A c \in Calls : KnowsItsServer(call[c], file, appends)

-----------------------------------------------------------------------------
(* A step replaces one call *)

LEMMA Put ==
  ASSUME CallsInv, NEW c \in Calls, NEW q, call' = [call EXCEPT ![c] = q]
  PROVE  /\ call'[c] = q /\ \A d \in Calls : d # c => call'[d] = call[d]
         /\ call' = [d \in Calls |-> call'[d]]
<1>1. call = [d \in Calls |-> call[d]]
  BY DEF CallsInv
<1> QED
  BY <1>1

LEMMA PutKeeps ==
  ASSUME CallsInv, NEW c \in Calls, NEW q, call' = [call EXCEPT ![c] = q],
         known' = known, OwnInv(known, q)
  PROVE  CallsInv'
<1>1. \A d \in Calls : OwnInv(known, call'[d])
  BY Put DEF CallsInv
<1>2. call' = [d \in Calls |-> call'[d]] /\ known' \in Lists
  BY Put DEF CallsInv
<1> QED
  BY <1>1, <1>2 DEF CallsInv

LEMMA HopFailsKeeps ==
  ASSUME CallsInv, NEW c \in Calls, NEW r, NEW why, HasCallFields(r), HadTheirTurn(r),
         FailsAfterAll(r, why), known' = known, HopFails(c, r, why)
  PROVE  CallsInv'
<1> DEFINE q == [r EXCEPT !.at = "failed", !.why = why, !.up = {}]
<1>1. /\ HasCallFields(q) /\ q.at = "failed" /\ q.why = why /\ q.up = {}
      /\ q.methods = r.methods /\ q.single = r.single /\ q.tried = r.tried
      /\ q.hop = r.hop /\ q.shook = r.shook
  BY DEF HasCallFields, CallFields
<1>2. call' = [call EXCEPT ![c] = q]
  BY DEF HopFails
<1> HIDE DEF q
<1>3. OwnInv(known, q)
  BY <1>1 DEF OwnInv, HoldsNothing, TakesTurns, HadTheirTurn, FailsAfterAll, Direct, OnItsWay, Busy
<1> QED
  BY <1>2, <1>3, PutKeeps

LEMMA EnterKeeps ==
  ASSUME CallsInv, NEW c \in Calls, NEW r, NEW hop, HasCallFields(r),
         LeadsTo(known, r.chain, r.target), hop \in 1 .. Len(r.chain) + 1,
         known' = known, Enter(c, r, hop)
  PROVE  CallsInv'
<1> DEFINE q == [r EXCEPT !.at = "resolving", !.hop = hop, !.methods = <<>>,
                        !.single = 0, !.tried = {}, !.shown = NoKey,
                        !.knew = {}, !.reached = FALSE, !.shook = FALSE]
<1>1. /\ HasCallFields(q) /\ q.at = "resolving" /\ q.hop = hop /\ q.methods = <<>>
      /\ q.single = 0 /\ q.tried = {} /\ q.chain = r.chain /\ q.target = r.target
  BY DEF HasCallFields, CallFields
<1>2. call' = [call EXCEPT ![c] = q]
  BY DEF Enter
<1> HIDE DEF q
<1>3. OwnInv(known, q)
  <2>1. HadTheirTurn(q)
    BY <1>1, EmptySeq DEF HadTheirTurn
  <2> QED
    BY <2>1, <1>1 DEF OwnInv, HoldsNothing, TakesTurns, OnItsWay
<1> QED
  BY <1>2, <1>3, PutKeeps

\* An update of r that leaves alone what the invariant of turns and of the way is about.
Same(q, r) ==
  /\ HasCallFields(q)
  /\ q.methods = r.methods /\ q.single = r.single /\ q.tried = r.tried
  /\ q.chain = r.chain /\ q.target = r.target /\ q.hop = r.hop

\* A call that goes on, with the methods and turns it had.
LEMMA GoesOn ==
  ASSUME CallsInv, NEW c \in Calls, NEW q, Same(q, call[c]), call[c].at \in Busy,
         q.at \in Busy \cup {"open"},
         q.at = "auth" => AllBefore(q),
         q.at \in {"checking", "learning", "auth"} => q.methods # <<>>,
         q.at \in {"resolving", "tunnel", "methods"} =>
           call[c].at \in {"resolving", "tunnel", "methods"},
         known' = known, call' = [call EXCEPT ![c] = q]
  PROVE  CallsInv'
<1>1. OwnInv(known, call[c])
  BY DEF CallsInv
<1>2. OwnInv(known, q)
  <2>1. HasCallFields(q) /\ HoldsNothing(q)
    BY DEF Same, HoldsNothing, Busy
  <2>2. HadTheirTurn(q)
    BY <1>1 DEF OwnInv, Same, TakesTurns, HadTheirTurn
  <2>3. OnItsWay(known, q)
    BY <1>1 DEF OwnInv, Same, OnItsWay
  <2>4. q.at # "failed" /\ q.at # "idle"
    BY DEF Busy
  <2>5. q.at \in {"idle", "resolving", "tunnel", "methods"} => q.methods = <<>>
    BY <2>4, <1>1 DEF OwnInv, TakesTurns, Same
  <2> QED
    BY <2>1, <2>2, <2>3, <2>4, <2>5 DEF OwnInv, TakesTurns
<1> QED
  BY <1>2, PutKeeps

LEMMA LengthOfChain ==
  ASSUME NEW list, NEW chain, NEW h, LeadsTo(list, chain, h)
  PROVE  Len(chain) \in Nat
BY LenProperties DEF LeadsTo

LEMMA StartKeeps ==
  ASSUME CallsInv, NEW c \in Calls, NEW h \in Range(known), Start(c, h)
  PROVE  CallsInv'
<1> DEFINE chain == resolveChain(h, known)
           r == [Idle EXCEPT !.target = h, !.chain = chain.hops]
<1>1. /\ HasCallFields(r) /\ r.methods = <<>> /\ r.single = 0 /\ r.tried = {}
      /\ r.chain = chain.hops /\ r.target = h
  BY DEF Idle, HasCallFields, CallFields
<1> HIDE DEF r
<1>2. HadTheirTurn(r) /\ FailsAfterAll(r, "chain")
  <2>1. HadTheirTurn(r)
    BY <1>1, EmptySeq DEF HadTheirTurn
  <2>2. FailsAfterAll(r, "chain")
    BY DEF FailsAfterAll
  <2> QED
    BY <2>1, <2>2
<1> USE DEF r
<1>3. known' = known /\ known \in Lists
  BY DEF Start, Machine, CallsInv
<1>4. IF chain.ok THEN Enter(c, r, 1) ELSE HopFails(c, r, "chain")
  BY DEF Start
<1>5. chain.ok => LeadsTo(known, r.chain, r.target) /\ 1 \in 1 .. Len(r.chain) + 1
  <2>1. SUFFICES ASSUME chain.ok PROVE LeadsTo(known, r.chain, r.target) /\ 1 \in 1 .. Len(r.chain) + 1
    OBVIOUS
  <2>2. LeadsTo(known, chain.hops, h)
    BY <1>3, <2>1, ChainResolved
  <2> QED
    BY <2>2, <1>1, LengthOfChain
<1> HIDE DEF r, chain
<1> QED
  BY <1>1, <1>2, <1>3, <1>4, <1>5, EnterKeeps, HopFailsKeeps

\* The facts of a call that has not failed yet.
LEMMA OfCall ==
  ASSUME CallsInv, NEW c \in Calls
  PROVE  /\ HasCallFields(call[c]) /\ HadTheirTurn(call[c]) /\ TakesTurns(call[c])
         /\ HoldsNothing(call[c]) /\ OnItsWay(known, call[c])
BY DEF CallsInv, OwnInv, TakesTurns

LEMMA ResolvedKeeps ==
  ASSUME CallsInv, NEW c \in Calls, Resolved(c)
  PROVE  CallsInv'
<1> DEFINE r == call[c]
<1>0. known' = known /\ r.at = "resolving"
  BY DEF Resolved, Machine
<1>1. CASE HopFails(c, r, "onePassword")
  BY <1>0, <1>1, OfCall, HopFailsKeeps DEF FailsAfterAll
<1>2. CASE call' = [call EXCEPT ![c].at = IF Direct(r) THEN "methods" ELSE "tunnel"]
  <2> DEFINE at == IF Direct(r) THEN "methods" ELSE "tunnel"
             q == [r EXCEPT !.at = at]
  <2>1. Same(q, r) /\ q.at = at
    BY OfCall DEF Same, HasCallFields, CallFields
  <2>2. call' = [call EXCEPT ![c] = q]
    BY <1>2
  <2>3. q.at \in {"methods", "tunnel"}
    BY <2>1
  <2> HIDE DEF q
  <2> QED
    BY <1>0, <2>1, <2>2, <2>3, GoesOn DEF Busy
<1> QED
  BY <1>1, <1>2 DEF Resolved

LEMMA TunnelKeeps ==
  ASSUME CallsInv, NEW c \in Calls, TunnelOpens(c) \/ TunnelFails(c)
  PROVE  CallsInv'
<1> DEFINE r == call[c]
<1>0. known' = known /\ r.at = "tunnel"
  BY DEF TunnelOpens, TunnelFails, Machine
<1>1. CASE TunnelFails(c)
  BY <1>0, <1>1, OfCall, HopFailsKeeps DEF FailsAfterAll, TunnelFails
<1>2. CASE TunnelOpens(c)
  <2> DEFINE q == [r EXCEPT !.at = "methods"]
  <2>1. Same(q, r) /\ q.at = "methods"
    BY OfCall DEF Same, HasCallFields, CallFields
  <2>2. call' = [call EXCEPT ![c] = q]
    BY <1>2 DEF TunnelOpens
  <2> HIDE DEF q
  <2> QED
    BY <1>0, <2>1, <2>2, GoesOn DEF Busy
<1> QED
  BY <1>1, <1>2

LEMMA GatheringKeeps ==
  ASSUME CallsInv, NEW c \in Calls, GatherMethods(c)
  PROVE  CallsInv'
<1> DEFINE r == call[c]
<1>0. known' = known /\ r.at = "methods" /\ r.methods = <<>>
  BY OfCall DEF GatherMethods, Machine, TakesTurns
<1>1. PICK p \in {<<>>, <<"password">>} :
        call' = [call EXCEPT ![c] = [r EXCEPT !.at = "reach",
                   !.methods = (IF keyFiles THEN <<"key">> ELSE <<>>) \o p]]
  BY DEF GatherMethods
<1> DEFINE methods == (IF keyFiles THEN <<"key">> ELSE <<>>) \o p
           q == [r EXCEPT !.at = "reach", !.methods = methods]
<1>2. methods \in Seq(Methods)
  <2>1. p \in Seq(Methods) /\ (IF keyFiles THEN <<"key">> ELSE <<>>) \in Seq(Methods)
    <3>1. <<>> \in Seq(Methods)
      BY EmptySeq
    <3>2. <<"key">> \in Seq(Methods) /\ <<"password">> \in Seq(Methods)
      BY SMT DEF Methods
    <3> QED
      BY <3>1, <3>2
  <2> QED
    BY <2>1, ConcatProperties
<1>3. /\ HasCallFields(q) /\ q.at = "reach" /\ q.methods = methods
      /\ q.single = r.single /\ q.tried = r.tried
      /\ q.hop = r.hop /\ q.chain = r.chain /\ q.target = r.target
  BY OfCall DEF HasCallFields, CallFields
<1>4. call' = [call EXCEPT ![c] = q]
  BY <1>1
<1> HIDE DEF q, methods
<1>5. q.single = 0 /\ q.tried = {}
  <2>1. HadTheirTurn(r)
    BY OfCall
  <2>2. r.single = 0
    BY <1>0, <2>1 DEF HadTheirTurn
  <2>3. r.tried = {}
    BY <1>0, <2>1 DEF HadTheirTurn, Range
  <2> QED
    BY <1>3, <2>2, <2>3
<1>6. HadTheirTurn(q)
  <2>1. Len(methods) \in Nat
    BY <1>2, LenProperties
  <2> QED
    BY <1>2, <1>3, <1>5, <2>1 DEF HadTheirTurn
<1>7. OnItsWay(known, q)
  BY <1>0, <1>3, OfCall DEF OnItsWay, Busy
<1>8. OwnInv(known, q)
  BY <1>3, <1>6, <1>7 DEF OwnInv, TakesTurns, HoldsNothing
<1> QED
  BY <1>0, <1>4, <1>8, PutKeeps

LEMMA ConnectionFailsKeeps ==
  ASSUME CallsInv, NEW c \in Calls, NEW r, NEW exhausted \in BOOLEAN, NEW verdict,
         HasCallFields(r), HadTheirTurn(r),
         LeadsTo(known, r.chain, r.target), r.hop \in 1 .. Len(r.chain) + 1,
         exhausted /\ r.single = 0 => r.tried = Range(r.methods),
         known' = known, ConnectionFails(c, r, exhausted, verdict)
  PROVE  CallsInv'
<1> DEFINE again == r.shook /\ ~exhausted /\ Direct(r) /\ Len(r.methods) > 1
           own   == r.single < Len(r.methods) /\ (r.single > 0 \/ again)
<1>0. /\ r.methods \in Seq(Methods) /\ Len(r.methods) \in Nat /\ r.single \in 0 .. Len(r.methods)
      /\ Range(r.methods) = {r.methods[i] : i \in 1 .. Len(r.methods)}
  <2>1. r.methods \in Seq(Methods) /\ r.single \in 0 .. Len(r.methods)
    BY DEF HadTheirTurn
  <2> QED
    BY <2>1, ItemsOfSeq
<1>1. CASE r.single = 0 /\ (verdict # "" \/ ~r.reached)
  <2>1. HopFails(c, r, IF verdict # "" THEN "hostKey" ELSE "reach")
    BY <1>1 DEF ConnectionFails
  <2>2. HopFails(c, r, "hostKey") \/ HopFails(c, r, "reach")
    BY <2>1
  <2>3. FailsAfterAll(r, "hostKey") /\ FailsAfterAll(r, "reach")
    BY DEF FailsAfterAll
  <2> QED
    BY <2>2, <2>3, HopFailsKeeps
<1>2. CASE ~(r.single = 0 /\ (verdict # "" \/ ~r.reached)) /\ own
  <2> DEFINE n == r.single + 1
             q == OwnConnection(r, n)
  <2>1. call' = [call EXCEPT ![c] = q]
    BY <1>2 DEF ConnectionFails
  <2>2. /\ HasCallFields(q) /\ q.at = "reach" /\ q.single = n /\ q.methods = r.methods
        /\ q.tried = r.tried \cup {r.methods[n]}
        /\ q.hop = r.hop /\ q.chain = r.chain /\ q.target = r.target
    BY DEF HasCallFields, CallFields, OwnConnection
  <2> HIDE DEF q
  <2>3. n \in 1 .. Len(r.methods) /\ r.single \in Nat /\ \A i \in 1 .. n : i = n \/ i \in 1 .. r.single
    <3>1. r.single < Len(r.methods)
      BY <1>2
    <3> QED
      BY <1>0, <3>1
  <2>4. HadTheirTurn(q)
    BY <1>0, <2>2, <2>3 DEF HadTheirTurn
  <2>5. OwnInv(known, q)
    BY <2>2, <2>4 DEF OwnInv, HoldsNothing, TakesTurns, OnItsWay
  <2> QED
    BY <2>1, <2>5, PutKeeps
<1>3. CASE ~(r.single = 0 /\ (verdict # "" \/ ~r.reached)) /\ ~own
  <2>1. HopFails(c, r, "auth")
    BY <1>3 DEF ConnectionFails
  <2>2. ASSUME Direct(r), r.shook, Len(r.methods) > 1 PROVE r.tried = Range(r.methods)
    <3>0. ~(r.single < Len(r.methods) /\ r.single > 0) /\ ~(r.single < Len(r.methods) /\ again)
      <4> HIDE DEF again
      <4> QED
        BY <1>3
    <3>1. CASE r.single = 0
      <4>0. r.single < Len(r.methods)
        BY <1>0, <2>2, <3>1
      <4>1. exhausted
        BY <3>0, <4>0, <2>2, Zenon
      <4> QED
        BY <3>1, <4>1
    <3>2. CASE r.single # 0
      <4>1. r.single = Len(r.methods)
        <5> HIDE DEF again
        <5> QED
          BY <1>0, <3>0, <3>2
      <4>2. Range(r.methods) \subseteq r.tried
        BY <1>0, <4>1 DEF HadTheirTurn
      <4> QED
        BY <4>2 DEF HadTheirTurn
    <3> QED
      BY <3>1, <3>2
  <2>3. FailsAfterAll(r, "auth")
    BY <2>2 DEF FailsAfterAll
  <2> QED
    BY <2>1, <2>3, HopFailsKeeps
<1> QED
  BY <1>1, <1>2, <1>3

LEMMA WayOfCall ==
  ASSUME CallsInv, NEW c \in Calls, call[c].at \in Busy \cup {"open"}
  PROVE  LeadsTo(known, call[c].chain, call[c].target)
         /\ call[c].hop \in 1 .. Len(call[c].chain) + 1
BY OfCall DEF OnItsWay

LEMMA ReachingKeeps ==
  ASSUME CallsInv, NEW c \in Calls, NothingToOffer(c) \/ ShowsKey(c)
  PROVE  CallsInv'
<1> DEFINE r == call[c]
<1>0. known' = known /\ r.at = "reach"
  BY DEF NothingToOffer, ShowsKey, Machine
<1>1. CASE NothingToOffer(c)
  <2>1. Len(r.methods) = 0
    BY <1>1 DEF NothingToOffer
  <2>2. FailsAfterAll(r, "auth")
    BY <2>1 DEF FailsAfterAll
  <2> QED
    BY <1>0, <1>1, <2>2, OfCall, HopFailsKeeps DEF NothingToOffer
<1>2. CASE ShowsKey(c)
  <2>1. PICK key, knew : call' = [call EXCEPT ![c] =
            [r EXCEPT !.at = "checking", !.shown = key, !.reached = TRUE, !.knew = knew]]
    BY <1>2 DEF ShowsKey
  <2> DEFINE q == [r EXCEPT !.at = "checking", !.shown = key, !.reached = TRUE, !.knew = knew]
  <2>2. Same(q, r) /\ q.at = "checking"
    BY OfCall DEF Same, HasCallFields, CallFields
  <2>3. r.methods # <<>>
    BY <1>2 DEF ShowsKey
  <2> HIDE DEF q
  <2>4. q.methods # <<>>
    BY <2>2, <2>3 DEF Same
  <2> QED
    BY <1>0, <2>1, <2>2, <2>4, GoesOn DEF Busy, q
<1> QED
  BY <1>1, <1>2

\* A key that is accepted begins the methods from the first.
LEMMA AcceptedKeeps ==
  ASSUME CallsInv, NEW c \in Calls, call[c].at \in {"checking", "learning"},
         known' = known, Accepted(c, call[c])
  PROVE  CallsInv'
<1> DEFINE r == call[c]
           q == [r EXCEPT !.at = "auth", !.next = 1, !.shook = TRUE]
<1>1. Same(q, r) /\ q.at = "auth" /\ q.next = 1
  BY OfCall DEF Same, HasCallFields, CallFields
<1>2. call' = [call EXCEPT ![c] = q]
  BY DEF Accepted
<1>3. r.methods # <<>> /\ r.methods \in Seq(Methods) /\ r.single \in 0 .. Len(r.methods)
  BY OfCall DEF TakesTurns, HadTheirTurn
<1> HIDE DEF q
<1>4. AllBefore(q)
  <2>1. Len(q.methods) \in Nat \ {0}
    BY <1>1, <1>3, EmptySeq, LenProperties DEF Same
  <2>2. Len(Offered(q)) \in Nat \ {0}
    BY <2>1 DEF Offered
  <2> QED
    BY <1>1, <2>1, <2>2 DEF AllBefore
<1>5. q.methods # <<>>
  BY <1>1, <1>3 DEF Same
<1> QED
  BY <1>1, <1>2, <1>4, <1>5, GoesOn DEF Busy

LEMMA CheckKeeps ==
  ASSUME CallsInv, NEW c \in Calls, Check(c)
  PROVE  CallsInv'
<1> DEFINE r == call[c]
           verdict == checkKnownHosts(Host(r).end, r.shown)
<1>0. known' = known /\ r.at = "checking"
  BY DEF Check, Machine
<1>1. CASE Accepted(c, r)
  BY <1>0, <1>1, AcceptedKeeps
<1>2. CASE call' = [call EXCEPT ![c].at = "learning"]
  <2> DEFINE q == [r EXCEPT !.at = "learning"]
  <2>1. Same(q, r) /\ q.at = "learning"
    BY OfCall DEF Same, HasCallFields, CallFields
  <2>2. call' = [call EXCEPT ![c] = q]
    BY <1>2
  <2>3. r.methods # <<>>
    BY <1>0, OfCall DEF TakesTurns
  <2> HIDE DEF q
  <2>4. q.methods # <<>>
    BY <2>1, <2>3 DEF Same
  <2> QED
    BY <1>0, <2>1, <2>2, <2>4, GoesOn DEF Busy
<1>3. CASE ConnectionFails(c, r, FALSE, verdict)
  <2> HIDE DEF verdict
  <2> QED
    BY <1>0, <1>3, OfCall, WayOfCall, ConnectionFailsKeeps DEF Busy
<1>4. Accepted(c, r) \/ call' = [call EXCEPT ![c].at = "learning"]
      \/ ConnectionFails(c, r, FALSE, verdict)
  <2>1. CASE verdict = "known-match"
    BY <2>1 DEF Check
  <2>2. CASE verdict = "unknown"
    BY <2>2 DEF Check
  <2>3. CASE verdict # "unknown" /\ verdict # "known-match"
    BY <2>3 DEF Check
  <2> QED
    BY <2>1, <2>2, <2>3
<1> QED
  BY <1>1, <1>2, <1>3, <1>4

LEMMA LearnedKeeps ==
  ASSUME CallsInv, NEW a, a[1] \in Calls, Learned(a)
  PROVE  CallsInv'
<1>1. known' = known
  BY DEF Learned, Machine
<1>2. CASE call[a[1]].at = "learning" /\ Accepted(a[1], call[a[1]])
  BY <1>1, <1>2, AcceptedKeeps
<1>3. CASE UNCHANGED call
  BY <1>1, <1>3 DEF CallsInv
<1> QED
  BY <1>2, <1>3 DEF Learned

LEMMA SignedInKeeps ==
  ASSUME CallsInv, NEW c \in Calls, SignedIn(c)
  PROVE  CallsInv'
<1> DEFINE r == [call[c] EXCEPT !.up = @ \cup {call[c].hop}]
<1>0. known' = known /\ call[c].at = "auth"
  BY DEF SignedIn, Machine
<1>1. Same(r, call[c]) /\ r.at = call[c].at
  BY OfCall DEF Same, HasCallFields, CallFields
<1>2. CASE IsTarget(r) /\ call' = [call EXCEPT ![c] = [r EXCEPT !.at = "open"]]
  <2> DEFINE q == [r EXCEPT !.at = "open"]
  <2> HIDE DEF r
  <2>1. Same(q, call[c]) /\ q.at = "open"
    BY <1>1 DEF Same, HasCallFields, CallFields
  <2>2. call' = [call EXCEPT ![c] = q]
    BY <1>2
  <2> HIDE DEF q
  <2> QED
    BY <1>0, <2>1, <2>2, GoesOn DEF Busy
<1>3. CASE ~IsTarget(r) /\ Enter(c, r, r.hop + 1)
  <2> HIDE DEF r
  <2>1. LeadsTo(known, r.chain, r.target) /\ r.hop \in 1 .. Len(r.chain) + 1
    BY <1>0, <1>1, WayOfCall DEF Busy, Same
  <2>2. r.hop + 1 \in 1 .. Len(r.chain) + 1
    BY <1>3, <2>1, LengthOfChain DEF IsTarget
  <2> QED
    BY <1>0, <1>1, <1>3, <2>1, <2>2, EnterKeeps DEF Same
<1> QED
  BY <1>2, <1>3 DEF SignedIn

\* The method that is being offered is one of the call's, the one at next if all of them
\* are offered on this connection.
LEMMA TriesOne ==
  ASSUME CallsInv, NEW c \in Calls, call[c].at = "auth"
  PROVE  \E m \in Range(call[c].methods) :
           /\ call[c].single = 0 => m = call[c].methods[call[c].next]
           /\ Tries(call[c]) = [call[c] EXCEPT !.tried = @ \cup {m}]
<1> DEFINE r == call[c]
           m == Offered(r)[r.next]
<1>1. r.methods \in Seq(Methods) /\ r.single \in 0 .. Len(r.methods) /\ AllBefore(r)
  BY OfCall DEF TakesTurns, HadTheirTurn
<1>2. /\ Len(r.methods) \in Nat
      /\ Range(r.methods) = {r.methods[i] : i \in 1 .. Len(r.methods)}
  BY <1>1, ItemsOfSeq
<1>3. CASE r.single = 0
  <2>1. Offered(r) = r.methods /\ r.next \in 1 .. Len(r.methods)
    BY <1>1, <1>3 DEF Offered, AllBefore
  <2>2. m = r.methods[r.next] /\ m \in Range(r.methods)
    BY <1>2, <2>1
  <2> QED
    BY <2>2 DEF Tries
<1>4. CASE r.single # 0
  <2>1. Offered(r) = <<r.methods[r.single]>> /\ r.single \in 1 .. Len(r.methods)
    BY <1>1, <1>2, <1>4 DEF Offered
  <2>2. r.next = 1
    BY <1>1, <2>1 DEF AllBefore
  <2>3. m \in Range(r.methods)
    BY <1>2, <2>1, <2>2
  <2> QED
    BY <1>4, <2>3 DEF Tries
<1> QED
  BY <1>3, <1>4

\* A call with one more method that had its turn.
LEMMA TriedKeeps ==
  ASSUME CallsInv, NEW c \in Calls, call[c].at = "auth", NEW m \in Range(call[c].methods)
  PROVE  LET r == [call[c] EXCEPT !.tried = @ \cup {m}]
         IN /\ HasCallFields(r) /\ HadTheirTurn(r) /\ r.tried = call[c].tried \cup {m}
            /\ \A f \in CallFields \ {"tried"} : r[f] = call[c][f]
<1> DEFINE r == [call[c] EXCEPT !.tried = @ \cup {m}]
<1>1. /\ HasCallFields(r) /\ r.tried = call[c].tried \cup {m}
      /\ \A f \in CallFields \ {"tried"} : r[f] = call[c][f]
  BY OfCall DEF HasCallFields, CallFields
<1>2. HadTheirTurn(call[c])
  BY OfCall
<1> HIDE DEF r
<1>3. r.methods = call[c].methods /\ r.single = call[c].single
  BY <1>1 DEF CallFields
<1>4. HadTheirTurn(r)
  BY <1>1, <1>2, <1>3 DEF HadTheirTurn
<1> QED
  BY <1>1, <1>4 DEF r

LEMMA RejectedKeeps ==
  ASSUME CallsInv, NEW c \in Calls, Rejected(c)
  PROVE  CallsInv'
<1>0. known' = known /\ call[c].at = "auth"
  BY DEF Rejected, Machine
<1>1. PICK m \in Range(call[c].methods) :
        /\ call[c].single = 0 => m = call[c].methods[call[c].next]
        /\ Tries(call[c]) = [call[c] EXCEPT !.tried = @ \cup {m}]
  BY <1>0, TriesOne
<1> DEFINE r == [call[c] EXCEPT !.tried = @ \cup {m}]
<1>2. /\ HasCallFields(r) /\ HadTheirTurn(r) /\ r.tried = call[c].tried \cup {m}
      /\ \A f \in CallFields \ {"tried"} : r[f] = call[c][f]
  BY <1>0, TriedKeeps
<1>3. \/ r.next < Len(Offered(r)) /\ call' = [call EXCEPT ![c] = [r EXCEPT !.next = @ + 1]]
      \/ ~(r.next < Len(Offered(r))) /\ ConnectionFails(c, r, TRUE, "")
  BY <1>1 DEF Rejected
<1> HIDE DEF r
<1>4. /\ r.at = "auth" /\ r.methods = call[c].methods /\ r.single = call[c].single
      /\ r.next = call[c].next /\ r.hop = call[c].hop /\ r.chain = call[c].chain
      /\ r.target = call[c].target
  BY <1>0, <1>2 DEF CallFields
<1>5. AllBefore(call[c]) /\ r.methods \in Seq(Methods) /\ Len(r.methods) \in Nat
  BY <1>0, <1>2, ItemsOfSeq, OfCall DEF TakesTurns, HadTheirTurn
<1>6. Offered(r) = Offered(call[c]) /\ Len(Offered(r)) \in Nat
  BY <1>4, <1>5 DEF Offered
<1>7. ASSUME r.single = 0, NEW i \in 1 .. Len(r.methods), i < r.next + 1 PROVE r.methods[i] \in r.tried
  <2>1. r.next \in Nat
    BY <1>4, <1>5, <1>6 DEF AllBefore
  <2>2. i < r.next \/ i = r.next
    BY <1>7, <2>1
  <2> QED
    BY <1>1, <1>2, <1>4, <1>5, <1>7, <2>2 DEF AllBefore
<1>8. LeadsTo(known, r.chain, r.target) /\ r.hop \in 1 .. Len(r.chain) + 1
  BY <1>0, <1>4, WayOfCall DEF Busy
<1>9. CASE r.next < Len(Offered(r)) /\ call' = [call EXCEPT ![c] = [r EXCEPT !.next = @ + 1]]
  <2> DEFINE q == [r EXCEPT !.next = @ + 1]
  <2>1. /\ HasCallFields(q) /\ q.next = r.next + 1 /\ q.at = r.at
        /\ q.methods = r.methods /\ q.single = r.single /\ q.tried = r.tried
        /\ q.hop = r.hop /\ q.chain = r.chain /\ q.target = r.target
    BY <1>2 DEF HasCallFields, CallFields
  <2>2. call' = [call EXCEPT ![c] = q]
    BY <1>9
  <2> HIDE DEF q
  <2>3. AllBefore(q)
    <3>1. Offered(q) = Offered(r) /\ r.next \in 1 .. Len(Offered(r))
      BY <1>4, <1>5, <1>6, <2>1 DEF Offered, AllBefore
    <3>2. q.next \in 1 .. Len(Offered(q))
      BY <1>6, <1>9, <2>1, <3>1
    <3> QED
      BY <1>7, <2>1, <3>2 DEF AllBefore
  <2>4. HadTheirTurn(q)
    BY <1>2, <2>1 DEF HadTheirTurn
  <2>5. r.methods # <<>>
    BY <1>0, <1>4, OfCall DEF TakesTurns
  <2>6. OwnInv(known, q)
    BY <1>4, <1>8, <2>1, <2>3, <2>4, <2>5 DEF OwnInv, TakesTurns, HoldsNothing, OnItsWay
  <2> QED
    BY <1>0, <2>2, <2>6, PutKeeps
<1>10. CASE ~(r.next < Len(Offered(r))) /\ ConnectionFails(c, r, TRUE, "")
  <2>1. ASSUME r.single = 0 PROVE r.tried = Range(r.methods)
    <3>1. Offered(r) = r.methods /\ r.next \in 1 .. Len(r.methods)
      BY <1>4, <1>5, <1>6, <2>1 DEF Offered, AllBefore
    <3>2. \A i \in 1 .. Len(r.methods) : r.methods[i] \in r.tried
      <4>1. \A i \in 1 .. Len(r.methods) : i < r.next + 1
        <5>1. ~(r.next < Len(r.methods)) /\ r.next \in Nat
          <6>1. ~(r.next < Len(Offered(r)))
            BY <1>10
          <6>2. r.next \in Nat
            BY <1>5, <3>1
          <6> QED
            BY <3>1, <6>1, <6>2
        <5>2. Len(r.methods) \in Nat
          BY <1>5
        <5> QED
          BY <5>1, <5>2
      <4> QED
        BY <1>7, <2>1, <4>1
    <3> QED
      BY <1>2, <1>5, <3>2, ItemsOfSeq DEF HadTheirTurn
  <2> QED
    BY <1>0, <1>2, <1>8, <1>10, <2>1, ConnectionFailsKeeps
<1> QED
  BY <1>3, <1>9, <1>10

LEMMA ConnectionLostKeeps ==
  ASSUME CallsInv, NEW c \in Calls, ConnectionLost(c)
  PROVE  CallsInv'
<1>0. known' = known /\ call[c].at \in {"reach", "checking", "learning", "auth"}
  BY DEF ConnectionLost, Machine
<1>1. CASE call[c].at = "auth"
  <2>1. PICK m \in Range(call[c].methods) :
          Tries(call[c]) = [call[c] EXCEPT !.tried = @ \cup {m}]
    BY <1>1, TriesOne
  <2> DEFINE r == [call[c] EXCEPT !.tried = @ \cup {m}]
  <2>2. /\ HasCallFields(r) /\ HadTheirTurn(r)
        /\ \A f \in CallFields \ {"tried"} : r[f] = call[c][f]
    BY <1>1, TriedKeeps
  <2> DEFINE q == [call[c] EXCEPT !.shook = FALSE]
  <2>3. ConnectionFails(c, r, FALSE, "") \/ ConnectionFails(c, q, FALSE, "")
    BY <1>1, <2>1 DEF ConnectionLost
  <2>4. HasCallFields(call[c]) /\ HadTheirTurn(call[c])
    BY OfCall
  <2>5. HasCallFields(q) /\ \A f \in CallFields \ {"shook"} : q[f] = call[c][f]
    BY <2>4 DEF HasCallFields, CallFields
  <2> HIDE DEF r, q
  <2>6. /\ r.hop = call[c].hop /\ r.chain = call[c].chain /\ r.target = call[c].target
        /\ q.hop = call[c].hop /\ q.chain = call[c].chain /\ q.target = call[c].target
    BY <2>2, <2>5 DEF CallFields
  <2>7. HadTheirTurn(q)
    BY <2>4, <2>5 DEF HadTheirTurn, CallFields
  <2> QED
    BY <1>0, <1>1, <2>2, <2>3, <2>5, <2>6, <2>7, WayOfCall, ConnectionFailsKeeps DEF Busy
<1>2. CASE call[c].at # "auth"
  <2>1. ConnectionFails(c, call[c], FALSE, "")
    BY <1>2 DEF ConnectionLost
  <2> QED
    BY <1>0, <2>1, OfCall, WayOfCall, ConnectionFailsKeeps DEF Busy
<1> QED
  BY <1>1, <1>2

LEMMA EndsKeep ==
  ASSUME CallsInv, NEW c \in Calls,
         Disconnect(c) \/ \E i \in call[c].up : BastionDies(c, i)
  PROVE  CallsInv'
<1> DEFINE r == call[c]
<1>0. known' = known
  BY DEF Disconnect, BastionDies, Machine
<1>1. CASE Disconnect(c)
  <2> DEFINE q == [r EXCEPT !.at = "closed", !.up = {}]
  <2>1. HasCallFields(q) /\ q.at = "closed" /\ q.up = {} /\ q.methods = r.methods
        /\ q.single = r.single /\ q.tried = r.tried
    BY OfCall DEF HasCallFields, CallFields
  <2>2. call' = [call EXCEPT ![c] = q]
    BY <1>1 DEF Disconnect
  <2> HIDE DEF q
  <2>3. HadTheirTurn(q)
    BY <2>1, OfCall DEF HadTheirTurn
  <2>4. OwnInv(known, q)
    BY <2>1, <2>3 DEF OwnInv, HoldsNothing, TakesTurns, OnItsWay, Busy
  <2> QED
    BY <1>0, <2>2, <2>4, PutKeeps
<1>2. ASSUME NEW i \in call[c].up, BastionDies(c, i) PROVE CallsInv'
  <2> DEFINE left == {j \in r.up : j < i}
             q == [r EXCEPT !.up = left]
  <2>1. HasCallFields(q) /\ q.up = left /\ \A f \in CallFields \ {"up"} : q[f] = r[f]
    BY OfCall DEF HasCallFields, CallFields
  <2>2. call' = [call EXCEPT ![c] = q]
    BY <1>2 DEF BastionDies
  <2>3. left \subseteq r.up
    OBVIOUS
  <2> HIDE DEF q, left
  <2>4. /\ q.at = r.at /\ q.methods = r.methods /\ q.single = r.single /\ q.tried = r.tried
        /\ q.next = r.next /\ q.hop = r.hop /\ q.chain = r.chain /\ q.target = r.target
        /\ q.why = r.why /\ q.shook = r.shook
    BY <2>1 DEF CallFields
  <2>5. OwnInv(known, q)
    <3>1. HoldsNothing(q)
      BY <2>1, <2>3, <2>4, OfCall DEF HoldsNothing
    <3>2. Direct(q) = Direct(r) /\ Offered(q) = Offered(r)
      BY <2>4 DEF Direct, Offered
    <3>3. TakesTurns(q)
      BY <2>4, <3>2, OfCall DEF TakesTurns, HadTheirTurn, AllBefore, FailsAfterAll
    <3>4. OnItsWay(known, q)
      BY <2>4, OfCall DEF OnItsWay
    <3> QED
      BY <2>1, <3>1, <3>3, <3>4 DEF OwnInv
  <2> QED
    BY <1>0, <2>2, <2>5, PutKeeps
<1> QED
  BY <1>1, <1>2

LEMMA InitCalls == DialInit => CallsInv
<1> SUFFICES ASSUME DialInit PROVE CallsInv
  OBVIOUS
<1>1. call = [c \in Calls |-> Idle] /\ known \in Lists
  BY DEF DialInit
<1>2. /\ HasCallFields(Idle) /\ Idle.at = "idle" /\ Idle.methods = <<>> /\ Idle.single = 0
      /\ Idle.tried = {}
  BY DEF HasCallFields, CallFields, Idle
<1>3. HadTheirTurn(Idle)
  BY <1>2, EmptySeq DEF HadTheirTurn
<1>4. OwnInv(known, Idle)
  BY <1>2, <1>3 DEF OwnInv, HoldsNothing, TakesTurns, OnItsWay, Busy
<1> QED
  BY <1>1, <1>4 DEF CallsInv

\* Only calls of the app have a line in flight.
AppendsInv == \A a \in appends : a[1] \in Calls

LEMMA DialsKeep ==
  ASSUME CallsInv, NEW c \in Calls, Dials(c)
  PROVE  CallsInv'
BY StartKeeps, ResolvedKeeps, TunnelKeeps, GatheringKeeps, ReachingKeeps, CheckKeeps,
   SignedInKeeps, RejectedKeeps, ConnectionLostKeeps, EndsKeep DEF Dials

LEMMA AppendsStep ==
  ASSUME AppendsInv, DialNext
  PROVE  AppendsInv'
<1>1. ASSUME NEW c \in Calls, Dials(c) PROVE AppendsInv'
  <2>1. UNCHANGED appends \/ Check(c)
    BY <1>1 DEF Dials, Start, Resolved, TunnelOpens, TunnelFails, GatherMethods, NothingToOffer,
       ShowsKey, SignedIn, Rejected, ConnectionLost, Disconnect, BastionDies
  <2>2. ASSUME Check(c)
        PROVE  UNCHANGED appends \/ \E a : a[1] = c /\ appends' = appends \cup {a}
    <3> DEFINE r == call[c]
               v == checkKnownHosts(Host(r).end, r.shown)
               a == <<c, <<r.hop, r.single>>, Host(r).end, r.shown>>
    <3>1. a[1] = c
      OBVIOUS
    <3>2. CASE v = "known-match"
      BY <2>2, <3>2 DEF Check
    <3>3. CASE v = "unknown"
      BY <2>2, <3>1, <3>3 DEF Check
    <3>4. CASE v # "known-match" /\ v # "unknown"
      BY <2>2, <3>4 DEF Check
    <3> QED
      BY <3>2, <3>3, <3>4
  <2> QED
    BY <2>1, <2>2 DEF AppendsInv
<1>2. ASSUME NEW a \in appends, Learned(a) PROVE AppendsInv'
  BY <1>2 DEF Learned, AppendsInv
<1>3. ASSUME NEW e \in Ends, KeyChanges(e) PROVE AppendsInv'
  BY <1>3 DEF KeyChanges, AppendsInv
<1> QED
  BY <1>1, <1>2, <1>3 DEF DialNext

LEMMA CallsStep ==
  ASSUME CallsInv, AppendsInv, DialNext
  PROVE  CallsInv'
<1>1. ASSUME NEW c \in Calls, Dials(c) PROVE CallsInv'
  BY <1>1, DialsKeep
<1>2. ASSUME NEW a \in appends, Learned(a) PROVE CallsInv'
  BY <1>2, LearnedKeeps DEF AppendsInv
<1>3. ASSUME NEW e \in Ends, KeyChanges(e) PROVE CallsInv'
  BY <1>3 DEF KeyChanges, CallsInv, Machine
<1> QED
  BY <1>1, <1>2, <1>3 DEF DialNext

-----------------------------------------------------------------------------
(* Servers and their keys *)

LEMMA PutKnows ==
  ASSUME CallsInv, ServersInv, NEW c \in Calls, NEW q, call' = [call EXCEPT ![c] = q],
         UNCHANGED <<file, appends>>, KnowsItsServer(q, file, appends)
  PROVE  ServersInv'
BY Put DEF ServersInv

\* A call that does not deal with a server's key has nothing to know of it.
Elsewhere(r) == r.at \notin {"checking", "learning", "auth"}

LEMMA ElsewhereKnows ==
  ASSUME CallsInv, ServersInv, NEW c \in Calls, NEW q, call' = [call EXCEPT ![c] = q],
         UNCHANGED <<file, appends>>, Elsewhere(q)
  PROVE  ServersInv'
<1>1. KnowsItsServer(q, file, appends)
  BY DEF KnowsItsServer, Elsewhere
<1> QED
  BY <1>1, PutKnows

LEMMA FailsOrEnters ==
  ASSUME CallsInv, ServersInv, NEW c \in Calls, NEW r, HasCallFields(r),
         UNCHANGED <<file, appends>>,
         \/ \E why : HopFails(c, r, why)
         \/ \E hop : Enter(c, r, hop)
         \/ \E exhausted, verdict : ConnectionFails(c, r, exhausted, verdict)
  PROVE  ServersInv'
<1>1. ASSUME NEW why, HopFails(c, r, why) PROVE ServersInv'
  <2> DEFINE q == [r EXCEPT !.at = "failed", !.why = why, !.up = {}]
  <2>1. call' = [call EXCEPT ![c] = q] /\ Elsewhere(q)
    BY <1>1 DEF HopFails, HasCallFields, CallFields, Elsewhere
  <2> QED
    BY <2>1, ElsewhereKnows
<1>2. ASSUME NEW hop, Enter(c, r, hop) PROVE ServersInv'
  <2> DEFINE q == [r EXCEPT !.at = "resolving", !.hop = hop, !.methods = <<>>,
                        !.single = 0, !.tried = {}, !.shown = NoKey,
                        !.knew = {}, !.reached = FALSE, !.shook = FALSE]
  <2>1. call' = [call EXCEPT ![c] = q]
    BY <1>2 DEF Enter
  <2>2. Elsewhere(q)
    BY DEF HasCallFields, CallFields, Elsewhere
  <2> QED
    BY <2>1, <2>2, ElsewhereKnows
<1>3. ASSUME NEW exhausted, NEW verdict, ConnectionFails(c, r, exhausted, verdict)
      PROVE  ServersInv'
  <2>1. \/ \E why : HopFails(c, r, why)
        \/ call' = [call EXCEPT ![c] = OwnConnection(r, r.single + 1)]
    BY <1>3, Zenon DEF ConnectionFails
  <2>2. Elsewhere(OwnConnection(r, r.single + 1))
    BY DEF HasCallFields, CallFields, Elsewhere, OwnConnection
  <2> QED
    BY <1>1, <2>1, <2>2, ElsewhereKnows
<1> QED
  BY <1>1, <1>2, <1>3

SameServer(q, r) ==
  /\ q.knew = r.knew /\ q.shown = r.shown
  /\ q.target = r.target /\ q.chain = r.chain /\ q.hop = r.hop

\* A call that still deals with the same server knows what it knew.
LEMMA StillKnows ==
  ASSUME NEW q, NEW r, SameServer(q, r), q.at = r.at, NEW lines, NEW pending,
         KnowsItsServer(r, lines, pending)
  PROVE  KnowsItsServer(q, lines, pending)
<1>1. Host(q) = Host(r)
  BY DEF SameServer, Host, IsTarget
<1> QED
  BY <1>1 DEF SameServer, KnowsItsServer, AllKnown

LEMMA ShowsKeyKnows ==
  ASSUME CallsInv, ServersInv, NEW c \in Calls, ShowsKey(c)
  PROVE  ServersInv'
<1> DEFINE r == call[c]
           e == Host(r).end
           learned == {l[2] : l \in {l \in file : l[1] = e}}
           pending == {a[4] : a \in {a \in appends : a[3] = e}}
           knew == IF learned = {} THEN {} ELSE learned \cup pending
           q == [r EXCEPT !.at = "checking", !.shown = keyOf[e], !.reached = TRUE, !.knew = knew]
<1>1. call' = [call EXCEPT ![c] = q] /\ UNCHANGED <<file, appends>>
  BY DEF ShowsKey
<1>2. q.at = "checking" /\ q.knew = knew /\ q.hop = r.hop /\ q.chain = r.chain /\ q.target = r.target
  BY OfCall DEF HasCallFields, CallFields
<1> HIDE DEF q
<1>3. Host(q).end = e
  BY <1>2 DEF Host, IsTarget
<1>4. KnowsItsServer(q, file, appends)
  BY <1>2, <1>3 DEF KnowsItsServer, AllKnown
<1> QED
  BY <1>1, <1>4, PutKnows

LEMMA CheckKnows ==
  ASSUME CallsInv, ServersInv, NEW c \in Calls, Check(c)
  PROVE  ServersInv'
<1> DEFINE r == call[c]
           e == Host(r).end
           v == checkKnownHosts(e, r.shown)
           a == <<c, <<r.hop, r.single>>, e, r.shown>>
<1>0. /\ r.at = "checking" /\ UNCHANGED file /\ KnowsItsServer(r, file, appends)
      /\ HasCallFields(r)
  BY OfCall DEF Check, ServersInv
<1>1. CASE v = "known-match"
  <2> DEFINE q == [r EXCEPT !.at = "auth", !.next = 1, !.shook = TRUE]
  <2>1. call' = [call EXCEPT ![c] = q] /\ UNCHANGED <<file, appends>>
    BY <1>1 DEF Check, Accepted
  <2>2. q.at = "auth" /\ SameServer(q, r)
    BY <1>0 DEF HasCallFields, CallFields, SameServer
  <2>3. <<e, r.shown>> \in file
    BY <1>1 DEF checkKnownHosts
  <2> HIDE DEF q
  <2>4. Host(q) = Host(r)
    BY <2>2 DEF SameServer, Host, IsTarget
  <2>5. KnowsItsServer(q, file, appends)
    BY <1>0, <2>2, <2>3, <2>4 DEF KnowsItsServer, SameServer, AllKnown
  <2> QED
    BY <2>1, <2>5, PutKnows
<1>2. CASE v = "unknown"
  <2> DEFINE q == [r EXCEPT !.at = "learning"]
  <2>1. call' = [call EXCEPT ![c] = q] /\ file' = file /\ appends' = appends \cup {a}
    BY <1>2 DEF Check
  <2>2. q.at = "learning" /\ q.knew = r.knew
    BY <1>0 DEF HasCallFields, CallFields
  <2>3. \A l \in file : l[1] # e
    BY <1>2 DEF checkKnownHosts
  <2>4. r.knew = {}
    BY <1>0, <2>3 DEF KnowsItsServer, AllKnown
  <2> HIDE DEF q
  <2>5. KnowsItsServer(q, file', appends')
    BY <2>2, <2>4 DEF KnowsItsServer
  <2>6. ASSUME NEW d \in Calls, d # c PROVE KnowsItsServer(call[d], file', appends')
    <3>1. KnowsItsServer(call[d], file, appends) /\ a[3] = e
      BY DEF ServersInv
    <3>2. AllKnown(call[d], file, appends) => AllKnown(call[d], file', appends')
      BY <2>1, <2>3, <3>1 DEF AllKnown
    <3> QED
      BY <3>1, <3>2 DEF KnowsItsServer
  <2> QED
    BY <2>1, <2>5, <2>6, Put DEF ServersInv
<1>3. CASE v # "known-match" /\ v # "unknown"
  <2>1. ConnectionFails(c, r, FALSE, v) /\ UNCHANGED <<file, appends>>
    BY <1>3 DEF Check
  <2> QED
    BY <1>0, <2>1, FailsOrEnters
<1> QED
  BY <1>1, <1>2, <1>3

\* A line that is written was being recorded: it is known to whoever knows its server.
LEMMA LearnedKnows ==
  ASSUME CallsInv, ServersInv, NEW a \in appends, a[1] \in Calls, Learned(a)
  PROVE  ServersInv'
<1>1. ASSUME NEW r, KnowsItsServer(r, file, appends) PROVE KnowsItsServer(r, file', appends')
  <2>1. appends' = appends \ {a} /\ file' \in {file, file \cup {<<a[3], a[4]>>}}
    BY DEF Learned
  <2>2. AllKnown(r, file, appends) => AllKnown(r, file', appends')
    BY <2>1 DEF AllKnown
  <2> QED
    BY <1>1, <2>2 DEF KnowsItsServer
<1>2. CASE UNCHANGED call
  BY <1>1, <1>2 DEF ServersInv
<1>3. CASE call[a[1]].at = "learning" /\ Accepted(a[1], call[a[1]])
  <2> DEFINE r == call[a[1]]
             q == [r EXCEPT !.at = "auth", !.next = 1, !.shook = TRUE]
  <2>1. call' = [call EXCEPT ![a[1]] = q]
    BY <1>3 DEF Accepted
  <2>2. q.at = "auth" /\ q.knew = r.knew /\ r.knew = {}
    BY <1>3, OfCall DEF HasCallFields, CallFields, ServersInv, KnowsItsServer
  <2> HIDE DEF q
  <2>3. KnowsItsServer(q, file', appends')
    BY <2>2 DEF KnowsItsServer
  <2> QED
    BY <1>1, <2>1, <2>3, Put DEF ServersInv
<1> QED
  BY <1>2, <1>3 DEF Learned

LEMMA AuthKnows ==
  ASSUME CallsInv, ServersInv, NEW c \in Calls, Rejected(c) \/ ConnectionLost(c)
  PROVE  ServersInv'
<1>0. UNCHANGED <<file, appends>> /\ HasCallFields(call[c])
  BY OfCall DEF Rejected, ConnectionLost
<1>1. CASE call[c].at # "auth"
  <2>1. ConnectionFails(c, call[c], FALSE, "")
    BY <1>1 DEF Rejected, ConnectionLost
  <2> QED
    BY <1>0, <2>1, FailsOrEnters
<1>2. CASE call[c].at = "auth"
  <2>1. PICK m \in Range(call[c].methods) :
          Tries(call[c]) = [call[c] EXCEPT !.tried = @ \cup {m}]
    BY <1>2, TriesOne
  <2> DEFINE r == [call[c] EXCEPT !.tried = @ \cup {m}]
             q == [r EXCEPT !.next = @ + 1]
  <2>2. /\ HasCallFields(r) /\ \A f \in CallFields \ {"tried"} : r[f] = call[c][f]
    BY <1>2, TriedKeeps
  <2> DEFINE s == [call[c] EXCEPT !.shook = FALSE]
  <2>3. \/ ConnectionFails(c, r, TRUE, "")
        \/ ConnectionFails(c, r, FALSE, "")
        \/ ConnectionFails(c, s, FALSE, "")
        \/ call' = [call EXCEPT ![c] = q]
    BY <1>2, <2>1 DEF Rejected, ConnectionLost
  <2>5. HasCallFields(s) /\ \A f \in CallFields \ {"shook"} : s[f] = call[c][f]
    BY <1>0 DEF HasCallFields, CallFields
  <2>4. CASE call' = [call EXCEPT ![c] = q]
    <3> HIDE DEF r
    <3>1. q.at = r.at /\ SameServer(q, r)
      BY <2>2 DEF HasCallFields, CallFields, SameServer
    <3>2. q.at = call[c].at /\ SameServer(q, call[c])
      BY <2>2, <3>1 DEF SameServer, CallFields
    <3>3. KnowsItsServer(q, file, appends)
      BY <3>2, StillKnows DEF ServersInv
    <3> QED
      BY <1>0, <2>4, <3>3, PutKnows
  <2> HIDE DEF r, q, s
  <2> QED
    BY <1>0, <2>2, <2>3, <2>4, <2>5, FailsOrEnters
<1> QED
  BY <1>1, <1>2

LEMMA BastionKnows ==
  ASSUME CallsInv, ServersInv, NEW c \in Calls, NEW i, BastionDies(c, i)
  PROVE  ServersInv'
<1> DEFINE r == call[c]
           q == [r EXCEPT !.up = {j \in @ : j < i}]
<1>1. call' = [call EXCEPT ![c] = q] /\ UNCHANGED <<file, appends>>
  BY DEF BastionDies
<1>2. q.at = r.at /\ SameServer(q, r)
  BY OfCall DEF HasCallFields, CallFields, SameServer
<1>3. KnowsItsServer(q, file, appends)
  BY <1>2, StillKnows DEF ServersInv
<1> QED
  BY <1>1, <1>3, PutKnows

\* The steps that are before the server's key is shown, or after sign-in.
LEMMA OthersKnow ==
  ASSUME CallsInv, ServersInv, NEW c \in Calls,
         \/ \E h \in Range(known) : Start(c, h)
         \/ Resolved(c) \/ TunnelOpens(c) \/ TunnelFails(c) \/ GatherMethods(c)
         \/ NothingToOffer(c) \/ SignedIn(c) \/ Disconnect(c)
  PROVE  ServersInv'
<1>0. UNCHANGED <<file, appends>> /\ HasCallFields(call[c])
  BY OfCall DEF Start, Resolved, TunnelOpens, TunnelFails, GatherMethods, NothingToOffer,
     SignedIn, Disconnect
<1>1. ASSUME NEW h \in Range(known), Start(c, h) PROVE ServersInv'
  <2> DEFINE chain == resolveChain(h, known)
             r == [Idle EXCEPT !.target = h, !.chain = chain.hops]
  <2>1. Enter(c, r, 1) \/ HopFails(c, r, "chain")
    BY <1>1 DEF Start
  <2>2. HasCallFields(r)
    BY DEF Idle, HasCallFields, CallFields
  <2> HIDE DEF r
  <2> QED
    BY <1>0, <2>1, <2>2, FailsOrEnters
<1>2. CASE \E why : HopFails(c, call[c], why)
  BY <1>0, <1>2, FailsOrEnters
<1>3. CASE SignedIn(c)
  <2> DEFINE r == [call[c] EXCEPT !.up = @ \cup {call[c].hop}]
             q == [r EXCEPT !.at = "open"]
  <2>1. Enter(c, r, r.hop + 1) \/ call' = [call EXCEPT ![c] = q]
    BY <1>3 DEF SignedIn
  <2>2. HasCallFields(r) /\ Elsewhere(q)
    BY <1>0 DEF HasCallFields, CallFields, Elsewhere
  <2> HIDE DEF r, q
  <2> QED
    BY <1>0, <2>1, <2>2, FailsOrEnters, ElsewhereKnows
<1>4. ASSUME NEW at \in {"methods", "tunnel"}, call' = [call EXCEPT ![c].at = at]
      PROVE  ServersInv'
  <2> DEFINE q == [call[c] EXCEPT !.at = at]
  <2>1. call' = [call EXCEPT ![c] = q] /\ Elsewhere(q)
    BY <1>0, <1>4 DEF HasCallFields, CallFields, Elsewhere
  <2> QED
    BY <1>0, <2>1, ElsewhereKnows
<1>5. CASE GatherMethods(c)
  <2>1. PICK methods : call' = [call EXCEPT ![c] =
                                  [call[c] EXCEPT !.at = "reach", !.methods = methods]]
    BY <1>5 DEF GatherMethods
  <2> DEFINE q == [call[c] EXCEPT !.at = "reach", !.methods = methods]
  <2>2. Elsewhere(q)
    BY <1>0 DEF HasCallFields, CallFields, Elsewhere
  <2> QED
    BY <1>0, <2>1, <2>2, ElsewhereKnows
<1>6. CASE Disconnect(c)
  <2> DEFINE q == [call[c] EXCEPT !.at = "closed", !.up = {}]
  <2>1. call' = [call EXCEPT ![c] = q] /\ Elsewhere(q)
    BY <1>0, <1>6 DEF Disconnect, HasCallFields, CallFields, Elsewhere
  <2> QED
    BY <1>0, <2>1, ElsewhereKnows
<1>7. CASE Resolved(c)
  BY <1>2, <1>4, <1>7 DEF Resolved
<1>8. CASE TunnelOpens(c) \/ TunnelFails(c) \/ NothingToOffer(c)
  BY <1>2, <1>4, <1>8 DEF TunnelOpens, TunnelFails, NothingToOffer
<1> QED
  BY <1>1, <1>3, <1>5, <1>6, <1>7, <1>8

LEMMA ServersStep ==
  ASSUME CallsInv, AppendsInv, ServersInv, DialNext
  PROVE  ServersInv'
<1>1. ASSUME NEW c \in Calls, Dials(c) PROVE ServersInv'
  BY <1>1, OthersKnow, ShowsKeyKnows, CheckKnows, AuthKnows, BastionKnows DEF Dials
<1>2. ASSUME NEW a \in appends, Learned(a) PROVE ServersInv'
  BY <1>2, LearnedKnows DEF AppendsInv
<1>3. ASSUME NEW e \in Ends, KeyChanges(e) PROVE ServersInv'
  BY <1>3 DEF KeyChanges, ServersInv
<1> QED
  BY <1>1, <1>2, <1>3 DEF DialNext

-----------------------------------------------------------------------------
(* What follows for connections being opened *)

\* The inductive invariant of the connections being opened, of what they know of the servers,
\* and of the lines being recorded.
THEOREM DialInvariance == PartsSpec => [](CallsInv /\ AppendsInv /\ ServersInv)
<1>1. PartsInit => CallsInv /\ AppendsInv /\ ServersInv
  <2>1. DialInit => AppendsInv
    BY DEF DialInit, AppendsInv
  <2>2. DialInit => ServersInv
    <3> SUFFICES ASSUME DialInit, NEW c \in Calls
                 PROVE  KnowsItsServer(call[c], file, appends)
      BY DEF ServersInv
    <3>1. call[c].at = "idle"
      BY DEF DialInit, Idle
    <3> QED
      BY <3>1 DEF KnowsItsServer
  <2> QED
    BY <2>1, <2>2, InitCalls DEF PartsInit
<1>2. CallsInv /\ AppendsInv /\ ServersInv /\ [PartsNext]_<<part, dialVars, vars, setupVars>>
        => CallsInv' /\ AppendsInv' /\ ServersInv'
  <2> SUFFICES ASSUME CallsInv, AppendsInv, ServersInv,
                      [PartsNext]_<<part, dialVars, vars, setupVars>>
               PROVE  CallsInv' /\ AppendsInv' /\ ServersInv'
    OBVIOUS
  <2>1. CASE DialNext
    BY <2>1, CallsStep, AppendsStep, ServersStep
  <2>2. CASE UNCHANGED dialVars
    BY <2>2 DEF dialVars, CallsInv, AppendsInv, ServersInv
  <2> QED
    BY <2>1, <2>2 DEF PartsNext
<1> QED
  BY <1>1, <1>2, PTL DEF PartsSpec

\* "Never silently connect past the bastion" (jump.ts:53-56): whatever the host list says, the
\* server dialled from this machine belongs to a host without a proxyJump, and each hop after
\* it is reached from the one its proxyJump, or the list it stands in, names before it.
THEOREM NobodyIsReachedPastABastion == PartsSpec => []NeverPastTheBastion
<1>1. CallsInv => NeverPastTheBastion
  <2> SUFFICES ASSUME CallsInv, NEW c \in Calls, call[c].at \in Busy \cup {"open"}
               PROVE  IF Direct(call[c]) THEN Host(call[c]).jump = <<>>
                      ELSE Leads(call[c].chain[call[c].hop - 1], Host(call[c]))
    BY DEF NeverPastTheBastion
  <2> DEFINE r == call[c]
  <2>1. LeadsTo(known, r.chain, r.target) /\ r.hop \in 1 .. Len(r.chain) + 1
    BY WayOfCall
  <2>2. Len(r.chain) \in Nat /\ (Len(r.chain) = 0 <=> r.chain = <<>>)
    BY <2>1, EmptySeq, LenProperties DEF LeadsTo
  <2> HIDE DEF r
  <2>3. CASE Direct(r)
    <3>1. r.hop = 1
      BY <2>3 DEF Direct
    <3>2. ASSUME r.chain = <<>> PROVE Host(r).jump = <<>>
      BY <2>1, <2>2, <3>1, <3>2 DEF Host, IsTarget, LeadsTo
    <3>3. ASSUME r.chain # <<>> PROVE Host(r).jump = <<>>
      BY <2>1, <2>2, <3>1, <3>3 DEF Host, IsTarget, LeadsTo
    <3>4. Host(r).jump = <<>>
      BY <3>2, <3>3
    <3> QED
      BY <2>3, <3>4 DEF r
  <2>4. CASE ~Direct(r)
    <3>1. r.hop - 1 \in 1 .. Len(r.chain) /\ r.hop \in 2 .. Len(r.chain) + 1
      BY <2>1, <2>2, <2>4 DEF Direct
    <3>2. LeadsIn(known, r.chain[r.hop - 1], Host(r))
      <4>1. CASE r.hop \in 2 .. Len(r.chain)
        BY <2>1, <2>2, <3>1, <4>1 DEF Host, IsTarget, LeadsTo
      <4>2. CASE r.hop = Len(r.chain) + 1
        <5>1. r.hop - 1 = Len(r.chain) /\ r.chain # <<>> /\ Host(r) = r.target
          BY <2>2, <3>1, <4>2 DEF Host, IsTarget
        <5> QED
          BY <2>1, <5>1 DEF LeadsTo
      <4> QED
        BY <2>2, <3>1, <4>1, <4>2
    <3>3. Leads(r.chain[r.hop - 1], Host(r))
      BY <3>2 DEF LeadsIn, Leads, Written
    <3> QED
      BY <2>4, <3>3 DEF r
  <2> QED
    BY <2>3, <2>4 DEF r
<1> QED
  BY <1>1, DialInvariance, PTL

\* A connection that could not be made, or was given back, leaves none of its bastions
\* connected (session.ts:400-413).
THEOREM FailedOnesHoldNothing == PartsSpec => []NothingStaysOpen
<1>1. CallsInv => NothingStaysOpen
  BY OfCall DEF NothingStaysOpen, HoldsNothing
<1> QED
  BY <1>1, DialInvariance, PTL

\* A server that hangs up early costs no method its turn (session.ts:494-497).
THEOREM EveryMethodIsOffered == PartsSpec => []EveryMethodHasItsTurn
<1>1. CallsInv => EveryMethodHasItsTurn
  BY OfCall DEF EveryMethodHasItsTurn, TakesTurns, FailsAfterAll
<1> QED
  BY <1>1, DialInvariance, PTL

\* A server that shows a key neither recorded nor being recorded, while others are, is offered
\* nothing (knownHosts.ts:15), however many connections learn keys at the same time.
THEOREM StrangersAreRefused == PartsSpec => []StrangersGetNothing
<1>1. ServersInv => StrangersGetNothing
  BY DEF ServersInv, KnowsItsServer, StrangersGetNothing
<1> QED
  BY <1>1, DialInvariance, PTL
=============================================================================
