------------------------ MODULE RemoteDesktopProofs ------------------------
(* What is proved of remote desktops: the tunnel of a launch in the system's *)
(* client (RdpLaunch), and the certificates trusted on first use (RdpTab).   *)
(* Both are stated of MCRemoteDesktops, which explores the ways side by side.*)
EXTENDS MCRemoteDesktops, TLAPS

\* A record with these fields and no others, whatever they hold.
HasFields(r, fields) == r = [f \in fields |-> r[f]]

-----------------------------------------------------------------------------
(* The tunnel of a launch *)

LaunchFields == {"at", "profile", "client", "runs", "credential", "dropped", "seen", "rm", "file"}
TunnelFields == {"state", "sockets", "idle"}

LaunchShape ==
  /\ launch = [l \in Launches |-> launch[l]]
  /\ \A l \in Launches : HasFields(launch[l], LaunchFields)

TunnelShape ==
  /\ tunnel = [l \in Launches |-> tunnel[l]]
  /\ \A l \in Launches : /\ HasFields(tunnel[l], TunnelFields)
                         /\ tunnel[l].sockets \in Nat /\ tunnel[l].idle \in BOOLEAN

\* A client runs only once its launch is over, so whatever closes the tunnel of a
\* launch that failed half way finds nobody connected ...
RunsWhenOver ==
  \A l \in Launches : launch[l].runs \in {"starting", "connected"} => launch[l].at = "over"

\* ... and a connection through the tunnel keeps the idle timer off.
UsedIsOpen ==
  \A l \in Launches :
    \/ tunnel[l].sockets = 0
    \/ launch[l].at = "over" /\ tunnel[l].state = "open" /\ tunnel[l].idle = FALSE

TunnelInv == LaunchShape /\ TunnelShape /\ RunsWhenOver /\ UsedIsOpen

LEMMA NewRecordsAreWhole ==
  /\ HasFields(NotLaunched, LaunchFields) /\ NotLaunched.at = "idle" /\ NotLaunched.runs = "no"
  /\ HasFields(NoTunnel, TunnelFields) /\ NoTunnel.sockets = 0 /\ NoTunnel.idle = FALSE
<1>1. /\ HasFields(NotLaunched, LaunchFields) /\ NotLaunched.at = "idle" /\ NotLaunched.runs = "no"
  <2> DEFINE p == CHOOSE p \in Profiles : TRUE
  <2>1. NotLaunched = [at |-> "idle", profile |-> p, client |-> "mstsc", runs |-> "no",
                       credential |-> "none", dropped |-> FALSE, seen |-> FALSE, rm |-> FALSE,
                       file |-> FALSE]
    BY DEF NotLaunched
  <2> HIDE DEF p
  <2>2. QED
    BY <2>1 DEF HasFields, LaunchFields
<1>2. /\ HasFields(NoTunnel, TunnelFields) /\ NoTunnel.sockets = 0 /\ NoTunnel.idle = FALSE
  BY DEF NoTunnel, HasFields, TunnelFields
<1>3. QED
  BY <1>1, <1>2

LEMMA TunnelInit == Init => TunnelInv
<1> SUFFICES ASSUME Init PROVE TunnelInv
  OBVIOUS
<1>1. /\ launch = [l \in Launches |-> NotLaunched] /\ tunnel = [l \in Launches |-> NoTunnel]
      /\ 0 \in Nat
  BY DEF Init
<1>2. \A l \in Launches : launch[l] = NotLaunched /\ tunnel[l] = NoTunnel
  BY <1>1
<1>3. LaunchShape /\ TunnelShape
  BY <1>1, <1>2, NewRecordsAreWhole DEF LaunchShape, TunnelShape
<1>4. RunsWhenOver /\ UsedIsOpen
  BY <1>2, NewRecordsAreWhole DEF RunsWhenOver, UsedIsOpen
<1>5. QED
  BY <1>3, <1>4 DEF TunnelInv

\* Closing a tunnel leaves nobody connected, and its record whole.
LEMMA ShutIsUnused ==
  ASSUME NEW t, HasFields(t, TunnelFields), t.sockets \in Nat, t.idle \in BOOLEAN,
         t.sockets = 0 \/ t.state = "open"
  PROVE  /\ HasFields(Shut(t), TunnelFields) /\ Shut(t).sockets = 0 /\ Shut(t).sockets \in Nat /\ Shut(t).idle \in BOOLEAN
         /\ Shut(t).state # t.state => Shut(t).state = "closed"
<1>1. CASE t.state \in {"ssh", "open"}
  BY <1>1 DEF Shut, HasFields, TunnelFields
<1>2. CASE t.state \notin {"ssh", "open"}
  <2>1. Shut(t) = t
    BY <1>2 DEF Shut
  <2>2. t.sockets = 0
    BY <1>2
  <2>3. QED
    BY <2>1, <2>2
<1>3. QED
  BY <1>1, <1>2

LEMMA HangupIsUnused ==
  ASSUME NEW t, HasFields(t, TunnelFields), t.idle \in BOOLEAN
  PROVE  /\ HasFields(Hangup(t), TunnelFields) /\ Hangup(t).sockets = 0
         /\ Hangup(t).sockets \in Nat /\ Hangup(t).idle \in BOOLEAN
<1>1. /\ HasFields(Hangup(t), TunnelFields) /\ Hangup(t).sockets = 0
      /\ Hangup(t).idle = (t.idle \/ t.sockets > 0)
  BY DEF Hangup, HasFields, TunnelFields
<1>2. QED
  BY <1>1

\* A launch that is over stays over.
OverStays == \A l \in Launches : launch[l].at = "over" => launch'[l].at = "over"

\* One launch changes: it stays a launch, and has a client only when it is over.
LEMMA OneLaunchChanges ==
  ASSUME LaunchShape, RunsWhenOver, NEW l \in Launches, NEW r, launch' = [launch EXCEPT ![l] = r],
         HasFields(r, LaunchFields), r.runs \in {"starting", "connected"} => r.at = "over",
         launch[l].at = "over" => r.at = "over"
  PROVE  LaunchShape' /\ RunsWhenOver' /\ OverStays
<1>1. /\ launch' = [k \in Launches |-> IF k = l THEN r ELSE launch[k]]
  BY DEF LaunchShape
<1>2. QED
  BY <1>1 DEF LaunchShape, RunsWhenOver, OverStays

LEMMA NoLaunchChanges ==
  ASSUME LaunchShape, RunsWhenOver, UNCHANGED launch
  PROVE  LaunchShape' /\ RunsWhenOver' /\ OverStays
  BY DEF LaunchShape, RunsWhenOver, OverStays

LEMMA LaunchGoesOn ==
  ASSUME LaunchShape, RunsWhenOver, NEW l \in Launches, launch[l].at # "over",
         NEW step, Goes(l, step)
  PROVE  LaunchShape' /\ RunsWhenOver' /\ OverStays
<1> DEFINE r == [launch[l] EXCEPT !.at = step]
<1>1. launch' = [launch EXCEPT ![l] = r]
  BY DEF Goes, LaunchShape
<1>2. HasFields(r, LaunchFields) /\ r.runs = launch[l].runs
  BY DEF LaunchShape, HasFields, LaunchFields
<1>3. r.runs \notin {"starting", "connected"}
  BY <1>2 DEF RunsWhenOver
<1> HIDE DEF r
<1>4. QED
  BY <1>1, <1>2, <1>3, OneLaunchChanges

\* dropCredential() touches neither the client nor how far the launch is.
LEMMA DropKeeps ==
  ASSUME NEW l \in Launches, NEW after, HasFields(after, LaunchFields), DropCredential(l, after),
         LaunchShape
  PROVE  \E r : /\ launch' = [launch EXCEPT ![l] = r] /\ HasFields(r, LaunchFields)
                /\ r.at = after.at /\ r.runs = after.runs
<1> DEFINE gone == [after EXCEPT !.dropped = TRUE, !.rm = (staged' = {})]
           refused == [after EXCEPT !.dropped = TRUE]
<1>1. /\ HasFields(gone, LaunchFields) /\ gone.at = after.at /\ gone.runs = after.runs
      /\ HasFields(refused, LaunchFields) /\ refused.at = after.at /\ refused.runs = after.runs
  BY DEF HasFields, LaunchFields
<1>2. \/ launch' = [launch EXCEPT ![l] = gone]
      \/ launch' = [launch EXCEPT ![l] = refused]
      \/ launch' = [launch EXCEPT ![l] = after]
  BY DEF DropCredential, Removes, RemoveRefused
<1> HIDE DEF gone, refused
<1>3. QED
  BY <1>1, <1>2

LEMMA LaunchEnds ==
  ASSUME LaunchShape, RunsWhenOver, Ends
  PROVE  LaunchShape' /\ RunsWhenOver' /\ OverStays
<1> DEFINE over(l) == [launch[l] EXCEPT !.at = "over", !.runs = "gone", !.dropped = TRUE, !.rm = FALSE]
<1>1. \A l \in Launches : /\ HasFields(over(l), LaunchFields)
                          /\ over(l).at = "over" /\ over(l).runs = "gone"
  BY DEF LaunchShape, HasFields, LaunchFields
<1>2. launch' = [l \in Launches |-> IF launch[l].at = "idle" THEN launch[l] ELSE over(l)]
  BY DEF Ends
<1> HIDE DEF over
<1>3. \A l \in Launches : launch'[l] = launch[l] \/ launch'[l] = over(l)
  BY <1>2
<1>4. QED
  BY <1>1, <1>2, <1>3 DEF LaunchShape, RunsWhenOver, OverStays

\* Every step keeps launches whole, and none takes back that a launch is over.
LEMMA LaunchesStep ==
  ASSUME LaunchShape, RunsWhenOver, Next
  PROVE  LaunchShape' /\ RunsWhenOver' /\ OverStays
<1> DEFINE Kept == LaunchShape' /\ RunsWhenOver' /\ OverStays
<1>1. ASSUME NEW l \in Launches, Open(l) PROVE Kept
  <2>1. ASSUME NEW p, NEW c, Launch(l, p, c) PROVE Kept
    <3> DEFINE r == [NotLaunched EXCEPT !.profile = p, !.client = c,
                        !.at = IF p \in Tunnelled THEN "tunnel" ELSE "launch"]
    <3>1. HasFields(r, LaunchFields) /\ r.runs = "no"
      BY NewRecordsAreWhole DEF HasFields, LaunchFields
    <3>2. launch' = [launch EXCEPT ![l] = r] /\ launch[l].at = "idle"
      BY <2>1 DEF Launch, At
    <3> HIDE DEF r
    <3>3. QED
      BY <3>1, <3>2, OneLaunchChanges
  <2>2. CASE TunnelConnected(l) \/ TunnelFailed(l) \/ TargetChecked(l) \/ Listening(l)
             \/ OpenTunnelFailed(l) \/ StartLaunch(l) \/ PastLeftovers(l) \/ WriteMarker(l)
             \/ Unmark(l) \/ StageFailed(l)
    <3>1. launch[l].at # "over" /\ \E step : Goes(l, step)
      BY <2>2 DEF TunnelConnected, TunnelFailed, TargetChecked, Listening, OpenTunnelFailed,
                  StartLaunch, PastLeftovers, WriteMarker, Unmark, StageFailed, At
    <3>2. QED
      BY <3>1, LaunchGoesOn
  <2>3. CASE CleanUp(l) \/ CleanUpRefused(l)
    BY <2>3, NoLaunchChanges DEF CleanUp, CleanUpRefused
  <2>4. CASE Stage(l) \/ KeepExisting(l) \/ WriteRdpFile(l)
    <3>1. CASE Stage(l)
      <4> DEFINE r == [launch[l] EXCEPT !.at = "file", !.credential = "ours"]
      <4>1. launch' = [launch EXCEPT ![l] = r] /\ launch[l].at # "over"
        BY <3>1 DEF Stage, At, LaunchShape
      <4>2. HasFields(r, LaunchFields) /\ r.runs = launch[l].runs
        BY DEF LaunchShape, HasFields, LaunchFields
      <4>3. r.runs \notin {"starting", "connected"}
        BY <4>1, <4>2 DEF RunsWhenOver
      <4> HIDE DEF r
      <4>4. QED
        BY <4>1, <4>2, <4>3, OneLaunchChanges
    <3>2. CASE KeepExisting(l)
      <4> DEFINE r == [launch[l] EXCEPT !.credential = "kept-existing",
                             !.at = IF staged = {} THEN "unmark" ELSE "file"]
      <4>1. launch' = [launch EXCEPT ![l] = r] /\ launch[l].at # "over"
        BY <3>2 DEF KeepExisting, At, LaunchShape
      <4>2. HasFields(r, LaunchFields) /\ r.runs = launch[l].runs
        BY DEF LaunchShape, HasFields, LaunchFields
      <4>3. r.runs \notin {"starting", "connected"}
        BY <4>1, <4>2 DEF RunsWhenOver
      <4> HIDE DEF r
      <4>4. QED
        BY <4>1, <4>2, <4>3, OneLaunchChanges
    <3>3. CASE WriteRdpFile(l)
      <4> DEFINE r == [launch[l] EXCEPT 
             !.file = ~Windows(l) \/ launch[l].profile \in WithRedirects
                      \/ NeedsRdpFile(launch[l].profile),
             !.at = IF Windows(l) THEN "spawn" ELSE "open"]
      <4>1. launch' = [launch EXCEPT ![l] = r] /\ launch[l].at # "over"
        BY <3>3 DEF WriteRdpFile, At, LaunchShape
      <4>2. HasFields(r, LaunchFields) /\ r.runs = launch[l].runs
        BY DEF LaunchShape, HasFields, LaunchFields
      <4>3. r.runs \notin {"starting", "connected"}
        BY <4>1, <4>2 DEF RunsWhenOver
      <4> HIDE DEF r
      <4>4. QED
        BY <4>1, <4>2, <4>3, OneLaunchChanges
    <3>4. QED
      BY <2>4, <3>1, <3>2, <3>3
  <2>5. CASE Spawned(l) \/ Opened(l)
    <3> DEFINE r == [launch[l] EXCEPT !.runs = "starting", !.at = "over"]
    <3>1. launch' = [launch EXCEPT ![l] = r]
      BY <2>5 DEF Spawned, Opened, LaunchShape
    <3>2. HasFields(r, LaunchFields) /\ r.at = "over"
      BY DEF LaunchShape, HasFields, LaunchFields
    <3> HIDE DEF r
    <3>3. QED
      BY <3>1, <3>2, OneLaunchChanges
  <2>6. CASE LaunchFailed(l)
    <3> DEFINE after == [launch[l] EXCEPT !.at = "over", !.file = ~Windows(l) /\ @]
    <3>1. HasFields(after, LaunchFields) /\ after.at = "over"
      BY DEF LaunchShape, HasFields, LaunchFields
    <3>2. DropCredential(l, after)
      BY <2>6 DEF LaunchFailed
    <3> HIDE DEF after
    <3>3. PICK r : launch' = [launch EXCEPT ![l] = r] /\ HasFields(r, LaunchFields) /\ r.at = after.at
      BY <3>1, <3>2, DropKeeps
    <3>4. QED
      BY <3>1, <3>3, OneLaunchChanges
  <2>7. QED
    BY <1>1, <2>1, <2>2, <2>3, <2>4, <2>5, <2>6 DEF Open
<1>2. ASSUME NEW l \in Launches, Connects(l) \/ SeenConnected(l) \/ MarkerRemoved(l) PROVE Kept
  <2>1. CASE Connects(l)
    <3> DEFINE r == [launch[l] EXCEPT !.runs = "connected"]
    <3>1. launch' = [launch EXCEPT ![l] = r] /\ launch[l].at = "over"
      BY <2>1 DEF Connects, LaunchShape, RunsWhenOver
    <3>2. HasFields(r, LaunchFields) /\ r.at = launch[l].at
      BY DEF LaunchShape, HasFields, LaunchFields
    <3> HIDE DEF r
    <3>3. QED
      BY <3>1, <3>2, OneLaunchChanges
  <2>2. CASE SeenConnected(l)
    <3> DEFINE r == [launch[l] EXCEPT !.seen = TRUE]
    <3>1. launch' = [launch EXCEPT ![l] = r]
      BY <2>2 DEF SeenConnected, LaunchShape
    <3>2. HasFields(r, LaunchFields) /\ r.at = launch[l].at /\ r.runs = launch[l].runs
      BY DEF LaunchShape, HasFields, LaunchFields
    <3>3. r.runs \in {"starting", "connected"} => r.at = "over"
      BY <3>2 DEF RunsWhenOver
    <3> HIDE DEF r
    <3>4. QED
      BY <3>1, <3>2, <3>3, OneLaunchChanges
  <2>3. CASE MarkerRemoved(l)
    <3> DEFINE r == [launch[l] EXCEPT !.rm = FALSE]
    <3>1. launch' = [launch EXCEPT ![l] = r]
      BY <2>3 DEF MarkerRemoved, LaunchShape
    <3>2. HasFields(r, LaunchFields) /\ r.at = launch[l].at /\ r.runs = launch[l].runs
      BY DEF LaunchShape, HasFields, LaunchFields
    <3>3. r.runs \in {"starting", "connected"} => r.at = "over"
      BY <3>2 DEF RunsWhenOver
    <3> HIDE DEF r
    <3>4. QED
      BY <3>1, <3>2, <3>3, OneLaunchChanges
  <2>4. QED
    BY <1>2, <2>1, <2>2, <2>3
<1>3. ASSUME NEW l \in Launches, AfterConnect(l) \/ HoldTimer(l) PROVE Kept
  <2>1. DropCredential(l, launch[l]) /\ HasFields(launch[l], LaunchFields)
    BY <1>3 DEF AfterConnect, HoldTimer, LaunchShape
  <2>2. PICK r : /\ launch' = [launch EXCEPT ![l] = r] /\ HasFields(r, LaunchFields)
                 /\ r.at = launch[l].at /\ r.runs = launch[l].runs
    BY <2>1, DropKeeps
  <2>3. r.runs \in {"starting", "connected"} => r.at = "over"
    BY <2>2 DEF RunsWhenOver
  <2>4. QED
    BY <2>2, <2>3, OneLaunchChanges
<1>4. ASSUME NEW l \in Launches, Exits(l) PROVE Kept
  <2> DEFINE after == [launch[l] EXCEPT !.runs = "gone", !.file = ~Windows(l) /\ @]
  <2>1. HasFields(after, LaunchFields) /\ after.at = launch[l].at /\ after.runs = "gone"
    BY DEF LaunchShape, HasFields, LaunchFields
  <2>2. DropCredential(l, after)
    BY <1>4 DEF Exits
  <2> HIDE DEF after
  <2>3. PICK r : /\ launch' = [launch EXCEPT ![l] = r] /\ HasFields(r, LaunchFields)
                 /\ r.at = after.at /\ r.runs = after.runs
    BY <2>1, <2>2, DropKeeps
  <2>4. QED
    BY <2>1, <2>3, OneLaunchChanges
<1>5. ASSUME NEW l \in Launches, SocketOpens(l) \/ SocketCloses(l) \/ IdleTimer(l)
                                  \/ ListenerFails(l)
      PROVE  Kept
  BY <1>5, NoLaunchChanges DEF SocketOpens, SocketCloses, IdleTimer, ListenerFails
<1>6. CASE CleanedUp \/ Start
  BY <1>6, NoLaunchChanges DEF CleanedUp, Start
<1>7. CASE Crash \/ Quit \/ QuitRefused
  BY <1>7, LaunchEnds DEF Crash, Quit, QuitRefused
<1>8. QED
  BY <1>1, <1>2, <1>3, <1>4, <1>5, <1>6, <1>7 DEF Next

-----------------------------------------------------------------------------
(* ... and the tunnel with it *)

\* One tunnel changes: it stays a tunnel, and one with a connection stays open.
LEMMA OneTunnelChanges ==
  ASSUME TunnelShape, UsedIsOpen, OverStays, NEW l \in Launches, NEW t,
         tunnel' = [tunnel EXCEPT ![l] = t],
         HasFields(t, TunnelFields), t.sockets \in Nat, t.idle \in BOOLEAN,
         \/ t.sockets = 0
         \/ launch'[l].at = "over" /\ t.state = "open" /\ t.idle = FALSE
  PROVE  TunnelShape' /\ UsedIsOpen'
<1>1. tunnel' = [k \in Launches |-> IF k = l THEN t ELSE tunnel[k]]
  BY DEF TunnelShape
<1>2. QED
  BY <1>1 DEF TunnelShape, UsedIsOpen, OverStays

LEMMA NoTunnelChanges ==
  ASSUME TunnelShape, UsedIsOpen, OverStays, UNCHANGED tunnel
  PROVE  TunnelShape' /\ UsedIsOpen'
  BY DEF TunnelShape, UsedIsOpen, OverStays

LEMMA TunnelCloses ==
  ASSUME TunnelShape, UsedIsOpen, OverStays, NEW l \in Launches, CloseTunnel(l)
  PROVE  TunnelShape' /\ UsedIsOpen'
<1>1. tunnel' = [tunnel EXCEPT ![l] = Shut(tunnel[l])]
  BY DEF CloseTunnel, TunnelShape
<1>2. /\ HasFields(Shut(tunnel[l]), TunnelFields) /\ Shut(tunnel[l]).sockets = 0
      /\ Shut(tunnel[l]).sockets \in Nat
      /\ Shut(tunnel[l]).idle \in BOOLEAN
  BY ShutIsUnused DEF TunnelShape, UsedIsOpen
<1>3. QED
  BY <1>1, <1>2, OneTunnelChanges

LEMMA TunnelsEnd ==
  ASSUME TunnelShape, UsedIsOpen, Ends
  PROVE  TunnelShape' /\ UsedIsOpen'
<1>1. tunnel' = [l \in Launches |-> Shut(tunnel[l])]
  BY DEF Ends
<1>2. \A l \in Launches : /\ HasFields(Shut(tunnel[l]), TunnelFields) /\ Shut(tunnel[l]).sockets = 0
      /\ Shut(tunnel[l]).sockets \in Nat
                          /\ Shut(tunnel[l]).idle \in BOOLEAN
  BY ShutIsUnused DEF TunnelShape, UsedIsOpen
<1>3. QED
  BY <1>1, <1>2 DEF TunnelShape, UsedIsOpen

\* A step closes a tunnel that is in use only with its client, with the process or because
\* its listening server failed.
ClosesUnused ==
  \A l \in Launches :
    tunnel[l].sockets > 0 /\ tunnel'[l].state # "open"
      => launch'[l].runs = "gone" \/ ~alive' \/ tunnel'[l].state = "failed"

LEMMA NoTunnelCloses ==
  ASSUME UsedIsOpen, UNCHANGED tunnel
  PROVE  ClosesUnused
  BY DEF UsedIsOpen, ClosesUnused

\* Closing the tunnel of a launch that is not over closes one nobody uses.
LEMMA UnusedCloses ==
  ASSUME TunnelShape, UsedIsOpen, NEW l \in Launches, tunnel[l].sockets = 0,
         NEW t, tunnel' = [tunnel EXCEPT ![l] = t]
  PROVE  ClosesUnused
<1>1. \A k \in Launches : k # l => tunnel'[k] = tunnel[k]
  BY DEF TunnelShape
<1>2. QED
  BY <1>1 DEF UsedIsOpen, ClosesUnused

\* Every step keeps tunnels whole and the ones in use open.
LEMMA TunnelsStep ==
  ASSUME TunnelInv, Next
  PROVE  TunnelInv' /\ ClosesUnused
<1> DEFINE Kept == TunnelShape' /\ UsedIsOpen' /\ ClosesUnused
<1>1. LaunchShape' /\ RunsWhenOver' /\ OverStays /\ TunnelShape /\ UsedIsOpen
  BY LaunchesStep DEF TunnelInv
<1>2. ASSUME UNCHANGED tunnel PROVE Kept
  BY <1>1, <1>2, NoTunnelChanges, NoTunnelCloses
<1>3. ASSUME NEW l \in Launches, launch[l].at # "over", NEW t, tunnel' = [tunnel EXCEPT ![l] = t],
             HasFields(t, TunnelFields), t.sockets = 0, t.idle \in BOOLEAN
      PROVE  Kept
  <2>1. tunnel[l].sockets = 0 /\ 0 \in Nat
    BY <1>1, <1>3 DEF UsedIsOpen, TunnelShape
  <2>2. TunnelShape' /\ UsedIsOpen'
    BY <1>1, <1>3, <2>1, OneTunnelChanges, Zenon
  <2>3. QED
    BY <1>1, <1>3, <2>1, <2>2, UnusedCloses
<1>4. ASSUME NEW l \in Launches, launch[l].at # "over", CloseTunnel(l) PROVE Kept
  <2>1. tunnel' = [tunnel EXCEPT ![l] = Shut(tunnel[l])]
    BY <1>1, <1>4 DEF CloseTunnel, TunnelShape
  <2>2. /\ HasFields(Shut(tunnel[l]), TunnelFields) /\ Shut(tunnel[l]).sockets = 0
      /\ Shut(tunnel[l]).sockets \in Nat
        /\ Shut(tunnel[l]).idle \in BOOLEAN
    BY <1>1, ShutIsUnused DEF TunnelShape, UsedIsOpen
  <2>3. QED
    BY <1>3, <1>4, <2>1, <2>2
<1>5. ASSUME NEW l \in Launches, Open(l) PROVE Kept
  <2>1. CASE TunnelConnected(l) \/ Listening(l)
    <3>1. launch[l].at # "over" /\ tunnel[l].sockets = 0 /\ HasFields(tunnel[l], TunnelFields)
      BY <1>1, <2>1 DEF TunnelConnected, Listening, At, UsedIsOpen, TunnelShape
    <3>2. CASE TunnelConnected(l)
      <4> DEFINE t == [tunnel[l] EXCEPT !.state = "ssh"]
      <4>1. tunnel' = [tunnel EXCEPT ![l] = t]
        BY <1>1, <3>2 DEF TunnelConnected, TunnelShape
      <4>2. HasFields(t, TunnelFields) /\ t.sockets = 0 /\ t.idle \in BOOLEAN
        BY <1>1, <3>1 DEF HasFields, TunnelFields, TunnelShape
      <4> HIDE DEF t
      <4>3. QED
        BY <1>3, <3>1, <4>1, <4>2
    <3>3. CASE Listening(l)
      <4> DEFINE t == [tunnel[l] EXCEPT !.state = "open", !.idle = TRUE]
      <4>1. tunnel' = [tunnel EXCEPT ![l] = t]
        BY <1>1, <3>3 DEF Listening, TunnelShape
      <4>2. HasFields(t, TunnelFields) /\ t.sockets = 0 /\ t.idle \in BOOLEAN
        BY <1>1, <3>1 DEF HasFields, TunnelFields, TunnelShape
      <4> HIDE DEF t
      <4>3. QED
        BY <1>3, <3>1, <4>1, <4>2
    <3>4. QED
      BY <2>1, <3>2, <3>3
  <2>2. CASE OpenTunnelFailed(l) \/ StageFailed(l) \/ LaunchFailed(l)
    <3>1. launch[l].at # "over" /\ CloseTunnel(l)
      BY <2>2 DEF OpenTunnelFailed, StageFailed, LaunchFailed, At
    <3>2. QED
      BY <1>4, <3>1
  <2>3. CASE \/ \E p \in Profiles, c \in Clients : Launch(l, p, c)
             \/ TunnelFailed(l) \/ TargetChecked(l) \/ StartLaunch(l) \/ CleanUp(l)
             \/ CleanUpRefused(l) \/ PastLeftovers(l) \/ WriteMarker(l) \/ Stage(l)
             \/ KeepExisting(l) \/ Unmark(l) \/ WriteRdpFile(l) \/ Spawned(l) \/ Opened(l)
    BY <1>2, <2>3 DEF Launch, TunnelFailed, TargetChecked, StartLaunch, CleanUp, CleanUpRefused,
         PastLeftovers, WriteMarker, Stage, KeepExisting, Unmark, WriteRdpFile, Spawned, Opened
  <2>4. QED
    BY <1>5, <2>1, <2>2, <2>3 DEF Open
<1>6. ASSUME NEW l \in Launches, Connects(l) PROVE Kept
  <2>1. /\ HasFields(tunnel[l], TunnelFields) /\ tunnel[l].sockets \in Nat
        /\ tunnel[l].idle \in BOOLEAN
    BY <1>1 DEF TunnelShape
  <2>2. CASE tunnel[l].state = "open"
    <3> DEFINE t == [tunnel[l] EXCEPT !.sockets = 1, !.idle = FALSE]
    <3>1. tunnel' = [tunnel EXCEPT ![l] = t]
      BY <1>1, <1>6, <2>2 DEF Connects, TunnelShape
    <3>2. HasFields(t, TunnelFields) /\ t.sockets = 1 /\ 1 \in Nat /\ t.idle = FALSE /\ t.state = "open"
      BY <2>1, <2>2 DEF HasFields, TunnelFields
    <3>3. launch'[l].at = "over"
      BY <1>1, <1>6 DEF Connects, RunsWhenOver, OverStays, TunnelInv
    <3>4. tunnel'[l].state = "open" /\ \A k \in Launches : k # l => tunnel'[k] = tunnel[k]
      BY <1>1, <3>1, <3>2 DEF TunnelShape
    <3> HIDE DEF t
    <3>5. TunnelShape' /\ UsedIsOpen'
      BY <1>1, <3>1, <3>2, <3>3, OneTunnelChanges
    <3>6. QED
      BY <1>1, <3>4, <3>5 DEF UsedIsOpen, ClosesUnused
  <2>3. CASE tunnel[l].state # "open"
    <3>1. UNCHANGED tunnel
      BY <1>1, <1>6, <2>3 DEF Connects, TunnelShape
    <3>2. QED
      BY <1>2, <3>1
  <2>4. QED
    BY <2>2, <2>3
<1>7. ASSUME NEW l \in Launches, SocketOpens(l) PROVE Kept
  <2> DEFINE t == [tunnel[l] EXCEPT !.sockets = @ + 1, !.idle = FALSE]
  <2>1. tunnel' = [tunnel EXCEPT ![l] = t]
    BY <1>1, <1>7 DEF SocketOpens, TunnelShape
  <2>2. /\ HasFields(t, TunnelFields) /\ t.sockets \in Nat /\ t.idle = FALSE /\ t.state = "open"
    <3>1. tunnel[l].sockets \in Nat /\ HasFields(tunnel[l], TunnelFields) /\ tunnel[l].state = "open"
      BY <1>1, <1>7 DEF SocketOpens, TunnelShape
    <3>2. /\ HasFields(t, TunnelFields) /\ t.sockets = tunnel[l].sockets + 1
          /\ t.idle = FALSE /\ t.state = tunnel[l].state
      BY <3>1 DEF HasFields, TunnelFields
    <3> HIDE DEF t
    <3>3. t.sockets \in Nat
      BY <3>1, <3>2
    <3>4. QED
      BY <3>1, <3>2, <3>3
  <2>3. launch'[l].at = "over"
    BY <1>1, <1>7 DEF SocketOpens, RunsWhenOver, OverStays, TunnelInv
  <2>4. tunnel'[l].state = "open" /\ \A k \in Launches : k # l => tunnel'[k] = tunnel[k]
    BY <1>1, <2>1, <2>2 DEF TunnelShape
  <2> HIDE DEF t
  <2>5. TunnelShape' /\ UsedIsOpen'
    BY <1>1, <2>1, <2>2, <2>3, OneTunnelChanges
  <2>6. QED
    BY <1>1, <2>4, <2>5 DEF UsedIsOpen, ClosesUnused
<1>8. ASSUME NEW l \in Launches, SocketCloses(l) PROVE Kept
  <2> DEFINE t == [tunnel[l] EXCEPT !.sockets = @ - 1, !.idle = (tunnel[l].sockets = 1)]
  <2>1. tunnel' = [tunnel EXCEPT ![l] = t]
    BY <1>1, <1>8 DEF SocketCloses, TunnelShape
  <2>2. tunnel[l].sockets \in Nat /\ tunnel[l].sockets > 0 /\ HasFields(tunnel[l], TunnelFields)
    BY <1>1, <1>8 DEF SocketCloses, TunnelShape
  <2>3. HasFields(t, TunnelFields) /\ t.sockets = tunnel[l].sockets - 1
        /\ t.idle = (tunnel[l].sockets = 1) /\ t.state = tunnel[l].state
    BY <2>2 DEF HasFields, TunnelFields
  <2>4. launch'[l].at = "over" /\ tunnel[l].state = "open"
    BY <1>1, <2>2 DEF UsedIsOpen, OverStays
  <2> HIDE DEF t
  <2>5. t.sockets \in Nat /\ t.idle \in BOOLEAN /\ (t.sockets = 0 \/ t.idle = FALSE)
    <3>1. t.sockets \in Nat /\ (t.sockets # 0 => tunnel[l].sockets # 1)
      BY <2>2, <2>3
    <3>2. QED
      BY <2>3, <3>1
  <2>6. tunnel'[l].state = "open" /\ \A k \in Launches : k # l => tunnel'[k] = tunnel[k]
    BY <1>1, <2>1, <2>3, <2>4 DEF TunnelShape
  <2>7. TunnelShape' /\ UsedIsOpen'
    BY <1>1, <2>1, <2>3, <2>4, <2>5, OneTunnelChanges
  <2>8. QED
    BY <1>1, <2>6, <2>7 DEF UsedIsOpen, ClosesUnused
<1>9. ASSUME NEW l \in Launches, IdleTimer(l) PROVE Kept
  <2>1. tunnel[l].sockets = 0
    BY <1>1, <1>9 DEF IdleTimer, UsedIsOpen, TunnelShape
  <2>2. tunnel' = [tunnel EXCEPT ![l] = Shut(tunnel[l])]
    BY <1>1, <1>9 DEF IdleTimer, CloseTunnel, TunnelShape
  <2>3. CloseTunnel(l)
    BY <1>9 DEF IdleTimer
  <2>4. QED
    BY <1>1, <2>1, <2>2, <2>3, TunnelCloses, UnusedCloses
<1>9a. ASSUME NEW l \in Launches, ListenerFails(l) PROVE Kept
  <2> DEFINE t == [Shut(tunnel[l]) EXCEPT !.state = "failed"]
  <2>1. tunnel' = [tunnel EXCEPT ![l] = t]
    BY <1>1, <1>9a DEF ListenerFails, TunnelShape
  <2>2. /\ HasFields(t, TunnelFields) /\ t.sockets = 0 /\ t.sockets \in Nat
        /\ t.idle \in BOOLEAN /\ t.state = "failed"
    <3>1. /\ HasFields(Shut(tunnel[l]), TunnelFields) /\ Shut(tunnel[l]).sockets = 0
          /\ Shut(tunnel[l]).sockets \in Nat /\ Shut(tunnel[l]).idle \in BOOLEAN
      BY <1>1, ShutIsUnused DEF TunnelShape, UsedIsOpen
    <3>2. QED
      BY <3>1 DEF HasFields, TunnelFields
  <2> HIDE DEF t
  <2>3. TunnelShape' /\ UsedIsOpen'
    BY <1>1, <2>1, <2>2, OneTunnelChanges
  <2>4. tunnel'[l].state = "failed" /\ \A k \in Launches : k # l => tunnel'[k] = tunnel[k]
    BY <1>1, <2>1, <2>2 DEF TunnelShape
  <2>5. QED
    BY <1>1, <2>3, <2>4 DEF UsedIsOpen, ClosesUnused
<1>10. ASSUME NEW l \in Launches, Exits(l) PROVE Kept
  <2>1. launch'[l].runs = "gone"
    <3> DEFINE after == [launch[l] EXCEPT !.runs = "gone", !.file = ~Windows(l) /\ @]
    <3>1. HasFields(after, LaunchFields) /\ after.runs = "gone"
      BY DEF TunnelInv, LaunchShape, HasFields, LaunchFields
    <3>2. DropCredential(l, after)
      BY <1>10 DEF Exits
    <3> HIDE DEF after
    <3>3. PICK r : launch' = [launch EXCEPT ![l] = r] /\ r.runs = after.runs
      BY <3>1, <3>2, DropKeeps DEF TunnelInv
    <3>4. QED
      BY <3>1, <3>3 DEF TunnelInv, LaunchShape
  <2>2. PICK t : /\ tunnel' = [tunnel EXCEPT ![l] = t] /\ HasFields(t, TunnelFields)
                 /\ t.sockets = 0 /\ 0 \in Nat /\ t.idle \in BOOLEAN
    <3>1. CASE launch[l].client # "file"
      <4>1. tunnel' = [tunnel EXCEPT ![l] = Shut(tunnel[l])]
        BY <1>1, <1>10, <3>1 DEF Exits, TunnelShape
      <4>2. QED
        BY <1>1, <4>1, ShutIsUnused DEF TunnelShape, UsedIsOpen
    <3>2. CASE launch[l].client = "file"
      <4>1. tunnel' = [tunnel EXCEPT ![l] = Hangup(tunnel[l])]
        BY <1>1, <1>10, <3>2 DEF Exits, TunnelShape
      <4>2. QED
        BY <1>1, <4>1, HangupIsUnused DEF TunnelShape
    <3>3. QED
      BY <3>1, <3>2
  <2>3. TunnelShape' /\ UsedIsOpen'
    BY <1>1, <2>2, OneTunnelChanges
  <2>4. \A k \in Launches : k # l => tunnel'[k] = tunnel[k]
    BY <1>1, <2>2 DEF TunnelShape
  <2>5. QED
    BY <1>1, <2>1, <2>3, <2>4 DEF UsedIsOpen, ClosesUnused
<1>11. ASSUME NEW l \in Launches,
              SeenConnected(l) \/ AfterConnect(l) \/ HoldTimer(l) \/ MarkerRemoved(l)
       PROVE  Kept
  BY <1>2, <1>11 DEF SeenConnected, AfterConnect, HoldTimer, MarkerRemoved
<1>12. ASSUME CleanedUp \/ Start PROVE Kept
  BY <1>2, <1>12 DEF CleanedUp, Start
<1>13. ASSUME Crash \/ Quit \/ QuitRefused PROVE Kept
  <2>1. Ends
    BY <1>13 DEF Crash, Quit, QuitRefused
  <2>2. ClosesUnused
    BY <2>1 DEF Ends, ClosesUnused
  <2>3. QED
    BY <1>1, <2>1, <2>2, TunnelsEnd
<1> HIDE DEF Kept
<1>14. Kept
  BY <1>5, <1>6, <1>7, <1>8, <1>9, <1>10, <1>11, <1>12, <1>13, <1>9a DEF Next
<1>15. QED
  BY <1>1, <1>14 DEF TunnelInv, Kept
\* Of launches on their own: no timer and no failed launch closes a tunnel under a client's
\* connection; only an error of the tunnel's own listening server does (core/rdp/tunnel.ts,
\* ipc/rdp.ts).
THEOREM TunnelIsKept == Spec => []TunnelInv /\ TunnelOutlivesItsUse
<1>1. TunnelInv /\ [Next]_vars => TunnelInv' /\ ClosesUnused
  <2>1. TunnelInv /\ UNCHANGED vars => TunnelInv' /\ ClosesUnused
    BY NoTunnelCloses DEF vars, creds, process, TunnelInv, LaunchShape, TunnelShape, RunsWhenOver,
                          UsedIsOpen
  <2>2. QED
    BY <2>1, TunnelsStep
<1>2. ClosesUnused =>
        \A l \in Launches :
          tunnel[l].sockets > 0 /\ tunnel'[l].state # "open"
            => launch'[l].runs = "gone" \/ ~alive' \/ tunnel'[l].state = "failed"
  BY DEF ClosesUnused
<1>3. QED
  BY TunnelInit, <1>1, <1>2, PTL DEF Spec, TunnelOutlivesItsUse

-----------------------------------------------------------------------------
(* The certificates trusted on first use *)

\* What is known, or a reading of it: a function of the targets.
OfTargets(f) == f = [g \in Targets |-> f[g]]

\* The first check goes by what is known still, unless it misread that or a forget wrote since.
ChecksByTheFile ==
  /\ OfTargets(known)
  /\ checking # None => OfTargets(checking) /\ (~misread => checking = known)

\* A forget that has the file open has read a list.
ForgetsAreWhole ==
  /\ forgets = [t \in Tabs |-> forgets[t]] /\ writing = [t \in Tabs |-> writing[t]]
  /\ \A t \in Tabs : forgets[t] # None \/ writing[t] # "no" => OfTargets(forgets[t])

CertsInv == ChecksByTheFile /\ ForgetsAreWhole

\* No step but a forget takes from what is known, unless one did since the check read, or that
\* misread it.
KeepsCerts ==
  \A g \in Targets :
    known[g] # None /\ known'[g] # known[g] => misread \/ \E t \in Tabs : InTab!Forget(t)

LEMMA CertsInit == InTab!Init => CertsInv
  BY DEF InTab!Init, CertsInv, ChecksByTheFile, ForgetsAreWhole, OfTargets

LEMMA NothingIsAList == OfTargets(InTab!Nothing)
  BY DEF InTab!Nothing, OfTargets

\* A forget that is done has neither a list nor the file.
LEMMA ForgetsEnd ==
  ASSUME ForgetsAreWhole, NEW t \in Tabs, InTab!ForgetEnds(t)
  PROVE  ForgetsAreWhole' /\ UNCHANGED checking
<1>1. /\ forgets' = [u \in Tabs |-> IF u = t THEN None ELSE forgets[u]]
      /\ writing' = [u \in Tabs |-> IF u = t THEN "no" ELSE writing[u]]
      /\ UNCHANGED checking
  BY DEF InTab!ForgetEnds, ForgetsAreWhole
<1>2. QED
  BY <1>1 DEF ForgetsAreWhole, OfTargets

\* The list is emptied, written or left as it is: afterwards a check that has read goes by it
\* or has misread.
LEMMA ForgetKeeps ==
  ASSUME CertsInv, NEW t \in Tabs, InTab!Forget(t)
  PROVE  CertsInv'
<1>1. CASE InTab!ForgetOpens(t)
  <2>1. /\ writing' = [u \in Tabs |-> IF u = t THEN "open" ELSE writing[u]]
        /\ known' = InTab!Nothing /\ misread' = TRUE /\ forgets[t] # None
        /\ UNCHANGED <<checking, forgets>>
    BY <1>1 DEF InTab!ForgetOpens, InTab!Forgetting, CertsInv, ForgetsAreWhole
  <2>2. ForgetsAreWhole'
    BY <2>1 DEF CertsInv, ForgetsAreWhole, OfTargets
  <2>3. ChecksByTheFile'
    BY <2>1, NothingIsAList DEF CertsInv, ChecksByTheFile, OfTargets
  <2>4. QED
    BY <2>2, <2>3 DEF CertsInv
<1>2. CASE InTab!ForgetWrites(t)
  <2> DEFINE left == [forgets[t] EXCEPT ![Target[t]] = None]
  <2>1. /\ InTab!ForgetEnds(t)
        /\ \/ known' \in {left, InTab!Nothing} /\ misread' = TRUE
           \/ UNCHANGED <<known, misread>>
    BY <1>2 DEF InTab!ForgetWrites
  <2>2. OfTargets(left)
    BY <1>2 DEF InTab!ForgetWrites, CertsInv, ForgetsAreWhole, OfTargets
  <2> HIDE DEF left
  <2>3. ForgetsAreWhole' /\ UNCHANGED checking
    BY <2>1, ForgetsEnd DEF CertsInv
  <2>4. ChecksByTheFile'
    BY <2>1, <2>2, <2>3, NothingIsAList DEF CertsInv, ChecksByTheFile, OfTargets
  <2>5. QED
    BY <2>3, <2>4 DEF CertsInv
<1>3. CASE InTab!ForgetsNothing(t) \/ InTab!ForgetFails(t)
  <2>1. /\ InTab!ForgetEnds(t)
        /\ \/ known' = InTab!Nothing /\ misread' = TRUE
           \/ UNCHANGED <<known, misread>>
    BY <1>3 DEF InTab!ForgetsNothing, InTab!ForgetFails
  <2>2. ForgetsAreWhole' /\ UNCHANGED checking
    BY <2>1, ForgetsEnd DEF CertsInv
  <2>3. ChecksByTheFile'
    BY <2>1, <2>2, NothingIsAList DEF CertsInv, ChecksByTheFile, OfTargets
  <2>4. QED
    BY <2>2, <2>3 DEF CertsInv
<1>4. QED
  BY <1>1, <1>2, <1>3 DEF InTab!Forget

LEMMA NoCertsChange == CertsInv /\ UNCHANGED InTab!certs => CertsInv' /\ KeepsCerts
  BY DEF CertsInv, ChecksByTheFile, ForgetsAreWhole, OfTargets, KeepsCerts, InTab!certs

LEMMA CertsStep == CertsInv /\ InTab!Next => CertsInv' /\ KeepsCerts
<1> SUFFICES ASSUME CertsInv, InTab!Next PROVE CertsInv' /\ KeepsCerts
  OBVIOUS
<1> DEFINE Kept == CertsInv' /\ KeepsCerts
<1>1. ASSUME UNCHANGED InTab!certs PROVE Kept
  BY <1>1, NoCertsChange
<1>2. ASSUME NEW i \in InTab!Attempts, InTab!Step(i) PROVE Kept
  <2>1. CASE InTab!Established(i)
    BY <2>1 DEF InTab!Established, CertsInv, ChecksByTheFile, ForgetsAreWhole, OfTargets, KeepsCerts
  <2>2. CASE ~InTab!Established(i)
    <3>1. UNCHANGED InTab!certs
      BY <1>2, <2>2 DEF InTab!Step, InTab!ViewerReady, InTab!ViewerFails, InTab!Abandoned,
         InTab!AsksForCredentials, InTab!OpenRefused, InTab!Opened, InTab!Connected,
         InTab!ConnectFails, InTab!Explained, InTab!Ended, InTab!OpenFails, InTab!NeedsCredentials,
         InTab!Ready, InTab!Handshake, InTab!EstablishFails, InTab!ServerCloses
    <3>2. QED
      BY <1>1, <3>1
  <2>3. QED
    BY <2>1, <2>2
<1>3. ASSUME NEW t \in Tabs, InTab!Mount(t) \/ InTab!Reconnect(t) \/ InTab!SignIn(t)
                             \/ InTab!Trusted(t) \/ InTab!CloseTab(t)
      PROVE  Kept
  BY <1>1, <1>3 DEF InTab!Mount, InTab!Reconnect, InTab!SignIn, InTab!Trusted, InTab!CloseTab
<1>4. ASSUME NEW t \in Tabs, InTab!Trust(t) PROVE Kept
  <2>1. PICK list \in {known, InTab!Nothing} : forgets' = [forgets EXCEPT ![t] = list]
    BY <1>4 DEF InTab!Trust, InTab!Readings
  <2>2. OfTargets(list) /\ UNCHANGED <<known, checking, writing, misread>>
    BY <1>4, <2>1, NothingIsAList DEF InTab!Trust, CertsInv, ChecksByTheFile
  <2>3. forgets' = [u \in Tabs |-> IF u = t THEN list ELSE forgets[u]]
    BY <2>1 DEF CertsInv, ForgetsAreWhole
  <2>4. ForgetsAreWhole'
    BY <2>2, <2>3 DEF CertsInv, ForgetsAreWhole, OfTargets
  <2>5. QED
    BY <2>2, <2>4 DEF CertsInv, ChecksByTheFile, OfTargets, KeepsCerts
<1>5. ASSUME NEW t \in Tabs, InTab!Forget(t) PROVE Kept
  BY <1>5, ForgetKeeps DEF KeepsCerts
<1>6. ASSUME InTab!CheckReads PROVE Kept
  <2>1. /\ checking' \in {known, InTab!Nothing} /\ misread' = (checking' # known)
        /\ UNCHANGED <<known, forgets, writing>>
    BY <1>6 DEF InTab!CheckReads, InTab!Readings
  <2>2. OfTargets(checking')
    BY <2>1, NothingIsAList DEF CertsInv, ChecksByTheFile
  <2>3. QED
    BY <2>1, <2>2 DEF CertsInv, ChecksByTheFile, ForgetsAreWhole, OfTargets, KeepsCerts
<1>7. ASSUME InTab!CheckAnswers PROVE Kept
  <2> DEFINE i == Head(queue)
             g == Target[InTab!Tab(i)]
             learned == [checking EXCEPT ![g] = InTab!Presented(i)]
             others == [t \in Tabs |-> IF writing[t] = "open" THEN "replaced" ELSE writing[t]]
  <2>1. /\ checking # None /\ checking' = None /\ UNCHANGED <<forgets, misread>>
        /\ \/ checking[g] = None /\ known' = learned /\ writing' = others
           \/ UNCHANGED <<known, writing>>
    BY <1>7 DEF InTab!CheckAnswers, InTab!Remembered, InTab!Learns
  <2>2. OfTargets(checking) /\ (~misread => checking = known)
    BY <2>1 DEF CertsInv, ChecksByTheFile
  <2>3. ChecksByTheFile'
    BY <2>1, <2>2 DEF CertsInv, ChecksByTheFile, OfTargets
  <2>4. ForgetsAreWhole'
    BY <2>1 DEF CertsInv, ForgetsAreWhole, OfTargets
  <2>5. KeepsCerts
    <3> SUFFICES ASSUME ~misread, NEW h \in Targets, known[h] # None
                 PROVE  known'[h] = known[h]
      BY DEF KeepsCerts
    <3>1. \/ known[g] = None /\ known' = [known EXCEPT ![g] = InTab!Presented(i)]
          \/ UNCHANGED known
      BY <2>1, <2>2
    <3>2. QED
      BY <3>1 DEF CertsInv, ChecksByTheFile, OfTargets
  <2>6. QED
    BY <2>3, <2>4, <2>5 DEF CertsInv
<1> HIDE DEF Kept
<1>8. Kept
  BY <1>2, <1>3, <1>4, <1>5, <1>6, <1>7 DEF InTab!Next
<1>9. QED
  BY <1>8 DEF Kept

\* "Two first connections at once must not overwrite each other's entry" (knownCerts.ts):
\* whatever tabs do at once, a check that read the whole file only adds to what is known,
\* unless a forget came at the file before it wrote.
THEOREM CertificatesAreKept == PartsSafety => []CertsInv /\ KeepsWhatItLearned
<1>1. PartsInit => CertsInv
  BY CertsInit DEF PartsInit
<1>2. CertsInv /\ [PartsNext]_<<part, vars, tabVars, fileVars>> => CertsInv' /\ KeepsCerts
  <2> SUFFICES ASSUME CertsInv, [PartsNext]_<<part, vars, tabVars, fileVars>>
               PROVE  CertsInv' /\ KeepsCerts
    OBVIOUS
  <2>1. InTab!Next \/ UNCHANGED tabVars
    BY DEF PartsNext
  <2>2. ASSUME UNCHANGED tabVars PROVE UNCHANGED InTab!certs
    BY <2>2 DEF tabVars, InTab!certs
  <2>3. QED
    BY <2>1, <2>2, NoCertsChange, CertsStep
<1>3. KeepsCerts =>
        \A g \in Targets :
          known[g] # None /\ known'[g] # known[g]
            => misread \/ \E t \in Tabs : InTab!Forget(t)
  BY DEF KeepsCerts
<1>4. QED
  BY <1>1, <1>2, <1>3, PTL DEF PartsSafety, KeepsWhatItLearned, InTab!KeepsWhatItLearned
=============================================================================
