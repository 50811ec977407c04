------------------------------ MODULE RdpLaunch ------------------------------
(***************************************************************************)
(* Remote desktops opened in the system's own client (ipc/rdp, core/rdp):  *)
(* the password handed to mstsc through the Windows credential store, the  *)
(* marker file a later run cleans up by, and the SSH tunnel a launch may   *)
(* need.                                                                   *)
(*                                                                         *)
(* The application may die or quit at any moment and be started again; the *)
(* credential store and the marker file outlive it.  So do clients, but    *)
(* nobody is left to watch them.  File contents and command lines are left *)
(* out.                                                                    *)
(***************************************************************************)
EXTENDS Integers, FiniteSets

CONSTANTS
    Profiles,       \* saved connections
    Hosts,          \* addresses the clients are given
    Address,        \* [Profiles -> Hosts]; a tunnelled one has a loopback address
    Tunnelled,      \* profiles with viaHost
    WithPassword,   \* ... with user name and password
    WithRedirects,  \* ... with settings only a .rdp file can hold
    MaxLaunches,    \* bound: launches in one behaviour
    MaxSockets,     \* bound: client connections through one tunnel at a time
    MaxRefusals,    \* bound: calls of the credential store that fail
    MaxRuns         \* bound: how often the application is started

ASSUME RdpLaunchAssumptions ==
    /\ Address \in [Profiles -> Hosts]
    /\ Tunnelled \cup WithPassword \cup WithRedirects \subseteq Profiles
    /\ {MaxLaunches, MaxSockets, MaxRefusals, MaxRuns} \subseteq Nat

Launches == 1..MaxLaunches
Clients == {"mstsc", "xfreerdp", "file"}

VARIABLES
    launch,     \* per launch: how far it is, and its client
    tunnel,     \* per launch: its SSH session and forwarding server
    store,      \* Windows: whose TERMSRV credential each host has
    marker,     \* the file that says ours may be in the store
    staged,     \* hostnames this process staged and has not removed
    pending,    \* pendingCredentialHosts, for before-quit
    leftovers,  \* cleanUpLeftovers(), once per process
    runs,       \* times the application was started
    alive,      \* whether it runs
    refusals    \* failed calls of the store

vars == <<launch, tunnel, store, marker, staged, pending, leftovers, runs, alive, refusals>>
creds == <<store, marker, staged, pending, refusals>>
process == <<leftovers, runs, alive>>

(* credential: the StageOutcome; dropped: dropCredential() has run.        *)
(* rm: the marker file's removal is under way.  connection: what the poll  *)
(* for the client's connection knows.  file: the temporary .rdp file.      *)
NotLaunched == [at |-> "idle", profile |-> CHOOSE p \in Profiles : TRUE,
                client |-> "mstsc", runs |-> "no", credential |-> "none", dropped |-> FALSE,
                seen |-> FALSE, rm |-> FALSE, file |-> FALSE]

NoTunnel == [state |-> "none", sockets |-> 0, idle |-> FALSE]

TypeOK ==
    /\ launch \in [Launches ->
           [at : {"idle", "tunnel", "check", "listen", "launch", "leftovers", "marker",
                  "write", "unmark", "file", "spawn", "open", "over"},
            profile : Profiles, client : Clients,
            runs : {"no", "starting", "connected", "gone"},
            credential : {"none", "ours", "kept-existing"},
            dropped : BOOLEAN, seen : BOOLEAN, rm : BOOLEAN, file : BOOLEAN]]
    /\ tunnel \in [Launches -> [state : {"none", "ssh", "open", "closed", "failed"},
                                sockets : 0..MaxSockets, idle : BOOLEAN]]
    /\ store \in [Hosts -> {"none", "ours", "theirs"}]
    /\ marker \in BOOLEAN /\ staged \subseteq Hosts /\ pending \subseteq Hosts
    /\ leftovers \in {"no", "removing", "done"}
    /\ runs \in 1..MaxRuns /\ alive \in BOOLEAN /\ refusals \in 0..MaxRefusals

Init ==
    /\ launch = [l \in Launches |-> NotLaunched]
    /\ tunnel = [l \in Launches |-> NoTunnel]
    /\ store \in [Hosts -> {"none", "theirs"}]
    /\ marker = FALSE /\ staged = {} /\ pending = {}
    /\ leftovers = "no" /\ runs = 1 /\ alive = TRUE /\ refusals = 0

Host(l) == Address[launch[l].profile]
At(l, step) == alive /\ launch[l].at = step
Windows(l) == launch[l].client = "mstsc"
NeedsRdpFile(p) == p \in WithRedirects \ WithPassword
Goes(l, step) == launch' = [launch EXCEPT ![l].at = step]

-----------------------------------------------------------------------------
(* The tunnel *)

(* close(): once; every socket is destroyed and the session given back.    *)
Shut(t) == IF t.state \in {"ssh", "open"}
           THEN [state |-> "closed", sockets |-> 0, idle |-> FALSE] ELSE t
CloseTunnel(l) == tunnel' = [tunnel EXCEPT ![l] = Shut(@)]

(* All sockets close, and the last of them arms the idle timer.            *)
Hangup(t) == [t EXCEPT !.sockets = 0, !.idle = @ \/ t.sockets > 0]

(* rdp_launch: 1Password first, then the tunnel, then the client.          *)
Launch(l, p, c) ==
    /\ At(l, "idle")
    /\ \A k \in 1..(l - 1) :      \* in order, and all on one system
        launch[k].at # "idle" /\ ((c = "mstsc") <=> Windows(k))
    /\ launch' = [launch EXCEPT ![l] = [NotLaunched EXCEPT
           !.profile = p, !.client = c, !.at = IF p \in Tunnelled THEN "tunnel" ELSE "launch"]]
    /\ UNCHANGED <<tunnel, creds, process>>

(* SshSession.connect() for the tunnel: a connection of its own.           *)
TunnelConnected(l) ==
    /\ At(l, "tunnel") /\ Goes(l, "check")
    /\ tunnel' = [tunnel EXCEPT ![l].state = "ssh"]
    /\ UNCHANGED <<creds, process>>

TunnelFailed(l) ==
    /\ At(l, "tunnel") /\ Goes(l, "over")
    /\ UNCHANGED <<tunnel, creds, process>>

(* openTunnel() tries one channel, then listens; either may fail.          *)
TargetChecked(l) ==
    /\ At(l, "check") /\ Goes(l, "listen")
    /\ UNCHANGED <<tunnel, creds, process>>

(* Mutant: the idle timer waits for a first connection. *)
ListeningUntimed(l) ==
    /\ At(l, "listen") /\ Goes(l, "launch")
    /\ tunnel' = [tunnel EXCEPT ![l].state = "open"]
    /\ UNCHANGED <<creds, process>>

Listening(l) ==
    /\ At(l, "listen") /\ Goes(l, "launch")
    /\ tunnel' = [tunnel EXCEPT ![l].state = "open", ![l].idle = TRUE]
    /\ UNCHANGED <<creds, process>>

OpenTunnelFailed(l) ==
    /\ At(l, "check") \/ At(l, "listen")
    /\ Goes(l, "over") /\ CloseTunnel(l)
    /\ UNCHANGED <<creds, process>>

(* The client connects through the tunnel; without one, to the server.     *)
Connects(l) ==
    /\ launch[l].runs = "starting"
    /\ tunnel[l].state \notin {"closed", "failed"}
    /\ launch' = [launch EXCEPT ![l].runs = "connected"]
    /\ tunnel' = [tunnel EXCEPT ![l] = IF @.state = "open"
                                       THEN [@ EXCEPT !.sockets = 1, !.idle = FALSE] ELSE @]
    /\ UNCHANGED <<creds, process>>

(* It may come back after a network blip, and use several connections.     *)
SocketOpens(l) ==
    /\ launch[l].runs = "connected" /\ tunnel[l].state = "open"
    /\ tunnel[l].sockets < MaxSockets
    /\ tunnel' = [tunnel EXCEPT ![l].sockets = @ + 1, ![l].idle = FALSE]
    /\ UNCHANGED <<launch, creds, process>>

(* Mutant: any socket's end arms the idle timer. *)
SocketClosesAny(l) ==
    /\ tunnel[l].sockets > 0
    /\ tunnel' = [tunnel EXCEPT ![l].sockets = @ - 1, ![l].idle = TRUE]
    /\ UNCHANGED <<launch, creds, process>>

SocketCloses(l) ==
    /\ tunnel[l].sockets > 0
    /\ tunnel' = [tunnel EXCEPT ![l].sockets = @ - 1, ![l].idle = (tunnel[l].sockets = 1)]
    /\ UNCHANGED <<launch, creds, process>>

IdleTimer(l) ==
    /\ tunnel[l].idle /\ CloseTunnel(l)
    /\ UNCHANGED <<launch, creds, process>>

(* An error of the listening server (server.on('error', close)) closes the *)
(* tunnel under whoever is connected.                                      *)
ListenerFails(l) ==
    /\ tunnel[l].state = "open"
    /\ tunnel' = [tunnel EXCEPT ![l] = [Shut(@) EXCEPT !.state = "failed"]]
    /\ UNCHANGED <<launch, creds, process>>

-----------------------------------------------------------------------------
(* The credential store *)

(* launchRdp: mstsc on Windows; elsewhere FreeRDP if found, else the file. *)
StartLaunch(l) ==
    /\ At(l, "launch")
    /\ Goes(l, CASE Windows(l) /\ launch[l].profile \in WithPassword -> "leftovers"
                 [] launch[l].client = "xfreerdp" -> "spawn"
                 [] OTHER -> "file")
    /\ UNCHANGED <<tunnel, creds, process>>

(* cleanUpLeftovers(): one promise per process, whatever becomes of it.    *)
CleanUp(l) ==
    /\ At(l, "leftovers") /\ leftovers = "no"
    /\ leftovers' = IF marker THEN "removing" ELSE "done"
    /\ store' = [h \in Hosts |-> IF marker /\ store[h] = "ours" THEN "none" ELSE store[h]]
    /\ UNCHANGED <<launch, tunnel, marker, staged, pending, refusals, runs, alive>>

CleanUpRefused(l) ==
    /\ At(l, "leftovers") /\ leftovers = "no" /\ marker
    /\ refusals < MaxRefusals /\ refusals' = refusals + 1
    /\ leftovers' = "done"
    /\ UNCHANGED <<launch, tunnel, store, marker, staged, pending, runs, alive>>

CleanedUp ==
    /\ alive /\ leftovers = "removing" /\ leftovers' = "done"
    /\ marker' = FALSE
    /\ UNCHANGED <<launch, tunnel, store, staged, pending, refusals, runs, alive>>

PastLeftovers(l) ==
    /\ At(l, "leftovers") /\ leftovers = "done" /\ Goes(l, "marker")
    /\ UNCHANGED <<tunnel, creds, process>>

(* The marker is on disk before the credential is in the store.            *)
WriteMarker(l) ==
    /\ At(l, "marker") /\ Goes(l, "write")
    /\ marker' = TRUE
    /\ UNCHANGED <<tunnel, store, staged, pending, refusals, process>>

(* store.write(): one that is not ours is left, and used instead.          *)
Stage(l) ==
    /\ At(l, "write") /\ store[Host(l)] # "theirs"
    /\ store' = [store EXCEPT ![Host(l)] = "ours"]
    /\ staged' = staged \cup {Host(l)} /\ pending' = pending \cup {Host(l)}
    /\ launch' = [launch EXCEPT ![l].at = "file", ![l].credential = "ours"]
    /\ UNCHANGED <<tunnel, marker, refusals, process>>

KeepExisting(l) ==
    /\ At(l, "write") /\ store[Host(l)] = "theirs"
    /\ launch' = [launch EXCEPT ![l].credential = "kept-existing",
                                ![l].at = IF staged = {} THEN "unmark" ELSE "file"]
    /\ UNCHANGED <<tunnel, creds, process>>

Unmark(l) ==
    /\ At(l, "unmark") /\ Goes(l, "file")
    /\ marker' = FALSE
    /\ UNCHANGED <<tunnel, store, staged, pending, refusals, process>>

(* "Could not hand the password to Remote Desktop": the launch is over.    *)
StageFailed(l) ==
    /\ At(l, "marker") \/ At(l, "write")
    /\ refusals < MaxRefusals /\ refusals' = refusals + 1
    /\ Goes(l, "over") /\ CloseTunnel(l)
    /\ UNCHANGED <<store, marker, staged, pending, process>>

HoldsOurs(l) == launch[l].credential = "ours" /\ ~launch[l].dropped

(* dropCredential(): once; the host's credential goes if it is ours, and   *)
(* with the last one the marker -- by an rm that ends later.  after: what  *)
(* else becomes of the launch.                                             *)
Removes(l, after) ==
    /\ store' = [store EXCEPT ![Host(l)] = IF @ = "ours" THEN "none" ELSE @]
    /\ staged' = staged \ {Host(l)}
    /\ launch' = [launch EXCEPT ![l] = [after EXCEPT !.dropped = TRUE, !.rm = (staged' = {})]]
    /\ pending' = IF staged' = {} THEN pending ELSE pending \ {Host(l)}
    /\ UNCHANGED <<marker, refusals>>

RemoveRefused(l, after) ==
    /\ refusals < MaxRefusals /\ refusals' = refusals + 1
    /\ launch' = [launch EXCEPT ![l] = [after EXCEPT !.dropped = TRUE]]
    /\ UNCHANGED <<store, marker, staged, pending>>

DropCredential(l, after) ==
    IF HoldsOurs(l)
    THEN Removes(l, after) \/ RemoveRefused(l, after)
    ELSE launch' = [launch EXCEPT ![l] = after] /\ UNCHANGED creds

MarkerRemoved(l) ==
    /\ launch[l].rm
    /\ launch' = [launch EXCEPT ![l].rm = FALSE]
    /\ marker' = FALSE /\ pending' = pending \ {Host(l)}
    /\ UNCHANGED <<tunnel, store, staged, refusals, process>>

-----------------------------------------------------------------------------
(* The client *)

(* The .rdp file, where mstsc needs one; never with a password.            *)
WriteRdpFile(l) ==
    /\ At(l, "file")
    /\ launch' = [launch EXCEPT
           ![l].file = ~Windows(l) \/ launch[l].profile \in WithRedirects \/ NeedsRdpFile(launch[l].profile),
           ![l].at = IF Windows(l) THEN "spawn" ELSE "open"]
    /\ UNCHANGED <<tunnel, creds, process>>

(* With a client to watch, the tunnel goes with it.                        *)
Spawned(l) ==
    /\ At(l, "spawn")
    /\ launch' = [launch EXCEPT ![l].runs = "starting", ![l].at = "over"]
    /\ UNCHANGED <<tunnel, creds, process>>

(* shell.openPath: some application has the file, and there is no child.   *)
Opened(l) ==
    /\ At(l, "open")
    /\ launch' = [launch EXCEPT ![l].runs = "starting", ![l].at = "over"]
    /\ UNCHANGED <<tunnel, creds, process>>

LaunchFailed(l) ==
    /\ \E step \in {"file", "spawn", "open"} : At(l, step)
    /\ DropCredential(l, [launch[l] EXCEPT !.at = "over", !.file = ~Windows(l) /\ @])
    /\ CloseTunnel(l)
    /\ UNCHANGED process

(* The poll of netstat: the client has its connection.                     *)
SeenConnected(l) ==
    /\ Windows(l) /\ launch[l].runs = "connected" /\ HoldsOurs(l) /\ ~launch[l].seen
    /\ launch' = [launch EXCEPT ![l].seen = TRUE]
    /\ UNCHANGED <<tunnel, creds, process>>

AfterConnect(l) ==
    /\ launch[l].seen /\ HoldsOurs(l)
    /\ DropCredential(l, launch[l])
    /\ UNCHANGED <<tunnel, process>>

(* Mutant: the timer is cleared once the client runs. *)
HoldTimerUntilStart(l) ==
    /\ HoldsOurs(l) /\ launch[l].runs = "no"
    /\ DropCredential(l, launch[l])
    /\ UNCHANGED <<tunnel, process>>

(* Armed when the credential is staged, not when the client starts.        *)
HoldTimer(l) ==
    /\ HoldsOurs(l)
    /\ DropCredential(l, launch[l])
    /\ UNCHANGED <<tunnel, process>>

(* The client exits; one that opened a file is nobody's child.             *)
Exits(l) ==
    /\ launch[l].runs \in {"starting", "connected"}
    /\ DropCredential(l, [launch[l] EXCEPT !.runs = "gone", !.file = ~Windows(l) /\ @])
    /\ tunnel' = [tunnel EXCEPT ![l] =
           IF launch[l].client # "file" THEN Shut(@) ELSE Hangup(@)]
    /\ UNCHANGED process

-----------------------------------------------------------------------------
(* The process *)

Ends ==
    /\ alive' = FALSE
    /\ launch' = [l \in Launches |-> IF launch[l].at = "idle" THEN launch[l]
                                     ELSE [launch[l] EXCEPT !.at = "over", !.runs = "gone",
                                                            !.dropped = TRUE, !.rm = FALSE]]
    /\ tunnel' = [l \in Launches |-> Shut(tunnel[l])]
    /\ UNCHANGED <<leftovers, runs>>

Crash ==
    /\ alive /\ Ends
    /\ UNCHANGED creds

(* before-quit: synchronous, each credential still checked to be ours.     *)
Quit ==
    /\ alive /\ Ends
    /\ store' = [h \in Hosts |-> IF h \in pending /\ store[h] = "ours" THEN "none" ELSE store[h]]
    /\ staged' = staged \ pending /\ pending' = {}
    /\ marker' = (marker /\ (pending = {} \/ staged' # {}))
    /\ UNCHANGED refusals

QuitRefused ==
    /\ alive /\ pending # {} /\ Ends
    /\ refusals < MaxRefusals /\ refusals' = refusals + 1
    /\ \E removed \in SUBSET pending :
        /\ removed # pending
        /\ store' = [h \in Hosts |-> IF h \in removed /\ store[h] = "ours" THEN "none" ELSE store[h]]
        /\ staged' = staged \ removed
    /\ pending' = {}
    /\ UNCHANGED marker

Start ==
    /\ ~alive /\ runs < MaxRuns
    /\ alive' = TRUE /\ runs' = runs + 1 /\ leftovers' = "no"
    /\ staged' = {} /\ pending' = {}
    /\ UNCHANGED <<launch, tunnel, store, marker, refusals>>

-----------------------------------------------------------------------------
Open(l) ==
    \/ \E p \in Profiles, c \in Clients : Launch(l, p, c)
    \/ TunnelConnected(l) \/ TunnelFailed(l) \/ TargetChecked(l) \/ Listening(l)
    \/ OpenTunnelFailed(l) \/ StartLaunch(l) \/ CleanUp(l) \/ CleanUpRefused(l)
    \/ PastLeftovers(l) \/ WriteMarker(l) \/ Stage(l) \/ KeepExisting(l) \/ Unmark(l)
    \/ StageFailed(l) \/ WriteRdpFile(l) \/ Spawned(l) \/ Opened(l) \/ LaunchFailed(l)

Next ==
    \/ \E l \in Launches :
        \/ Open(l) \/ Connects(l) \/ SocketOpens(l) \/ SocketCloses(l) \/ IdleTimer(l)
        \/ ListenerFails(l) \/ SeenConnected(l) \/ AfterConnect(l) \/ HoldTimer(l) \/ MarkerRemoved(l) \/ Exits(l)
    \/ CleanedUp \/ Crash \/ Quit \/ QuitRefused \/ Start

(* The timers run and the file system answers; clients, users and the      *)
(* credential store do as they please.                                     *)
Fairness ==
    \A l \in Launches : WF_vars(HoldTimer(l)) /\ WF_vars(IdleTimer(l))

Spec == Init /\ [][Next]_vars /\ Fairness

-----------------------------------------------------------------------------
(* A staged credential "never stays longer than CREDENTIAL_HOLD_MS in any  *)
(* case" (launch.ts): however the launch goes on, it is taken out while the*)
(* application runs, unless the store itself refused.                      *)
CredentialsGo ==
    \A l \in Launches :
        HoldsOurs(l) ~> store[Host(l)] # "ours" \/ refusals > 0 \/ ~alive

(* "If the app dies before cleaning up, the next RDP launch first removes  *)
(* whatever of ours is left" (credentials/index.ts): when a launch is past *)
(* that, every credential of ours is one this process staged.              *)
NextLaunchCleansUp ==
    leftovers = "done" /\ refusals = 0 =>
        \A h \in Hosts : store[h] = "ours" => h \in staged

(* before-quit takes out the passwords of launches still starting up.      *)
QuitTakesThemOut ==
    [][Quit => \A h \in staged : store'[h] # "ours"]_vars

(* A tunnel closes on its own, or with its client, but never under a       *)
(* connection that still runs through it, unless its server failed.        *)
TunnelOutlivesItsUse ==
    [][\A l \in Launches :
        tunnel[l].sockets > 0 /\ tunnel'[l].state # "open"
            => launch'[l].runs = "gone" \/ ~alive' \/ tunnel'[l].state = "failed"]_vars

(* The SSH connection opened for a launch is given back: when its client   *)
(* is gone, or when nothing uses it -- also when there is no client to     *)
(* watch, and when the launch failed half way.                             *)
TunnelsAreGivenBack ==
    \A l \in Launches :
        tunnel[l].state = "open" ~>
            tunnel[l].state \in {"closed", "failed"} \/ tunnel[l].sockets > 0

(* mstsc finds the password when it connects, unless its time was up.      *)
PasswordIsThere ==
    [][\A l \in Launches :
        Connects(l) /\ HoldsOurs(l) => store[Host(l)] = "ours"]_vars

=============================================================================
