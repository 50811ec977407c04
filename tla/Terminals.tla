----------------------------- MODULE Terminals -----------------------------
(***************************************************************************)
(* Terminals, from the tab to the shell and back: screens/TerminalView and *)
(* SftpTerminalDrawer, what ipc/router does when a shell exits, and the    *)
(* shells in the main process (core/ssh/pty.ts, core/local/localPty.ts).   *)
(*                                                                         *)
(* A tab has one shell, so both have one name.  What the main process      *)
(* posts (replies, output, exit notices) reaches the renderer in the order *)
(* it was posted: `wire`.  Resizes, colours and the clipboard change       *)
(* nothing that matters here; a paste is typed text.                       *)
(***************************************************************************)
EXTENDS Integers, FiniteSets, Sequences, SequencesExt

CONSTANTS
    MaxTabs,    \* bound: tabs opened in one behaviour
    MaxOpen,    \* bound: tabs open at a time
    MaxOutput,  \* bound: pieces of output of a shell on their way
    MaxInputs   \* bound: inputs per tab, the opening commands included

ASSUME TerminalAssumptions ==
    /\ MaxTabs \in Nat \ {0} /\ MaxOpen \in Nat \ {0}
    /\ MaxOutput \in Nat /\ MaxInputs \in Nat

Tabs == 1..MaxTabs

(* An SSH tab, a tab with a shell of this machine, the terminal drawer of  *)
(* the file browser.                                                       *)
Kinds == {"ssh", "local", "drawer"}

VARIABLES
    kind,
    view,       \* the component
    shell,      \* the main process's side
    lease,      \* tabs whose shell holds a connection
    wire,       \* posted to the renderer and not delivered
    closeSent,  \* tabs whose terminal_close is on its way
    parked,     \* exitedBeforeMapped
    listening,  \* orphanExitListeners
    buffered,   \* pieces of output in the batch
    missed,     \* history: tabs that got output before they listened
    typing,     \* inputs not yet sent to their end
    sending,    \* the input a chunk of which is in flight, 0: none
    asked,      \* inputs asked for
    queued,     \* drawers with a command waiting for the shell
    received    \* the input the shell read a chunk of last

output == <<buffered, missed>>
input == <<typing, sending, asked, queued, received>>
routing == <<parked, listening>>
terminalVars == <<kind, view, shell, lease, wire, closeSent, routing, output, input>>

Views == {"none", "mounting", "opening", "open", "failed", "ended", "gone"}
Shells == {"none", "connecting", "session", "up", "exited", "failed", "killed"}

TerminalsTypeOK ==
    /\ kind \in [Tabs -> Kinds]
    /\ view \in [Tabs -> Views]
    /\ shell \in [Tabs -> Shells]
    /\ lease \subseteq Tabs /\ closeSent \subseteq Tabs
    /\ parked \subseteq Tabs /\ listening \subseteq Tabs /\ queued \subseteq Tabs
    /\ wire \in [Tabs -> Seq({"ok", "error", "exited", "output"})]
    /\ buffered \in [Tabs -> 0..MaxOutput] /\ missed \subseteq Tabs
    /\ asked \in [Tabs -> 0..MaxInputs] /\ sending \in [Tabs -> 0..MaxInputs]
    /\ received \in [Tabs -> 0..MaxInputs]

TerminalsInit ==
    /\ kind = [t \in Tabs |-> "ssh"]
    /\ view = [t \in Tabs |-> "none"] /\ shell = [t \in Tabs |-> "none"]
    /\ lease = {} /\ closeSent = {} /\ parked = {} /\ listening = {} /\ queued = {}
    /\ wire = [t \in Tabs |-> <<>>]
    /\ buffered = [t \in Tabs |-> 0] /\ missed = {}
    /\ typing = [t \in Tabs |-> <<>>] /\ sending = [t \in Tabs |-> 0]
    /\ asked = [t \in Tabs |-> 0] /\ received = [t \in Tabs |-> 0]

Post(t, messages) == wire' = [wire EXCEPT ![t] = @ \o messages]

(* Chunks still to send of an input, and which input it is. *)
Inputs(t, n) == {[of |-> n, left |-> c] : c \in 1..2}

-----------------------------------------------------------------------------
(* The tab. *)

NextTab == {t \in Tabs : view[t] = "none" /\ \A u \in Tabs : u < t => view[u] # "none"}

(* spawnSession(), spawnLocalTerminal(), the drawer's button. *)
Spawn(t, k) ==
    /\ t \in NextTab
    /\ Cardinality({u \in Tabs : view[u] \notin {"none", "gone"}}) < MaxOpen
    /\ kind' = [kind EXCEPT ![t] = k]
    /\ view' = [view EXCEPT ![t] = "mounting"]
    /\ UNCHANGED <<shell, lease, wire, closeSent, routing, output, input>>

(* onMount(): the terminal's code is there; the shell is asked for.        *)
Mounted(t) ==
    /\ view[t] = "mounting"
    /\ view' = [view EXCEPT ![t] = "opening"]
    /\ shell' = [shell EXCEPT ![t] = "connecting"]
    /\ UNCHANGED <<kind, lease, wire, closeSent, routing, output, input>>

(* onDestroy(): what is not sent stays unsent; a shell whose id is known   *)
(* is closed.                                                              *)
Destroyed(t) ==
    /\ view' = [view EXCEPT ![t] = "gone"]
    /\ closeSent' = IF view[t] \in {"open", "ended"} THEN closeSent \cup {t} ELSE closeSent
    /\ listening' = listening \ {t}
    /\ typing' = [typing EXCEPT ![t] = <<>>]
    /\ queued' = queued \ {t}
    /\ UNCHANGED <<sending, asked, received>>

(* closeSession(), or the drawer is folded away with its tab. *)
CloseTab(t) ==
    /\ view[t] \notin {"none", "gone"}
    /\ Destroyed(t)
    /\ UNCHANGED <<kind, shell, lease, wire, parked, output>>

(* "Try again": the failed tab goes, a new one for the same host comes.    *)
TryAgain(t, u) ==
    /\ view[t] = "failed" /\ kind[t] = "ssh" /\ u \in NextTab
    /\ view' = [view EXCEPT ![t] = "gone", ![u] = "mounting"]
    /\ kind' = [kind EXCEPT ![u] = "ssh"]
    /\ UNCHANGED <<shell, lease, wire, closeSent, routing, output, input>>

-----------------------------------------------------------------------------
(* The shell. *)

Refused(t) ==
    /\ shell' = [shell EXCEPT ![t] = "failed"]
    /\ Post(t, <<"exited", "error">>)

(* The host was deleted or renamed since the tab was asked for. *)
UnknownHost(t) ==
    /\ shell[t] = "connecting" /\ kind[t] # "local"
    /\ shell' = [shell EXCEPT ![t] = "failed"]
    /\ Post(t, <<"error">>)
    /\ UNCHANGED <<kind, view, lease, closeSent, routing, output, input>>

(* SshSession.shared(). *)
SessionAnswers(t) ==
    /\ shell[t] = "connecting" /\ kind[t] # "local"
    /\ \/ /\ shell' = [shell EXCEPT ![t] = "session"]
          /\ lease' = lease \cup {t}
          /\ UNCHANGED wire
       \/ Refused(t) /\ UNCHANGED lease
    /\ UNCHANGED <<kind, view, closeSent, routing, output, input>>

(* openShell().  A shell that cannot be opened keeps its connection.       *)
ShellAnswers(t) ==
    /\ shell[t] = "session"
    /\ \/ shell' = [shell EXCEPT ![t] = "up"] /\ Post(t, <<"ok">>)
       \/ Refused(t)
    /\ UNCHANGED <<kind, view, lease, closeSent, routing, output, input>>

(* The profile is looked up, node-pty loaded, the shell started. *)
LocalAnswers(t) ==
    /\ shell[t] = "connecting" /\ kind[t] = "local"
    /\ \/ shell' = [shell EXCEPT ![t] = "up"] /\ Post(t, <<"ok">>)
       \/ Refused(t)
    /\ UNCHANGED <<kind, view, lease, closeSent, routing, output, input>>

OnTheirWay(t) == buffered[t] + Cardinality({i \in DOMAIN wire[t] : wire[t][i] = "output"})

(* OutputBatcher.push(): the pieces of one turn are merged. *)
Say(t) ==
    /\ shell[t] = "up" /\ OnTheirWay(t) < MaxOutput
    /\ buffered' = [buffered EXCEPT ![t] = @ + 1]
    /\ UNCHANGED <<kind, view, shell, lease, wire, closeSent, routing, missed, input>>

Batch(t) == [i \in 1..buffered[t] |-> "output"]

(* flush(): the turn has ended, or the batch is full. *)
Flush(t) ==
    /\ buffered[t] > 0
    /\ Post(t, Batch(t))
    /\ buffered' = [buffered EXCEPT ![t] = 0]
    /\ UNCHANGED <<kind, view, shell, lease, closeSent, routing, missed, input>>

(* Mutant: the exit notice overtakes the batch. *)
ShellEndsUnflushed(t) ==
    /\ shell[t] = "up"
    /\ shell' = [shell EXCEPT ![t] = "exited"]
    /\ lease' = lease \ {t}
    /\ Post(t, <<"exited">>)
    /\ UNCHANGED <<kind, view, closeSent, routing, output, input>>

(* The channel closes, or the local shell exits, and not by the user's     *)
(* doing: last words first, then the notice.                               *)
ShellEnds(t) ==
    /\ shell[t] = "up"
    /\ shell' = [shell EXCEPT ![t] = "exited"]
    /\ lease' = lease \ {t}
    /\ Post(t, Append(Batch(t), "exited"))
    /\ buffered' = [buffered EXCEPT ![t] = 0]
    /\ UNCHANGED <<kind, view, closeSent, routing, missed, input>>

(* terminal_close: an id no manager has is ignored.  The user knows, so no *)
(* notice follows, and what is batched is dropped.                         *)
TerminalClose(t) ==
    /\ t \in closeSent
    /\ closeSent' = closeSent \ {t}
    /\ IF shell[t] # "up" THEN UNCHANGED <<shell, lease, buffered>>
       ELSE /\ shell' = [shell EXCEPT ![t] = "killed"]
            /\ lease' = lease \ {t}
            /\ buffered' = [buffered EXCEPT ![t] = 0]
    /\ UNCHANGED <<kind, view, wire, routing, missed, input>>

-----------------------------------------------------------------------------
(* What reaches the renderer. *)

Arrives(t, message) ==
    /\ wire[t] # <<>> /\ Head(wire[t]) = message
    /\ wire' = [wire EXCEPT ![t] = Tail(@)]

(* Channel.onmessage(): a terminal that is gone shows nothing. *)
OutputArrives(t) ==
    /\ Arrives(t, "output")
    /\ missed' = IF view[t] \in {"open", "ended", "gone"} THEN missed ELSE missed \cup {t}
    /\ UNCHANGED <<kind, view, shell, lease, closeSent, routing, buffered, input>>

(* The commands typed for the user: the default path, the host's startup   *)
(* command or the snippet that waited for the drawer's shell.              *)
Opening(t) ==
    CASE kind[t] = "local"  -> {0}
      [] kind[t] = "ssh"    -> {0, 1, 2}
      [] kind[t] = "drawer" -> {IF t \in queued THEN 2 ELSE 1}

(* Mutant: a tab gone meanwhile is forgotten. *)
TerminalOpenedUnheeded(t) ==
    /\ Arrives(t, "ok")
    /\ IF view[t] = "gone"
       THEN UNCHANGED <<view, closeSent, routing, input>>
       ELSE /\ view' = [view EXCEPT ![t] = "open"]
            /\ listening' = IF kind[t] = "drawer" THEN listening \cup {t} ELSE listening
            /\ UNCHANGED <<closeSent, parked, input>>
    /\ UNCHANGED <<kind, shell, lease, output>>

(* terminalOpen() resolves: the id is recorded, unless the tab is gone or  *)
(* its exit is already known.                                              *)
TerminalOpened(t) ==
    /\ Arrives(t, "ok")
    /\ CASE view[t] = "gone" ->
              closeSent' = closeSent \cup {t} /\ UNCHANGED <<view, routing, input>>
         [] view[t] # "gone" /\ t \in parked /\ kind[t] # "drawer" ->
              /\ parked' = parked \ {t}
              /\ view' = [view EXCEPT ![t] = "gone"]
              /\ closeSent' = closeSent \cup {t}
              /\ UNCHANGED <<listening, input>>
         [] OTHER ->
              /\ view' = [view EXCEPT ![t] = IF t \in parked THEN "ended" ELSE "open"]
              /\ parked' = parked \ {t}
              /\ listening' = IF kind[t] = "drawer" /\ t \notin parked
                             THEN listening \cup {t} ELSE listening
              /\ \E n \in Opening(t) :
                   /\ n <= MaxInputs
                   /\ asked' = [asked EXCEPT ![t] = n]
                   /\ typing' = [typing EXCEPT ![t] = [i \in 1..n |-> [of |-> i, left |-> 1]]]
              /\ queued' = queued \ {t}
              /\ UNCHANGED <<closeSent, sending, received>>
    /\ UNCHANGED <<kind, shell, lease, output>>

(* terminalOpen() rejects: the connecting screen says where it stopped.    *)
TerminalNotOpened(t) ==
    /\ Arrives(t, "error")
    /\ view' = [view EXCEPT ![t] = IF @ = "gone" THEN @ ELSE "failed"]
    /\ UNCHANGED <<kind, shell, lease, closeSent, routing, output, input>>

(* Mutant: only tabs are looked for. *)
ExitArrivesForTabs(t) ==
    /\ Arrives(t, "exited")
    /\ IF view[t] = "open" /\ kind[t] # "drawer"
       THEN Destroyed(t) /\ UNCHANGED parked
       ELSE parked' = parked \cup {t} /\ UNCHANGED <<view, closeSent, listening, input>>
    /\ UNCHANGED <<kind, shell, lease, output>>

(* applyTerminalExited(): the tab with the id is closed, the listener of a *)
(* drawer is called once, any other id is kept for whoever records it.     *)
ExitArrives(t) ==
    /\ Arrives(t, "exited")
    /\ CASE view[t] = "open" /\ kind[t] # "drawer" ->
              Destroyed(t) /\ UNCHANGED parked
         [] t \in listening ->
              /\ listening' = listening \ {t}
              /\ view' = [view EXCEPT ![t] = "ended"]
              /\ UNCHANGED <<closeSent, parked, input>>
         [] OTHER ->
              parked' = parked \cup {t} /\ UNCHANGED <<view, closeSent, listening, input>>
    /\ UNCHANGED <<kind, shell, lease, output>>

-----------------------------------------------------------------------------
(* What reaches the shell. *)

(* sendInput() of a keystroke, or of a paste in several chunks. *)
SendInput(t) ==
    /\ asked[t] < MaxInputs
    /\ asked' = [asked EXCEPT ![t] = @ + 1]
    /\ \E i \in Inputs(t, asked[t] + 1) : typing' = [typing EXCEPT ![t] = Append(@, i)]
    /\ UNCHANGED <<sending, received>>

Type(t) ==
    /\ view[t] \in {"open", "ended"}
    /\ SendInput(t)
    /\ UNCHANGED <<kind, view, shell, lease, wire, closeSent, routing, output, queued>>

(* runCommand(): into the shell, or kept until there is one, in the place  *)
(* of one already kept.                                                    *)
RunCommand(t) ==
    /\ kind[t] = "drawer" /\ view[t] \notin {"none", "gone"}
    /\ IF view[t] \in {"open", "ended"}
       THEN SendInput(t) /\ UNCHANGED queued
       ELSE queued' = queued \cup {t} /\ UNCHANGED <<typing, sending, asked, received>>
    /\ UNCHANGED <<kind, view, shell, lease, wire, closeSent, routing, output>>

(* Mutant: inputs do not wait for each other. *)
SendChunkOfAny(t) ==
    /\ view[t] # "gone" /\ sending[t] = 0
    /\ \E i \in DOMAIN typing[t] :
         /\ sending' = [sending EXCEPT ![t] = typing[t][i].of]
         /\ typing' = [typing EXCEPT ![t] =
               IF @[i].left = 1 THEN RemoveAt(@, i) ELSE [@ EXCEPT ![i].left = 1]]
    /\ UNCHANGED <<kind, view, shell, lease, wire, closeSent, routing, output,
                   asked, queued, received>>

(* The chain of inputs: the next chunk of the first that is not through.   *)
SendChunk(t) ==
    /\ view[t] # "gone" /\ sending[t] = 0 /\ typing[t] # <<>>
    /\ sending' = [sending EXCEPT ![t] = Head(typing[t]).of]
    /\ typing' = [typing EXCEPT ![t] =
          IF Head(@).left = 1 THEN Tail(@) ELSE [@ EXCEPT ![1].left = 1]]
    /\ UNCHANGED <<kind, view, shell, lease, wire, closeSent, routing, output,
                   asked, queued, received>>

(* terminal_write: nobody there, nothing written. *)
WriteArrives(t) ==
    /\ sending[t] # 0
    /\ sending' = [sending EXCEPT ![t] = 0]
    /\ received' = IF shell[t] = "up" THEN [received EXCEPT ![t] = sending[t]]
                                      ELSE received
    /\ UNCHANGED <<kind, view, shell, lease, wire, closeSent, routing, output,
                   typing, asked, queued>>

-----------------------------------------------------------------------------
User(t) ==
    \/ \E k \in Kinds : Spawn(t, k)
    \/ CloseTab(t) \/ Type(t) \/ RunCommand(t)
    \/ \E u \in Tabs : TryAgain(t, u)

Main(t) ==
    \/ UnknownHost(t) \/ SessionAnswers(t) \/ ShellAnswers(t) \/ LocalAnswers(t)
    \/ Flush(t) \/ TerminalClose(t) \/ WriteArrives(t)

Renderer(t) ==
    \/ Mounted(t) \/ TerminalOpened(t) \/ TerminalNotOpened(t)
    \/ OutputArrives(t) \/ ExitArrives(t) \/ SendChunk(t)

TerminalsNext == \E t \in Tabs : User(t) \/ Main(t) \/ Renderer(t) \/ Say(t) \/ ShellEnds(t)

(* The two processes run what is due; a dial or a channel ends within its  *)
(* timeout.  Users and shells owe nothing.                                 *)
TerminalsFairness ==
    \A t \in Tabs :
        /\ WF_terminalVars(SessionAnswers(t)) /\ WF_terminalVars(ShellAnswers(t))
        /\ WF_terminalVars(LocalAnswers(t))
        /\ WF_terminalVars(TerminalClose(t)) /\ WF_terminalVars(Renderer(t))

TerminalsSpec == TerminalsInit /\ [][TerminalsNext]_terminalVars /\ TerminalsFairness

-----------------------------------------------------------------------------
(* A tab that is closed, also while it is opening, ends its shell and      *)
(* gives the connection back -- except after openShell() failed, where     *)
(* open() keeps it (pty.ts).                                               *)
ClosedTabEndsItsShell ==
    \A t \in Tabs :
        (view[t] = "gone") ~>
            /\ shell[t] \in {"none", "exited", "failed", "killed"}
            /\ t \in lease => shell[t] = "failed"

(* A shell that ends by itself takes its tab with it, and a drawer says    *)
(* so (router.ts).                                                         *)
ExitClosesTheTab ==
    \A t \in Tabs :
        (shell[t] = "exited") ~> \/ view[t] = "gone"
                                 \/ view[t] = "ended" /\ kind[t] = "drawer"

(* "The shell's last words land before the exit notice that closes the     *)
(* tab" (pty.ts): when the notice closes it, no output is still to come,   *)
(* and none came before there was a listener for it.                       *)
LastWordsArrive ==
    [][\A t \in Tabs :
          ExitArrives(t) /\ view[t] = "open" =>
              OnTheirWay(t) = 0 /\ t \notin missed]_terminalVars

(* What the shell reads is what was typed, in that order and with nothing  *)
(* in between: the opening commands, then the user's, chunk by chunk.      *)
InputInOrder == [][\A t \in Tabs : received[t] <= received'[t]]_received

=============================================================================
