------------------------------- MODULE RdpTab -------------------------------
(***************************************************************************)
(* A remote desktop inside the application: the tab with IronRDP's client  *)
(* (screens/RdpView), the session the main process opens for it            *)
(* (ipc/rdpEmbedded), the gateway the client connects through              *)
(* (core/rdp/gateway) and the certificates trusted on first use            *)
(* (core/rdp/knownCerts).                                                  *)
(*                                                                         *)
(* Each call of connect() is an attempt; the main process opens at most one*)
(* session for it, so the attempt names the session and its token.  Bytes  *)
(* of RDP, passwords and the picture are left out.                         *)
(***************************************************************************)
EXTENDS Integers, Sequences, FiniteSets

CONSTANTS
    Tabs, Targets, Certs, None,
    Target,         \* [Tabs -> Targets]: certificateKey() of the tab's profile
    Presents,       \* [Targets -> Certs]: what each server presents
    Tunnelled,      \* tabs whose profile has viaHost
    AsksFirst,      \* tabs whose profile stores no password
    MaxAttempts     \* bound: connect() calls in one behaviour

Attempts == 1..MaxAttempts

VARIABLES
    tab,        \* what the component of each tab holds
    attempt,    \* the connect() calls
    session,    \* what the main process has opened for each
    shake,      \* the gateway's handshake of each
    known,      \* known certificates on disk, by target, as they can be read
    queue,      \* checkCertificate() calls, one after the other
    checking,   \* what the first of them has read; None before
    forgets,    \* forgetCertificate() of each tab: what it has read
    writing,    \* ... and the file it has open for that, or had before a rename
    misread     \* history: the first check's reading failed, or a forget wrote since

vars == <<tab, attempt, session, shake, known, queue, checking, forgets, writing, misread>>
certs == <<known, queue, checking, forgets, writing, misread>>

(* beside: history, whether it began while another of the tab still ran.  *)
(* typed: credentials entered in the tab; changed: certificateChanged.     *)
NewTab == [phase |-> "connecting", token |-> 0, typed |-> FALSE, changed |-> FALSE,
           trusting |-> FALSE]
NoAttempt == [tab |-> None, at |-> "none", beside |-> FALSE]
(* asked: rdp_embedded_open; target: gateway.targets has its token;        *)
(* listed: open has it; failure: gateway.failures.                         *)
NoSession == [asked |-> "no", ssh |-> FALSE, target |-> FALSE, listed |-> FALSE,
              failure |-> "none"]
NoShake == [at |-> "none", ws |-> FALSE, tls |-> FALSE]

(* load(): a file that is not there, cannot be read or is half written is  *)
(* an empty list to whoever reads it.                                      *)
Nothing == [g \in Targets |-> None]
Readings == {known, Nothing}

TypeOK ==
    /\ tab \in [Tabs -> [phase : {"connecting", "credentials", "connected", "ended",
                                  "failed", "closed"},
                         token : Attempts \cup {0}, typed : BOOLEAN, changed : BOOLEAN,
                         trusting : BOOLEAN]]
    /\ attempt \in [Attempts -> [tab : Tabs \cup {None},
           at : {"none", "viewer", "open", "connect", "run", "failing", "over"}, beside : BOOLEAN]]
    /\ session \in [Attempts -> [asked : {"no", "asked", "ready", "credentials", "refused", "read"},
           ssh : BOOLEAN, target : BOOLEAN, listed : BOOLEAN,
           failure : {"none", "changed", "other"}]]
    /\ shake \in [Attempts -> [at : {"none", "sent", "establish", "verify", "relay", "failed"},
                               ws : BOOLEAN, tls : BOOLEAN]]
    /\ known \in [Targets -> Certs \cup {None}]
    /\ queue \in Seq(Attempts)
    /\ checking \in [Targets -> Certs \cup {None}] \cup {None}
    /\ forgets \in [Tabs -> [Targets -> Certs \cup {None}] \cup {None}]
    /\ writing \in [Tabs -> {"no", "open", "replaced"}] /\ misread \in BOOLEAN

Init ==
    /\ tab = [t \in Tabs |-> NewTab]
    /\ attempt = [i \in Attempts |-> NoAttempt]
    /\ session = [i \in Attempts |-> NoSession]
    /\ shake = [i \in Attempts |-> NoShake]
    /\ known \in [Targets -> Certs \cup {None}]   \* from earlier runs
    /\ queue = <<>> /\ checking = None
    /\ forgets = [t \in Tabs |-> None]
    /\ writing = [t \in Tabs |-> "no"] /\ misread = FALSE

At(i, step) == attempt[i].at = step
Tab(i) == attempt[i].tab
Closed(t) == tab[t].phase = "closed"
Goes(i, step) == attempt' = [attempt EXCEPT ![i].at = step]
Started(t) == \E i \in Attempts : attempt[i].tab = t

-----------------------------------------------------------------------------
(* The tab *)

(* connect(): nothing keeps a second call from running beside the first.   *)
Begin(t, next) ==
    \E i \in Attempts :
        /\ attempt[i].at = "none" /\ \A j \in 1..(i - 1) : attempt[j].at # "none"
        /\ attempt' = [attempt EXCEPT ![i] = [tab |-> t, at |-> "viewer", beside |->
               \E j \in 1..(i - 1) : Tab(j) = t /\ ~At(j, "over")]]
        /\ tab' = [tab EXCEPT ![t] = [next EXCEPT !.phase = "connecting", !.changed = FALSE]]

Mount(t) ==
    /\ ~Started(t) /\ ~Closed(t) /\ Begin(t, tab[t])
    /\ UNCHANGED <<session, shake, certs>>

Reconnect(t) ==
    /\ tab[t].phase \in {"ended", "failed"} /\ Begin(t, tab[t])
    /\ UNCHANGED <<session, shake, certs>>

SignIn(t) ==
    /\ tab[t].phase = "credentials" /\ Begin(t, [tab[t] EXCEPT !.typed = TRUE])
    /\ UNCHANGED <<session, shake, certs>>

(* trustNewCertificate(): forgetCertificate() reads and writes the file    *)
(* outside the queue of the checks, and only then the tab connects again.  *)
Trust(t) ==
    /\ tab[t].phase = "failed" /\ tab[t].changed /\ ~tab[t].trusting
    /\ tab' = [tab EXCEPT ![t].trusting = TRUE]
    /\ \E list \in Readings : forgets' = [forgets EXCEPT ![t] = list]
    /\ UNCHANGED <<attempt, session, shake, known, queue, checking, writing, misread>>

Forgetting(t) == forgets[t] # None /\ forgets[t][Target[t]] # None

(* writeFile() in place: opening the file empties it.                      *)
ForgetOpens(t) ==
    /\ Forgetting(t) /\ writing[t] = "no"
    /\ writing' = [writing EXCEPT ![t] = "open"]
    /\ known' = Nothing /\ misread' = TRUE
    /\ UNCHANGED <<tab, attempt, session, shake, queue, checking, forgets>>

ForgetEnds(t) ==
    /\ forgets' = [forgets EXCEPT ![t] = None]
    /\ writing' = [writing EXCEPT ![t] = "no"]
    /\ UNCHANGED <<attempt, session, shake, queue, checking>>

(* Over another forget's list the end of that may stick out: not readable. *)
(* A file replaced meanwhile is no longer the one that is written.         *)
ForgetWrites(t) ==
    /\ writing[t] # "no"
    /\ LET left == [forgets[t] EXCEPT ![Target[t]] = None]
       IN IF writing[t] = "open"
          THEN known' \in {left, IF known = Nothing THEN left ELSE Nothing} /\ misread' = TRUE
          ELSE UNCHANGED <<known, misread>>
    /\ ForgetEnds(t) /\ UNCHANGED tab

ForgetsNothing(t) ==
    /\ forgets[t] # None /\ ~Forgetting(t)
    /\ ForgetEnds(t) /\ UNCHANGED <<tab, known, misread>>

(* The file cannot be opened, or stays half written: no new connection.    *)
ForgetFails(t) ==
    /\ Forgetting(t)
    /\ IF writing[t] = "open"
       THEN known' = Nothing /\ misread' = TRUE ELSE UNCHANGED <<known, misread>>
    /\ tab' = [tab EXCEPT ![t].trusting = FALSE]
    /\ ForgetEnds(t)

Forget(t) == ForgetOpens(t) \/ ForgetWrites(t) \/ ForgetsNothing(t) \/ ForgetFails(t)

Trusted(t) ==
    /\ tab[t].trusting /\ forgets[t] = None /\ ~Closed(t)
    /\ Begin(t, [tab[t] EXCEPT !.trusting = FALSE])
    /\ UNCHANGED <<session, shake, certs>>

(* closeSession() in the main process.                                     *)
CloseSessions(gone) ==
    session' = [i \in Attempts |-> IF i \notin gone THEN session[i]
        ELSE [session[i] EXCEPT !.ssh = FALSE, !.target = FALSE, !.listed = FALSE,
                                !.failure = "none"]]

(* Mutant: the token is given back by a failed attempt only. *)
LeavesIfFailed(i, t, next) ==
    LET drops == next.token # 0 /\ next.phase = "failed" IN
    /\ Goes(i, "over")
    /\ tab' = [tab EXCEPT ![t] = IF drops THEN [next EXCEPT !.token = 0] ELSE next]
    /\ CloseSessions(IF drops THEN {next.token} ELSE {})

(* The end of connect(), its finally included: the tab's token, whichever  *)
(* attempt it is from, is closed unless a session is connected.            *)
Leaves(i, t, next) ==
    LET drops == next.token # 0 /\ next.phase # "connected" IN
    /\ Goes(i, "over")
    /\ tab' = [tab EXCEPT ![t] = IF drops THEN [next EXCEPT !.token = 0] ELSE next]
    /\ CloseSessions(IF drops THEN {next.token} ELSE {})

(* loadIronRdp() and the element's 'ready'; either may fail.               *)
ViewerReady(i) ==
    /\ At(i, "viewer") /\ ~Closed(Tab(i)) /\ Goes(i, "open")
    /\ session' = [session EXCEPT ![i].asked = "asked"]
    /\ UNCHANGED <<tab, shake, certs>>

Fails(i) ==
    IF tab[Tab(i)].token # 0
    THEN Goes(i, "failing") /\ UNCHANGED <<tab, session>>
    ELSE Leaves(i, Tab(i), [tab[Tab(i)] EXCEPT !.phase = "failed"])

ViewerFails(i) ==
    /\ At(i, "viewer") /\ ~Closed(Tab(i)) /\ Fails(i)
    /\ UNCHANGED <<shake, certs>>

(* if (destroyed) return -- whatever the answer brings.                    *)
Abandoned(i) ==
    /\ Tab(i) # None /\ Closed(Tab(i))
    /\ \/ At(i, "viewer") \/ At(i, "failing")
       \/ At(i, "open") /\ session[i].asked \in {"ready", "credentials", "refused"}
       \/ (At(i, "connect") \/ At(i, "run")) /\ ~shake[i].ws
    /\ Leaves(i, Tab(i), tab[Tab(i)])
    /\ UNCHANGED <<shake, certs>>

AsksForCredentials(i) ==
    /\ At(i, "open") /\ session[i].asked = "credentials" /\ ~Closed(Tab(i))
    /\ Leaves(i, Tab(i), [tab[Tab(i)] EXCEPT !.phase = "credentials"])
    /\ UNCHANGED <<shake, certs>>

OpenRefused(i) ==
    /\ At(i, "open") /\ session[i].asked = "refused" /\ ~Closed(Tab(i))
    /\ Fails(i)
    /\ UNCHANGED <<shake, certs>>

Opened(i) ==
    /\ At(i, "open") /\ session[i].asked = "ready" /\ ~Closed(Tab(i))
    /\ Goes(i, "connect")
    /\ tab' = [tab EXCEPT ![Tab(i)].token = i]
    /\ shake' = [shake EXCEPT ![i] = [at |-> "sent", ws |-> TRUE, tls |-> FALSE]]
    /\ UNCHANGED <<session, certs>>

(* ui.connect() resolves once the server has signed the user in.           *)
Connected(i) ==
    /\ At(i, "connect") /\ shake[i].at = "relay" /\ shake[i].ws /\ ~Closed(Tab(i))
    /\ Goes(i, "run")
    /\ tab' = [tab EXCEPT ![Tab(i)].phase = "connected"]
    /\ UNCHANGED <<session, shake, certs>>

(* The gateway closed the web socket, or the server refuses the sign-in.   *)
ConnectFails(i) ==
    /\ At(i, "connect") /\ shake[i].at \in {"relay", "failed"} /\ ~Closed(Tab(i))
    /\ shake' = [shake EXCEPT ![i].ws = FALSE, ![i].tls = FALSE]
    /\ Fails(i)
    /\ UNCHANGED <<certs>>

(* rdp_embedded_status of the token the tab has by now.                    *)
Explained(i) ==
    /\ At(i, "failing") /\ ~Closed(Tab(i))
    /\ LET t == Tab(i)
           why == IF tab[t].token = 0 THEN "none" ELSE session[tab[t].token].failure
       IN Leaves(i, t, [tab[t] EXCEPT !.phase = "failed", !.changed = (why = "changed"),
                                      !.typed = @ /\ why # "none"])
    /\ UNCHANGED <<shake, certs>>

Ended(i) ==
    /\ At(i, "run") /\ ~Closed(Tab(i))
    /\ shake' = [shake EXCEPT ![i].ws = FALSE, ![i].tls = FALSE]
    /\ Leaves(i, Tab(i), [tab[Tab(i)] EXCEPT !.phase = "ended"])
    /\ UNCHANGED <<certs>>

(* onDestroy: the client is shut down and the token, if there is one by    *)
(* now, closed.  The gateway's relay destroys the TLS side with its socket.*)
CloseTab(t) ==
    /\ ~Closed(t)
    /\ tab' = [tab EXCEPT ![t].phase = "closed", ![t].token = 0]
    /\ CloseSessions({tab[t].token} \ {0})
    /\ shake' = [i \in Attempts |-> IF Tab(i) # t THEN shake[i] ELSE
           [shake[i] EXCEPT !.ws = FALSE, !.tls = @ /\ shake[i].at # "relay"]]
    /\ UNCHANGED <<attempt, certs>>

-----------------------------------------------------------------------------
(* The main process *)

OpenFails(i) ==
    /\ session[i].asked = "asked"
    /\ session' = [session EXCEPT ![i].asked = "refused"]
    /\ UNCHANGED <<tab, attempt, shake, certs>>

NeedsCredentials(i) ==
    /\ session[i].asked = "asked"
    /\ Tab(i) \in AsksFirst /\ ~tab[Tab(i)].typed
    /\ session' = [session EXCEPT ![i].asked = "credentials"]
    /\ UNCHANGED <<tab, attempt, shake, certs>>

Ready(i) ==
    /\ session[i].asked = "asked"
    /\ Tab(i) \in AsksFirst => tab[Tab(i)].typed
    /\ session' = [session EXCEPT ![i] = [@ EXCEPT !.asked = "ready", !.target = TRUE,
                                     !.listed = TRUE, !.ssh = Tab(i) \in Tunnelled]]
    /\ UNCHANGED <<tab, attempt, shake, certs>>

Refuse(i, why) ==
    /\ shake' = [shake EXCEPT ![i].at = "failed", ![i].ws = FALSE, ![i].tls = FALSE]
    /\ session' = [session EXCEPT ![i].failure = why]

(* Mutant: a token that is not known gets no answer. *)
HandshakeSilent(i) ==
    /\ shake[i].at = "sent" /\ session[i].target
    /\ session' = [session EXCEPT ![i].target = FALSE]
    /\ shake' = [shake EXCEPT ![i].at = "establish"]
    /\ UNCHANGED <<tab, attempt, certs>>

(* The web socket's first message: a token gets one connection.            *)
Handshake(i) ==
    /\ shake[i].at = "sent"
    /\ IF session[i].target
       THEN /\ session' = [session EXCEPT ![i].target = FALSE]
            /\ shake' = [shake EXCEPT ![i].at = "establish"]
       ELSE Refuse(i, session[i].failure)
    /\ UNCHANGED <<tab, attempt, certs>>

(* establish(): the server, through the tunnel where there is one; then TLS.*)
Established(i) ==
    /\ shake[i].at = "establish"
    /\ Tab(i) \in Tunnelled => session[i].ssh
    /\ shake' = [shake EXCEPT ![i].at = "verify", ![i].tls = TRUE]
    /\ queue' = Append(queue, i)
    /\ UNCHANGED <<tab, attempt, session, known, checking, forgets, writing, misread>>

EstablishFails(i) ==
    /\ shake[i].at = "establish"
    /\ Refuse(i, "other")
    /\ UNCHANGED <<tab, attempt, certs>>

(* checkCertificate(): read the file ...                                   *)
CheckReads ==
    /\ queue # <<>> /\ checking = None
    /\ checking' \in Readings /\ misread' = (checking' # known)
    /\ UNCHANGED <<tab, attempt, session, shake, known, queue, forgets, writing>>

Remembered(i) == checking[Target[Tab(i)]]
Presented(i) == Presents[Target[Tab(i)]]

(* A first certificate is remembered: the file is written aside and renamed*)
(* over the one there is, also over one a forget has open.                 *)
Learns(i) ==
    /\ known' = [checking EXCEPT ![Target[Tab(i)]] = Presented(i)]
    /\ writing' = [t \in Tabs |-> IF writing[t] = "open" THEN "replaced" ELSE writing[t]]

Relays(i) == shake' = [shake EXCEPT ![i].at = "relay"] /\ UNCHANGED session

(* Mutant: the file is read once, and the next check goes by that. *)
CheckAnswersCached ==
    /\ checking # None /\ queue # <<>>
    /\ LET i == Head(queue) IN
        /\ IF Remembered(i) = None THEN Learns(i) ELSE UNCHANGED <<known, writing>>
        /\ Relays(i)
    /\ queue' = Tail(queue)
    /\ UNCHANGED <<tab, attempt, checking, forgets, misread>>

(* ... and answer by it; a list that cannot be saved refuses the server.   *)
(* A web socket that closed meanwhile is relayed to all the same.          *)
CheckAnswers ==
    /\ checking # None
    /\ LET i == Head(queue) IN
        \/ Remembered(i) = None /\ Learns(i) /\ Relays(i)
        \/ Remembered(i) = None /\ Refuse(i, "other") /\ UNCHANGED <<known, writing>>
        \/ /\ Remembered(i) = Presented(i)
           /\ Relays(i) /\ UNCHANGED <<known, writing>>
        \/ /\ Remembered(i) \notin {None, Presented(i)}
           /\ Refuse(i, "changed") /\ UNCHANGED <<known, writing>>
    /\ queue' = Tail(queue) /\ checking' = None
    /\ UNCHANGED <<tab, attempt, forgets, misread>>

(* The far end closes: without a partner nothing else would.               *)
ServerCloses(i) ==
    /\ shake[i].tls /\ shake[i].at = "relay" /\ ~shake[i].ws
    /\ shake' = [shake EXCEPT ![i].tls = FALSE]
    /\ UNCHANGED <<tab, attempt, session, certs>>

-----------------------------------------------------------------------------
Step(i) ==
    \/ ViewerReady(i) \/ ViewerFails(i) \/ Abandoned(i) \/ AsksForCredentials(i)
    \/ OpenRefused(i) \/ Opened(i) \/ Connected(i) \/ ConnectFails(i) \/ Explained(i)
    \/ Ended(i) \/ OpenFails(i) \/ NeedsCredentials(i) \/ Ready(i) \/ Handshake(i)
    \/ Established(i) \/ EstablishFails(i) \/ ServerCloses(i)

Next ==
    \/ \E i \in Attempts : Step(i)
    \/ \E t \in Tabs :
        Mount(t) \/ Reconnect(t) \/ SignIn(t) \/ Trust(t) \/ Forget(t) \/ Trusted(t) \/ CloseTab(t)
    \/ CheckReads \/ CheckAnswers

(* Every connection attempt and every check gets its answer; users and     *)
(* servers are free.                                                       *)
Fairness ==
    /\ \A i \in Attempts :
        /\ WF_vars(ViewerReady(i) \/ ViewerFails(i)) /\ WF_vars(Abandoned(i))
        /\ WF_vars(OpenFails(i) \/ NeedsCredentials(i) \/ Ready(i))
        /\ WF_vars(AsksForCredentials(i) \/ OpenRefused(i) \/ Opened(i))
        /\ WF_vars(Handshake(i) \/ Established(i) \/ EstablishFails(i))
        /\ WF_vars(Connected(i) \/ ConnectFails(i)) /\ WF_vars(Explained(i))
    /\ WF_vars(CheckReads \/ CheckAnswers)

Spec == Init /\ [][Next]_vars /\ Fairness

-----------------------------------------------------------------------------
(* Once a tab has its token, the SSH connection behind it never outlives   *)
(* the attempt: failed, ended, or closed with the tab at any moment.  Two  *)
(* connect() calls running at once share the token, and are exempt.        *)
SessionGoesWithItsTab ==
    \A i \in Attempts :
        session[i].listed /\ attempt[i].at = "over" =>
            \/ Closed(Tab(i)) /\ shake[i].at = "none"   \* closed while opening
            \/ \E j \in Attempts : Tab(j) = Tab(i) /\ attempt[j].beside

(* Closing the tab gives the SSH connection back (RdpView's onDestroy).    *)
ClosedTabFreesSession ==
    \A i \in Attempts :
        session[i].ssh /\ Closed(Tab(i)) ~> ~session[i].ssh

(* "Two first connections at once must not overwrite each other's entry"   *)
(* (knownCerts.ts): what a check writes keeps what is known, if its reading*)
(* was one of the whole file and no forget, which no queue holds, wrote    *)
(* before its own writing.                                                 *)
KeepsWhatItLearned ==
    [][\A g \in Targets :
        known[g] # None /\ known'[g] # known[g] => misread \/ \E t \in Tabs : Forget(t)]_vars

(* Forgotten, "so the next connection trusts whatever it gets".            *)
NextOneIsTrusted ==
    \A t \in Tabs : tab[t].trusting /\ forgets[t] = None =>
        known[Target[t]] \in {None, Presents[Target[t]]}

(* A connection attempt ends: connected, asking, failed or with its tab.   *)
AttemptsSettle ==
    \A i \in Attempts :
        attempt[i].at = "viewer" ~> attempt[i].at \in {"run", "over"}

=============================================================================
