------------------------------ MODULE Dialling ------------------------------
(***************************************************************************)
(* Opening one SSH connection (connectAndAuth() in packages/electron/src/  *)
(* core/ssh/session.ts, with jump.ts, knownHosts.ts and the secrets of     *)
(* onePassword.ts) and the connecting screen that follows it.              *)
(*                                                                         *)
(* A call resolves its ProxyJump chain and connects hop by hop, each       *)
(* through the one before, the target last.  A hop's address and password  *)
(* may have to be read from 1Password; the server's key is checked against *)
(* known_hosts, and learned when nothing is recorded; then the methods are *)
(* offered, all on one connection, and each on a fresh one when the server *)
(* hangs up before it has seen them all.  A hop that fails ends the hops   *)
(* before it.  Every wait has its timeout.                                 *)
(***************************************************************************)
EXTENDS JumpChain, FiniteSets

CONSTANTS Calls,       \* connections being opened side by side
          Wanted,      \* Wanted[c]: the names of the hosts a call may be for
          Lists,       \* host lists the app may have loaded
          Machines,    \* keys: a private key or agent is there; readable: known_hosts
          Ends,        \* endpoints: servers
          HostKeys,    \* host keys a server may show
          MaxChanges,  \* times a server changes its key
          MaxDeaths    \* connected bastions that drop

\* A host list is a sequence of hosts, whose proxyJump values are sequences of hops.
ASSUME ListAssumption ==
  \A list \in Lists :
    /\ list \in Seq(Range(list))
    /\ \A h \in Range(list) : "jump" \in DOMAIN h /\ h.jump \in Seq(Range(h.jump))

VARIABLES
  known,     \* the loaded host list
  keyFiles, readable,   \* of this machine
  file,      \* the lines of known_hosts: endpoint and key
  appends,   \* learnKnownHost() in flight: call, connection, endpoint, key
  keyOf,     \* the key each server has
  changes, deaths,
  call,      \* call[c]: one connectAndAuth()
  screen     \* the step the tab's connecting screen is at

dialVars == <<known, keyFiles, readable, file, appends, keyOf, changes, deaths,
              call, screen>>

NoKey == "no key"
Methods == {"key", "password"}
Busy    == {"resolving", "tunnel", "methods", "reach", "checking", "learning", "auth"}
Reasons == {"", "chain", "onePassword", "tunnel", "reach", "hostKey", "auth"}

Idle == [at |-> "idle", target |-> {}, chain |-> <<>>, hop |-> 0, up |-> {},
         methods |-> <<>>, next |-> 0, single |-> 0, tried |-> {},
         shown |-> NoKey, knew |-> {}, reached |-> FALSE, shook |-> FALSE,
         why |-> ""]

\* up: the hops that are connected; single: 0 on the first connection, else the
\* method a connection of its own is for; tried: the methods that had a turn;
\* knew: if any key was recorded when the server showed its own, those and the
\* ones being recorded.
DialTypeOK ==
  /\ known \in Lists /\ keyFiles \in BOOLEAN /\ readable \in BOOLEAN
  /\ file \subseteq Ends \X HostKeys
  /\ keyOf \in [Ends -> HostKeys]
  /\ changes \in 0 .. MaxChanges /\ deaths \in 0 .. MaxDeaths
  /\ \A c \in Calls :
       /\ call[c].at \in Busy \cup {"idle", "open", "failed", "closed"}
       /\ call[c].hop \in 0 .. Len(call[c].chain) + 1
       /\ call[c].up \subseteq 1 .. call[c].hop
       /\ Range(call[c].methods) \subseteq Methods
       /\ call[c].tried \subseteq Methods
       /\ call[c].why \in Reasons
  /\ screen \in [Calls -> {"none", "onePassword", "jump", "reach", "hostKey", "signIn"}]

DialInit ==
  /\ known \in Lists
  /\ \E m \in Machines : keyFiles = m.keys /\ readable = m.readable
  /\ file = {} /\ appends = {}
  /\ keyOf \in {[e \in Ends |-> k] : k \in {CHOOSE k \in HostKeys : TRUE}}
  /\ changes = 0 /\ deaths = 0
  /\ call = [c \in Calls |-> Idle]
  /\ screen = [c \in Calls |-> "none"]

Machine == <<known, keyFiles, readable>>
World   == <<keyOf, changes, deaths>>

-----------------------------------------------------------------------------
(* The hop being connected, and the screen *)

IsTarget(r) == r.hop > Len(r.chain)
Host(r)     == IF IsTarget(r) THEN r.target ELSE r.chain[r.hop]
Direct(r)   == r.hop = 1
\* The bastion the hop is reached through is still there.
Carried(r)  == Direct(r) \/ r.hop - 1 \in r.up

Order == <<"none", "onePassword", "jump", "reach", "hostKey", "signIn">>
Place(stage) == CHOOSE i \in DOMAIN Order : Order[i] = stage

\* sshConnectSteps(): which steps the screen shows for a host.
Steps(h) ==
  {"reach", "hostKey", "signIn"}
    \cup (IF h.op \/ h.password = "ref" THEN {"onePassword"} ELSE {})
    \cup (IF h.jump # <<>> THEN {"jump"} ELSE {})

\* advance(): never back to an earlier step, and never to one it does not have.
advance(h, current, stage) ==
  IF stage \in Steps(h) /\ Place(stage) > Place(current) THEN stage ELSE current

(* Mutant: a jump host's own steps are reported as the target's. *)
ReportAll(c, r, stage) == screen' = [screen EXCEPT ![c] = advance(r.target, @, stage)]

\* reportConnectStage(): what a jump host's own connection reaches is not told.
Report(c, r, stage) ==
  screen' = IF IsTarget(r) \/ stage = "jump"
            THEN [screen EXCEPT ![c] = advance(r.target, @, stage)] ELSE screen

\* stageOfError(): the step the screen reads out of the error.  One met on the
\* way through a chain says "via", whatever went wrong there.
stageOfError(r, why) ==
  IF why = "chain" THEN "none"
  ELSE IF r.chain # <<>> THEN "jump"
  ELSE IF why = "auth" THEN "signIn" ELSE why

(* Mutant: the bastions of a chain that failed are left connected. *)
HopFailsAlone(c, r, why) ==
  /\ call' = [call EXCEPT ![c] = [r EXCEPT !.at = "failed", !.why = why]]
  /\ screen' = [screen EXCEPT ![c] = advance(r.target, @, stageOfError(r, why))]

\* A hop that fails ends every bastion connected for it.
HopFails(c, r, why) ==
  /\ call' = [call EXCEPT ![c] = [r EXCEPT !.at = "failed", !.why = why, !.up = {}]]
  /\ screen' = [screen EXCEPT ![c] = advance(r.target, @, stageOfError(r, why))]

\* The next hop of the chain, or the target, begins with its address.
Enter(c, r, hop) ==
  LET next == [r EXCEPT !.at = "resolving", !.hop = hop, !.methods = <<>>,
                        !.single = 0, !.tried = {}, !.shown = NoKey,
                        !.knew = {}, !.reached = FALSE, !.shook = FALSE]
  IN /\ call' = [call EXCEPT ![c] = next]
     /\ IF ~IsTarget(next) THEN Report(c, next, "jump")
        ELSE IF Host(next).op \/ Host(next).password = "ref"
             THEN Report(c, next, "onePassword") ELSE UNCHANGED screen

-----------------------------------------------------------------------------
(* Resolving, and reaching the server *)

Start(c, h) ==
  /\ call[c].at = "idle"
  /\ LET chain == resolveChain(h, known)
         r == [Idle EXCEPT !.target = h, !.chain = chain.hops]
     IN IF chain.ok THEN Enter(c, r, 1) ELSE HopFails(c, r, "chain")
  /\ UNCHANGED <<Machine, World, file, appends>>

\* resolveHostAddress(): 1Password answers, or does not within its 90 s.
Resolved(c) ==
  LET r == call[c] IN
  /\ r.at = "resolving"
  /\ \/ /\ call' = [call EXCEPT ![c].at = IF Direct(r) THEN "methods" ELSE "tunnel"]
        /\ UNCHANGED screen
     \/ Host(r).op /\ HopFails(c, r, "onePassword")
  /\ UNCHANGED <<Machine, World, file, appends>>

\* forwardOut() on the bastion answers with the channel.
TunnelOpens(c) ==
  /\ call[c].at = "tunnel" /\ Carried(call[c])
  /\ call' = [call EXCEPT ![c].at = "methods"]
  /\ UNCHANGED <<Machine, World, file, appends, screen>>

(* Mutant: no timer runs while the bastion opens the channel. *)
TunnelFailsOnlyWhenCutOff(c) ==
  /\ call[c].at = "tunnel" /\ ~Carried(call[c])
  /\ HopFails(c, call[c], "tunnel")
  /\ UNCHANGED <<Machine, World, file, appends>>

\* It refuses, is gone, or has not answered in 10 s.
TunnelFails(c) ==
  /\ call[c].at = "tunnel"
  /\ HopFails(c, call[c], "tunnel")
  /\ UNCHANGED <<Machine, World, file, appends>>

\* authMethods(): the keys there are, then the password, which a reference that
\* cannot be read leaves out.
GatherMethods(c) ==
  LET r == call[c]
      keys == IF keyFiles THEN <<"key">> ELSE <<>>
  IN /\ r.at = "methods"
     /\ \E methods \in {keys \o p :
             p \in CASE Host(r).password = "none"   -> {<<>>}
                     [] Host(r).password = "stored" -> {<<"password">>}
                     [] OTHER -> {<<>>, <<"password">>}} :
          call' = [call EXCEPT ![c] = [r EXCEPT !.at = "reach", !.methods = methods]]
     /\ Report(c, r, "reach")
     /\ UNCHANGED <<Machine, World, file, appends>>

-----------------------------------------------------------------------------
(* One connection: the server's key, then the methods *)

\* The methods this connection offers: all, or the one it was made for.
Offered(r) == IF r.single = 0 THEN r.methods ELSE <<r.methods[r.single]>>

OwnConnection(r, i) ==
  [r EXCEPT !.at = "reach", !.single = i, !.next = 0, !.shown = NoKey, !.knew = {},
            !.tried = @ \cup {r.methods[i]}]

(* Mutant: a server that hung up early is not tried again. *)
ConnectionFailsOnce(c, r, exhausted, verdict) ==
  HopFails(c, r, IF verdict # "" THEN "hostKey"
                 ELSE IF ~r.reached THEN "reach" ELSE "auth")

\* authenticate(), after tryConnect() failed: the key was refused, the server
\* was never reached, it hung up before it saw every method (each then gets a
\* connection of its own, if it was dialled direct), or nothing is left.
ConnectionFails(c, r, exhausted, verdict) ==
  LET again == r.shook /\ ~exhausted /\ Direct(r) /\ Len(r.methods) > 1 IN
  IF r.single = 0 /\ (verdict # "" \/ ~r.reached)
  THEN HopFails(c, r, IF verdict # "" THEN "hostKey" ELSE "reach")
  ELSE IF r.single < Len(r.methods) /\ (r.single > 0 \/ again)
       THEN /\ call' = [call EXCEPT ![c] = OwnConnection(r, r.single + 1)]
            /\ UNCHANGED screen
       ELSE HopFails(c, r, "auth")

\* authenticate() with nothing to offer does not connect at all.
NothingToOffer(c) ==
  /\ call[c].at = "reach" /\ call[c].methods = <<>>
  /\ HopFails(c, call[c], "auth")
  /\ UNCHANGED <<Machine, World, file, appends>>

\* The server was reached: it shows its key.
ShowsKey(c) ==
  LET r == call[c]
      e == Host(r).end
      learned == {l[2] : l \in {l \in file : l[1] = e}}
      pending == {a[4] : a \in {a \in appends : a[3] = e}}
  IN /\ r.at = "reach" /\ r.methods # <<>> /\ Carried(r)
     /\ call' = [call EXCEPT ![c] = [r EXCEPT !.at = "checking", !.shown = keyOf[e],
                                       !.reached = TRUE,
                     !.knew = IF learned = {} THEN {} ELSE learned \cup pending]]
     /\ Report(c, r, "hostKey")
     /\ UNCHANGED <<Machine, World, file, appends>>

Accepted(c, r) ==
  /\ call' = [call EXCEPT ![c] = [r EXCEPT !.at = "auth", !.next = 1, !.shook = TRUE]]
  /\ Report(c, r, "signIn")

\* checkKnownHosts(): no file at all is nothing known.
checkKnownHosts(e, k) ==
  IF file # {} /\ ~readable THEN "unreadable"
  ELSE IF \A l \in file : l[1] # e THEN "unknown"
  ELSE IF <<e, k>> \in file THEN "known-match" ELSE "key-changed"

\* The verifier has read the file: it accepts, learns the key first, or refuses.
Check(c) ==
  LET r == call[c]
      e == Host(r).end
      verdict == checkKnownHosts(e, r.shown)
  IN /\ r.at = "checking"
     /\ CASE verdict = "known-match" -> Accepted(c, r) /\ UNCHANGED appends
          [] verdict = "unknown" ->
               /\ call' = [call EXCEPT ![c].at = "learning"]
               /\ appends' = appends \cup {<<c, <<r.hop, r.single>>, e, r.shown>>}
               /\ UNCHANGED screen
          [] OTHER -> ConnectionFails(c, r, FALSE, verdict) /\ UNCHANGED appends
     /\ UNCHANGED <<Machine, World, file>>

\* learnKnownHost() appends the line, or cannot; either way the key is accepted,
\* if that connection still waits for it.
Learned(a) ==
  LET r == call[a[1]] IN
  /\ appends' = appends \ {a}
  /\ file' \in {file, file \cup {<<a[3], a[4]>>}}
  /\ IF r.at = "learning" /\ <<r.hop, r.single>> = a[2] THEN Accepted(a[1], r)
     ELSE UNCHANGED <<call, screen>>
  /\ UNCHANGED <<Machine, World>>

Tries(r) == [r EXCEPT !.tried = @ \cup {Offered(r)[r.next]}]

\* The server takes the method: the hop is connected, and the next one begins.
SignedIn(c) ==
  LET r == [call[c] EXCEPT !.up = @ \cup {call[c].hop}] IN
  /\ call[c].at = "auth" /\ Carried(call[c])
  /\ IF IsTarget(r) THEN /\ call' = [call EXCEPT ![c] = [r EXCEPT !.at = "open"]]
                         /\ UNCHANGED screen
     ELSE Enter(c, r, r.hop + 1)
  /\ UNCHANGED <<Machine, World, file, appends>>

\* It rejects the method; after the last one the list is exhausted.
Rejected(c) ==
  LET r == Tries(call[c]) IN
  /\ call[c].at = "auth" /\ Carried(call[c])
  /\ IF r.next < Len(Offered(r))
     THEN /\ call' = [call EXCEPT ![c] = [r EXCEPT !.next = @ + 1]]
          /\ UNCHANGED screen
     ELSE ConnectionFails(c, r, TRUE, "")
  /\ UNCHANGED <<Machine, World, file, appends>>

\* The connection is refused, dropped, or not ready within 10 s; or is lost with
\* its key accepted, before the 'handshake' that comes ahead of the first method.
ConnectionLost(c) ==
  LET r == call[c] IN
  /\ r.at \in {"reach", "checking", "learning", "auth"} /\ r.methods # <<>>
  /\ \/ ConnectionFails(c, IF r.at = "auth" THEN Tries(r) ELSE r, FALSE, "")
     \/ /\ r.at = "auth" /\ r.single = 0 /\ r.next = 1
        /\ ConnectionFails(c, [r EXCEPT !.shook = FALSE], FALSE, "")
  /\ UNCHANGED <<Machine, World, file, appends>>

-----------------------------------------------------------------------------
(* Afterwards, and the world *)

\* SshConnection.disconnect(): the target first, then each bastion.
Disconnect(c) ==
  /\ call[c].at = "open"
  /\ call' = [call EXCEPT ![c].at = "closed", ![c].up = {}]
  /\ UNCHANGED <<Machine, World, file, appends, screen>>

\* A connected bastion drops, and what went through it with it.
BastionDies(c, i) ==
  /\ deaths < MaxDeaths /\ i \in call[c].up /\ i <= Len(call[c].chain)
  /\ deaths' = deaths + 1
  /\ call' = [call EXCEPT ![c].up = {j \in @ : j < i}]
  /\ UNCHANGED <<Machine, file, appends, keyOf, changes, screen>>

\* The server is reinstalled, or somebody else answers for it.
KeyChanges(e) ==
  /\ changes < MaxChanges
  /\ changes' = changes + 1
  /\ \E k \in HostKeys \ {keyOf[e]} : keyOf' = [keyOf EXCEPT ![e] = k]
  /\ UNCHANGED <<Machine, file, appends, deaths, call, screen>>

Dials(c) ==
  \/ \E h \in Range(known) : h.name \in Wanted[c] /\ Start(c, h)
  \/ Resolved(c) \/ TunnelOpens(c) \/ TunnelFails(c) \/ GatherMethods(c)
  \/ NothingToOffer(c) \/ ShowsKey(c) \/ Check(c)
  \/ SignedIn(c) \/ Rejected(c) \/ ConnectionLost(c) \/ Disconnect(c)
  \/ \E i \in call[c].up : BastionDies(c, i)

DialNext ==
  \/ \E c \in Calls : Dials(c)
  \/ \E a \in appends : Learned(a)
  \/ \E e \in Ends : KeyChanges(e)

\* The timers run out (90 s for 1Password, 10 s for a channel and for a
\* connection), and reading files ends.
DialFairness ==
  /\ \A c \in Calls :
       /\ WF_dialVars(Resolved(c)) /\ WF_dialVars(TunnelFails(c))
       /\ WF_dialVars(GatherMethods(c)) /\ WF_dialVars(NothingToOffer(c))
       /\ WF_dialVars(ConnectionLost(c))

DialSpec == DialInit /\ [][DialNext]_dialVars /\ DialFairness

-----------------------------------------------------------------------------
(* Properties *)

\* jump.ts:53-56: a host that names a bastion is never connected past it.  The
\* server dialled straight from this machine belongs to a host without a
\* proxyJump, and each later one is reached from the hop before it in the list
\* that names it or, first in its list, from the last hop of its own proxyJump.
Written == {h.jump : h \in Range(known)}
Leads(a, b) ==
  \/ \E l \in Written : \E i \in 2 .. Len(l) :
        resolveHop(l[i - 1], known) = a /\ resolveHop(l[i], known) = b
  \/ b.jump # <<>> /\ resolveHop(Last(b.jump), known) = a

NeverPastTheBastion ==
  \A c \in Calls : call[c].at \in Busy \cup {"open"} =>
    LET r == call[c] IN
    IF Direct(r) THEN Host(r).jump = <<>>
    ELSE Leads(r.chain[r.hop - 1], Host(r))

\* knownHosts.ts:15: once a key is recorded for a server, one that shows a key
\* neither recorded nor being recorded is offered no key and no password.
StrangersGetNothing ==
  \A c \in Calls : call[c].at = "auth" /\ call[c].knew # {} =>
    call[c].shown \in call[c].knew

\* session.ts:400-413: a connection that could not be made leaves none of its
\* bastions connected, and one that is given back leaves nothing.
NothingStaysOpen ==
  \A c \in Calls : call[c].at \in {"failed", "closed"} => call[c].up = {}

\* session.ts:494-497: a server that hangs up early costs no method its turn: a
\* direct connection that got as far as sign-in fails only after every method
\* was offered, or had a connection of its own.
EveryMethodHasItsTurn ==
  \A c \in Calls : LET r == call[c] IN
    r.at = "failed" /\ r.why = "auth" /\ Direct(r) /\ r.shook /\ Len(r.methods) > 1
      => r.tried = Range(r.methods)

\* The connecting screen shows the target's own steps: it is past reaching the
\* server only once the target has shown its key, or the error says so.
ScreenIsTheTargets ==
  \A c \in Calls : call[c].at \in Busy /\ screen[c] \in {"hostKey", "signIn"} =>
    IsTarget(call[c]) /\ call[c].reached

\* Every connection that is begun is made or fails, whoever stays silent.
DialSettles ==
  \A c \in Calls : call[c].at \in Busy ~> call[c].at \in {"open", "failed"}

\* Disagreement, knownHosts.ts:15 "Key changed -> reject": two first connections
\* check before either has learned, and both keys stay recorded.
OneKeyPerServer ==
  \A e \in Ends : Cardinality({l \in file : l[1] = e}) <= 1
=============================================================================
