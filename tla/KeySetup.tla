------------------------------ MODULE KeySetup ------------------------------
(***************************************************************************)
(* Automatic key setup of one host: setupKeyForHost() and its state        *)
(* machine (core/ssh/keySetup.ts), run by runKeySetup() (ipc/keysetup.ts). *)
(*                                                                         *)
(* Two local threads and the server.  `inner` is setupKeyInternal(), step  *)
(* by step.  `outer` awaits it under the total timeout and rolls back; it  *)
(* cannot stop inner, which goes on in the background until its session is *)
(* disconnected.  A command that was sent runs on the server when it will, *)
(* also after the step that sent it timed out or lost its connection.      *)
(*                                                                         *)
(* runCommand() ignores exit codes and resolves with what it has when the  *)
(* channel closes: only the markers a script prints tell success from      *)
(* failure, and a lost connection looks like success ("lost" below).       *)
(***************************************************************************)
EXTENDS Naturals

VARIABLES
  sudo,         \* the user may use sudo without a password
  otherKey,     \* the server accepts another key of this machine (agent, default)
  passwordRef,  \* the host's password is a 1Password reference
  wanted,       \* disablePasswordAuth: the user asked to turn passwords off
  server,       \* authorized_keys, sshd_config, what sshd has loaded, the backup
  remote,       \* what became of each command on the server
  up,           \* passwordSession is connected
  inner, outer, \* where the two local threads are
  machine,      \* KeySetupMachine: state and passwordDisabled
  recorded      \* what hosts.toml says now: "none", "key" or "disabled"

choices == <<sudo, otherKey, passwordRef, wanted>>
vars == <<sudo, otherKey, passwordRef, wanted, server, remote, up, inner, outer,
          machine, recorded>>

Commands == {"copy", "sudo", "disable", "reload", "rollback"}
\* "ran": did its work.  "failed": did not.  "refused": printed a NO_... marker.
Fates == {"unsent", "sent", "ran", "failed", "refused"}

States == {"notStarted", "inProgress", "success", "partialSuccess", "failedSafe",
           "needsRollback", "rolledBack"}

TypeOK ==
  /\ {sudo, otherKey, passwordRef, wanted, up} \subseteq BOOLEAN
  /\ server \in [key : BOOLEAN, config : {"yes", "no"}, live : {"yes", "no"},
                 backup : BOOLEAN]
  /\ remote \in [Commands -> Fates]
  /\ inner \in {"new", "generate", "copy", "verify", "sudo", "disable", "reload",
                "final", "returned", "threw"}
  /\ outer \in {"new", "running", "rollback", "ended"}
  /\ machine \in [state : States, passwordDisabled : BOOLEAN]
  /\ recorded \in {"none", "key", "disabled"}

Init ==
  /\ sudo \in BOOLEAN /\ otherKey \in BOOLEAN
  /\ passwordRef \in BOOLEAN /\ wanted \in BOOLEAN
  /\ server = [key |-> FALSE, config |-> "yes", live |-> "yes", backup |-> FALSE]
  /\ remote = [c \in Commands |-> "unsent"]
  /\ up = FALSE
  /\ inner = "new" /\ outer = "new"
  /\ machine = [state |-> "notStarted", passwordDisabled |-> FALSE]
  /\ recorded = "none"

-----------------------------------------------------------------------------
(* The server *)

Fate(c, fate) == remote' = [remote EXCEPT ![c] = fate]

\* A script that was sent runs, to its end: what it changes and what it prints.
RunsOnServer(c) ==
  /\ remote[c] = "sent"
  /\ \/ /\ c = "copy"
        /\ \/ Fate(c, "ran") /\ server' = [server EXCEPT !.key = TRUE]
           \/ Fate(c, "failed") /\ UNCHANGED server
     \/ /\ c = "sudo"
        /\ Fate(c, IF sudo THEN "ran" ELSE "refused") /\ UNCHANGED server
     \/ /\ c = "disable"
        /\ \/ ~sudo /\ Fate(c, "refused") /\ UNCHANGED server
           \/ /\ sudo /\ Fate(c, "ran")
              /\ server' = [server EXCEPT !.config = "no", !.backup = TRUE]
           \/ /\ sudo /\ Fate(c, "failed")      \* no backup could be made, or
              /\ \E made \in BOOLEAN :           \* sshd -t failed: it is restored
                   server' = [server EXCEPT !.backup = made]
     \/ /\ c = "reload"
        /\ \/ Fate(c, "ran") /\ server' = [server EXCEPT !.live = server.config]
           \/ Fate(c, "failed") /\ UNCHANGED server
     \/ /\ c = "rollback"
        /\ \/ ~server.backup /\ Fate(c, "refused") /\ UNCHANGED server
           \/ /\ server.backup /\ Fate(c, "ran")
              /\ server' = [server EXCEPT !.config = "yes", !.live = "yes"]
           \/ server.backup /\ Fate(c, "failed") /\ UNCHANGED server
  /\ UNCHANGED <<choices, up, inner, outer, machine, recorded>>

SessionDrops ==
  /\ up
  /\ up' = FALSE
  /\ UNCHANGED <<choices, server, remote, inner, outer, machine, recorded>>

\* connect(testHost): the new key, another one, or the reference, which testHost
\* keeps when it drops the stored password.
Authenticates == server.key \/ otherKey \/ (passwordRef /\ server.live = "yes")

-----------------------------------------------------------------------------
(* KeySetupMachine *)

\* Mutant: a failed reload counts as a failure before the point of no return.
StepResultReloadSafe(step, ok, hasSudo) ==
  CASE step \in {"generate", "copy", "verify", "disable", "reload"} /\ ~ok -> "failedSafe"
    [] step = "verify" /\ ok /\ ~hasSudo -> "partialSuccess"
    [] step = "final" /\ ~ok -> "needsRollback"
    [] step = "final" /\ ok -> "success"
    [] step = "disable" /\ ok -> machine.state
    [] OTHER -> "inProgress"

\* Mutant: no default case for the steps that only make progress.
StepResultNoDefault(step, ok, hasSudo) ==
  CASE step \in {"generate", "copy", "verify", "disable"} /\ ~ok -> "failedSafe"
    [] step \in {"reload", "final"} /\ ~ok -> "needsRollback"
    [] step = "final" /\ ok -> "success"
    [] OTHER -> "undefined"

\* stepResult(): the machine's state once step ended.
StepResult(step, ok, hasSudo) ==
  CASE step \in {"generate", "copy", "verify", "disable"} /\ ~ok -> "failedSafe"
    [] step = "verify" /\ ok /\ ~hasSudo -> "partialSuccess"
    [] step \in {"reload", "final"} /\ ~ok -> "needsRollback"
    [] step = "final" /\ ok -> "success"
    [] step = "disable" /\ ok -> machine.state    \* leaves the state alone
    [] OTHER -> "inProgress"

Becomes(state) == machine' = [machine EXCEPT !.state = state]

-----------------------------------------------------------------------------
(* setupKeyForHost() and runKeySetup() around it *)

\* runKeySetup(): the session is there; or it is not, and the run is over.
Begin ==
  /\ outer = "new"
  /\ \/ /\ outer' = "running" /\ inner' = "generate" /\ up' = TRUE
     \/ /\ outer' = "ended" /\ UNCHANGED <<inner, up>>
  /\ UNCHANGED <<choices, server, remote, machine, recorded>>

\* Mutant: the run ends without disconnecting its session.
EndConnected == outer' = "ended" /\ UNCHANGED up

\* The two finally blocks: the session is disconnected and the slot is free.
End == outer' = "ended" /\ up' = FALSE

Sent(c) == IF up THEN [remote EXCEPT ![c] = "sent"] ELSE remote

\* The catch of setupKeyForHost(), machine.state being state by now.
Catch(state) ==
  IF state = "needsRollback"
  THEN outer' = "rollback" /\ remote' = Sent("rollback") /\ UNCHANGED up
  ELSE End /\ UNCHANGED remote

\* Mutant: running out of time is always taken to be safe.
TotalTimeoutSafe ==
  /\ outer = "running"
  /\ LET state == StepResult("verify", FALSE, TRUE)
     IN Becomes(state) /\ Catch(state)
  /\ UNCHANGED <<choices, server, inner, recorded>>

\* The total timeout strikes; inner goes on.
TotalTimeout ==
  /\ outer = "running"
  /\ LET step  == IF machine.passwordDisabled THEN "final" ELSE "verify"
         state == StepResult(step, FALSE, TRUE)
     IN Becomes(state) /\ Catch(state)
  /\ UNCHANGED <<choices, server, inner, recorded>>

\* What inner may see of command c: its output, or the close of its channel.
Answers(c) ==
  ({remote[c]} \ {"unsent", "sent"})
    \cup (IF up \/ remote[c] = "unsent" THEN {} ELSE {"lost"})

\* Mutant: emergencyRollback() waits for its answer without a timeout.
RollbackEndsAnswered ==
  /\ outer = "rollback" /\ Answers("rollback") # {}
  /\ machine' = [state |-> "rolledBack", passwordDisabled |-> FALSE]
  /\ End
  /\ UNCHANGED <<choices, server, remote, inner, recorded>>

\* emergencyRollback() returns unless the script found no backup.
RollbackEnds ==
  /\ outer = "rollback"
  /\ \/ /\ \E a \in Answers("rollback") : a # "refused"
        /\ machine' = [state |-> "rolledBack", passwordDisabled |-> FALSE]
     \/ UNCHANGED machine           \* refused, timed out, or could not be sent
  /\ End
  /\ UNCHANGED <<choices, server, remote, inner, recorded>>

-----------------------------------------------------------------------------
(* setupKeyInternal() *)

\* On to the next step: a command is sent if there still is a session.
GoOn(step) ==
  /\ inner' = step
  /\ remote' = IF step \in Commands THEN Sent(step) ELSE remote
  /\ UNCHANGED <<outer, up, recorded>>

\* inner throws with the machine in state; outer catches unless it has moved on.
Throws(state) ==
  /\ inner' = "threw"
  /\ Becomes(state)
  /\ IF outer = "running" THEN Catch(state) ELSE UNCHANGED <<outer, up, remote>>
  /\ UNCHANGED recorded

\* persistKey(): hosts.toml says what was set up -- unless the host is not in it, or
\* it cannot be read or written, which only makes the run end as a failed one.
PersistKey ==
  recorded' \in {IF machine.passwordDisabled THEN "disabled" ELSE "key", recorded}

\* inner returns the key; outer, if it still waits, records it and is done.
Returns(state) ==
  /\ inner' = "returned"
  /\ Becomes(state)
  /\ IF outer = "running"
     THEN End /\ PersistKey
     ELSE UNCHANGED <<outer, up, recorded>>
  /\ UNCHANGED remote

\* generateKeyPair(), and the public key file is read.
Generate ==
  /\ inner = "generate"
  /\ \/ GoOn("copy") /\ Becomes(StepResult("generate", TRUE, TRUE))
     \/ Throws(StepResult("generate", FALSE, TRUE))
     \/ Throws(StepResult("generate", TRUE, TRUE))    \* unusable public key file
  /\ UNCHANGED <<choices, server>>

\* A step's command times out, or could not be sent.
CommandFails(c) ==
  /\ inner = c
  /\ IF c = "sudo"
     THEN Returns(StepResult("verify", TRUE, FALSE))
     ELSE Throws(StepResult(c, FALSE, TRUE))
  /\ UNCHANGED <<choices, server>>

\* Neither the output nor the exit code of the copy is looked at.
CopyAnswered ==
  /\ inner = "copy" /\ Answers("copy") # {}
  /\ GoOn("verify") /\ Becomes(StepResult("copy", TRUE, TRUE))
  /\ UNCHANGED <<choices, server>>

\* Mutant: a failed verification is only noted.
VerifyIgnored ==
  /\ inner = "verify"
  /\ IF wanted
     THEN GoOn("sudo") /\ Becomes(StepResult("verify", TRUE, TRUE))
     ELSE Returns("success")
  /\ UNCHANGED <<choices, server>>

\* Step 3, whose success is all the user wanted if passwords are to stay.
Verify ==
  /\ inner = "verify"
  /\ \/ /\ Authenticates
        /\ IF wanted
           THEN GoOn("sudo") /\ Becomes(StepResult("verify", TRUE, TRUE))
           ELSE Returns("success")
     \/ Throws(StepResult("verify", FALSE, TRUE))
  /\ UNCHANGED <<choices, server>>

SudoAnswered ==
  /\ inner = "sudo"
  /\ \E a \in Answers("sudo") :
       IF a = "refused"
       THEN Returns(StepResult("verify", TRUE, FALSE))
       ELSE GoOn("disable") /\ UNCHANGED machine
  /\ UNCHANGED <<choices, server>>

\* Mutant: REMOTY_CONFIG_ERROR is not looked for.
DisableAnsweredBlind ==
  /\ inner = "disable"
  /\ \E a \in Answers("disable") :
       \/ /\ a = "refused"
          /\ Returns(StepResult("verify", TRUE, FALSE))
       \/ /\ a # "refused"
          /\ GoOn("reload")
          /\ machine' = [state |-> StepResult("disable", TRUE, TRUE),
                         passwordDisabled |-> TRUE]
  /\ UNCHANGED <<choices, server>>

\* Step 4: the script's markers decide; an output without any is a success.
DisableAnswered ==
  /\ inner = "disable"
  /\ \E a \in Answers("disable") :
       \/ /\ a = "refused"
          /\ Returns(StepResult("verify", TRUE, FALSE))
       \/ /\ a = "failed"
          /\ Throws(StepResult("disable", FALSE, TRUE))
       \/ /\ a \in {"ran", "lost"}
          /\ GoOn("reload")
          /\ machine' = [state |-> StepResult("disable", TRUE, TRUE),
                         passwordDisabled |-> TRUE]
  /\ UNCHANGED <<choices, server>>

ReloadAnswered ==
  /\ inner = "reload" /\ Answers("reload") # {}
  /\ GoOn("final") /\ Becomes(StepResult("reload", TRUE, TRUE))
  /\ UNCHANGED <<choices, server>>

FinalCheck ==
  /\ inner = "final"
  /\ \/ Authenticates /\ Returns(StepResult("final", TRUE, TRUE))
     \/ Throws(StepResult("final", FALSE, TRUE))
  /\ UNCHANGED <<choices, server>>

Inner ==
  \/ Generate \/ CopyAnswered \/ Verify \/ SudoAnswered \/ DisableAnswered
  \/ ReloadAnswered \/ FinalCheck
  \/ \E c \in Commands \ {"rollback"} : CommandFails(c)

\* The run is over and so is whatever it left on its way.
Over ==
  /\ outer = "ended" /\ inner \in {"new", "returned", "threw"}
  /\ \A c \in Commands : remote[c] # "sent"
  /\ UNCHANGED vars

Next ==
  \/ Begin \/ Inner \/ TotalTimeout \/ RollbackEnds
  \/ SessionDrops \/ Over
  \/ \E c \in Commands : RunsOnServer(c)

\* Every step is under a timeout of its own (withTimeout, EXEC_TIMEOUT_MS); the
\* server owes nothing.
Fairness == WF_vars(Begin) /\ WF_vars(Inner) /\ WF_vars(RollbackEnds)

Spec == Init /\ [][Next]_vars /\ Fairness

-----------------------------------------------------------------------------
(* Properties *)

\* "Never disable password authentication without verified key auth"
\* (keySetup.ts:17) on a host with a stored password: whatever times out, drops or
\* goes on in the background, sshd_config forbids passwords only when a key works.
KeyAuthFirst ==
  ~passwordRef /\ server.config = "no" => server.key \/ otherKey

\* Once the script reported passwords off, a run that waits leaves them off only from
\* the final check, which has just signed in and makes it a success to be recorded.
\* Anything else, a late timeout and a failed step included, goes through the rollback
\* and does not just give up (keySetup.ts:302-322, keysetup.ts:42-56).
NoReturnWithoutRollback ==
  [][outer = "running" /\ outer' = "ended" /\ machine.passwordDisabled
       => /\ inner = "final" /\ Authenticates /\ machine'.state = "success"
          /\ recorded' \in {"disabled", "none"}]_vars

\* A host is recorded as without passwords, and its stored one dropped, only when
\* its sshd_config says so (keysetup.ts:42-53, 76-81).
RecordsWhatIsSo == recorded = "disabled" => server.config = "no"

\* The step left running in the background sends nothing more once the run has
\* ended and another may start (keysetup.ts:57-62).
NothingSentAfterEnd ==
  [][outer = "ended" => \A c \in Commands : remote[c] = "unsent" => remote'[c] = "unsent"]_vars

\* The slot that allows one run at a time is given back, also when the server
\* never answers (guiState.ts:80-93, keysetup.ts:60-62).
SlotIsReleased == outer # "ended" ~> outer = "ended"

-----------------------------------------------------------------------------
(* What the documentation says and the code does not keep *)

\* "Never disable password authentication without verified key auth"
\* (keySetup.ts:17), on every host.
NeverWithoutKeyAuth == server.config = "no" => server.key \/ otherKey
=============================================================================
