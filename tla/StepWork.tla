------------------------------ MODULE StepWork ------------------------------
(***************************************************************************)
(* The work of one step of an automation: a command on the host            *)
(* (SshSession.runShell), on this computer (runLocalCommand) or in WSL      *)
(* (runWslCommand), the script that finds a WSL file to upload             *)
(* (wslUploadSource), or an upload (uploadOverSession); against its        *)
(* timeout, the limit of its output, the cancel of the run, and the loss   *)
(* of the host's connection.                                               *)
(*                                                                         *)
(* The `shell` is what the runner holds: the process it spawned, or the    *)
(* channel to the host.  A command on this computer may start processes    *)
(* that outlive its shell and hold its output open.  The host stops what a *)
(* closed channel ran.  A killed process goes; that it may take a while    *)
(* covers taskkill.                                                        *)
(***************************************************************************)

CONSTANT Kinds

Local  == {"local", "wsl", "path"}   \* run processes on this computer
InWsl  == {"wsl", "path"}
OnHost == {"remote", "upload"}

VARIABLES
    kind,
    condition, \* the step is an If with a command
    work,      \* the runner's promise: "new" | "opening" | "going" | "settled"
    shell,     \* "none" | "up" | "gone"
    code,      \* the exit code the runner got: "none" | "zero" | "other"
    rest,      \* processes the shell started are going
    orphaned,  \* they were left by a shell that exited, or was killed alone
    dropped,   \* execFile let go of the output
    ending,    \* a kill or a close of the shell is on its way
    timer,     \* the timeout is set
    listens,   \* the runner listens for the cancel
    stopped,   \* what the runner stopped the work for
    line,      \* the host's connection: "up" | "gone"
    aborted,   \* the run is canceled
    step       \* the step: "waiting" or how it ended

workVars == <<kind, condition, work, shell, code, rest, orphaned, dropped, ending,
              timer, listens, stopped, line, aborted, step>>

Reasons == {"timeout", "canceled", "output"}
Ended   == {"success", "yes", "no", "failed", "canceled"}

WorkTypeOK ==
    /\ kind \in Kinds /\ condition \in BOOLEAN
    /\ work \in {"new", "opening", "going", "settled"}
    /\ shell \in {"none", "up", "gone"} /\ code \in {"none", "zero", "other"}
    /\ {rest, orphaned, dropped, ending, timer, listens, aborted} \subseteq BOOLEAN
    /\ stopped \in Reasons \cup {"none"}
    /\ line \in {"up", "gone"} /\ step \in Ended \cup {"waiting"}

(* The step is handed to the runner of its kind (RunAutomationDeps).       *)
WorkInit ==
    /\ kind \in Kinds
    /\ condition \in IF kind \in {"remote", "local", "wsl"} THEN BOOLEAN ELSE {FALSE}
    /\ work = "new" /\ shell = "none" /\ code = "none" /\ stopped = "none"
    /\ rest = FALSE /\ orphaned = FALSE /\ dropped = FALSE /\ ending = FALSE
    /\ timer = FALSE /\ listens = FALSE /\ aborted = FALSE
    /\ line = "up" /\ step = "waiting"

-----------------------------------------------------------------------------
(* How it ends. *)

\* What the runner answers makes of the step, unless the cancel came first
\* (untilCanceled): an If whose command fails answers no.
Settles(ok) ==
    /\ work' = "settled" /\ timer' = FALSE /\ listens' = FALSE
    /\ step' = IF step # "waiting" THEN step
               ELSE IF condition THEN (IF ok THEN "yes" ELSE "no")
               ELSE IF ok THEN "success" ELSE "failed"

\* Mutant: a channel the timeout destroyed is one that closed without a code.
SucceededUntimed ==
    IF kind = "remote" THEN ~aborted /\ code # "other"
    ELSE stopped = "none" /\ code = "zero"

\* The runner's verdict once the shell has closed; a remote command without an
\* exit code succeeded.
Succeeded ==
    IF kind = "remote" THEN ~aborted /\ stopped = "none" /\ code # "other"
    ELSE stopped = "none" /\ code = "zero"

\* Mutant: the shell alone is killed.
KilledAlone ==
    /\ shell' = "gone" /\ code' = "other"
    /\ UNCHANGED rest

\* The process tree is killed: the shell and all it started.
Killed ==
    /\ shell' = "gone" /\ code' = "other"
    /\ rest' = FALSE

\* The work is to stop for `reason`: once, and a shell that has exited is not killed.
Stop(reason) ==
    /\ stopped' = IF stopped = "none" THEN reason ELSE stopped
    /\ ending' = (ending \/ (shell = "up" /\ stopped = "none"))

\* execFile's own kill: the process alone, and its output is let go.
LetsGo ==
    /\ dropped' = TRUE /\ shell' = "gone"
    /\ code' = IF shell = "up" THEN "other" ELSE code
    /\ orphaned' = rest

-----------------------------------------------------------------------------
(* The runner. *)

Start ==
    /\ work = "new" /\ ~aborted
    /\ IF kind \in Local
       THEN work' = "going" /\ shell' = "up" /\ timer' = TRUE /\ listens' = (kind # "path")
       ELSE work' = "opening" /\ UNCHANGED <<shell, timer, listens>>
    /\ UNCHANGED <<kind, condition, code, rest, orphaned, dropped, ending, stopped, line,
                   aborted, step>>

\* There is no such program to start.
SpawnFails ==
    /\ work = "new" /\ ~aborted /\ kind \in Local
    /\ Settles(FALSE)
    /\ UNCHANGED <<kind, condition, shell, code, rest, orphaned, dropped, ending, stopped,
                   line, aborted>>

\* The channel is there; a run canceled by then closes it at once.
Opens ==
    /\ work = "opening" /\ line = "up"
    /\ \/ /\ kind = "remote"
          /\ work' = "going" /\ shell' = "up" /\ timer' = TRUE
          /\ ending' = aborted /\ listens' = ~aborted
          /\ UNCHANGED step
       \/ /\ kind = "upload" /\ ~aborted
          /\ work' = "going" /\ shell' = "up" /\ listens' = TRUE
          /\ UNCHANGED <<timer, ending, step>>
       \/ /\ kind = "upload" /\ aborted
          /\ Settles(FALSE) /\ UNCHANGED <<shell, ending>>
    /\ UNCHANGED <<kind, condition, code, rest, orphaned, dropped, stopped, line, aborted>>

\* No such file to upload, or no channel.
OpenFails ==
    /\ work = "opening"
    /\ Settles(FALSE)
    /\ UNCHANGED <<kind, condition, shell, code, rest, orphaned, dropped, ending, stopped,
                   line, aborted>>

\* Mutant: the timeout stops the wait for a remote command, not its channel.
TimesOutUndestroyed ==
    /\ timer /\ work = "going" /\ timer' = FALSE
    /\ IF kind = "remote" THEN stopped' = "timeout" /\ UNCHANGED <<ending, shell, code, orphaned, dropped>>
       ELSE IF kind = "local" THEN Stop("timeout") /\ UNCHANGED <<shell, code, orphaned, dropped>>
       ELSE LetsGo /\ UNCHANGED ending
            /\ stopped' = IF shell = "up" THEN "timeout" ELSE stopped
    /\ UNCHANGED <<kind, condition, work, rest, listens, line, aborted, step>>

\* The timeout: a remote channel is destroyed, a local process tree killed; execFile
\* kills wsl.exe alone, and lets go of its output.
TimesOut ==
    /\ timer /\ work = "going" /\ timer' = FALSE
    /\ IF kind = "remote"
       THEN stopped' = "timeout" /\ ending' = TRUE /\ UNCHANGED <<shell, code, orphaned, dropped>>
       ELSE IF kind = "local" THEN Stop("timeout") /\ UNCHANGED <<shell, code, orphaned, dropped>>
       ELSE LetsGo /\ UNCHANGED ending
            /\ stopped' = IF shell = "up" THEN "timeout" ELSE stopped
    /\ UNCHANGED <<kind, condition, work, rest, listens, line, aborted, step>>

\* More output than is kept.
TooMuchOutput ==
    /\ kind \in Local /\ work = "going" /\ (shell = "up" \/ rest) /\ ~dropped
    /\ IF kind = "local" THEN Stop("output") /\ UNCHANGED <<shell, code, orphaned, dropped>>
       ELSE stopped' = "output" /\ LetsGo /\ UNCHANGED ending
    /\ UNCHANGED <<kind, condition, work, rest, timer, listens, line, aborted, step>>

\* The run is canceled: the step fails at once, and a runner that listens stops.
Abort ==
    /\ ~aborted /\ work # "new" /\ step = "waiting"
    /\ aborted' = TRUE /\ step' = "canceled"
    /\ IF ~listens THEN UNCHANGED <<stopped, ending>>
       ELSE IF kind = "local" THEN Stop("canceled")
       ELSE ending' = (ending \/ shell = "up") /\ UNCHANGED stopped
    /\ UNCHANGED <<kind, condition, work, shell, code, rest, orphaned, dropped, timer, listens, line>>

\* Nothing keeps the shell's output, or the channel, from closing.
Closed == shell = "gone" /\ (~rest \/ dropped)

\* 'close': the runner answers.
Closes ==
    /\ work = "going" /\ kind # "upload" /\ Closed
    /\ Settles(Succeeded)
    /\ UNCHANGED <<kind, condition, shell, code, rest, orphaned, dropped, ending, stopped,
                   line, aborted>>

\* The channel breaks.
ChannelErrs ==
    /\ work = "going" /\ kind = "remote" /\ shell = "up"
    /\ Settles(FALSE) /\ shell' = "gone"
    /\ UNCHANGED <<kind, condition, code, rest, orphaned, dropped, ending, stopped, line, aborted>>

\* fastPut's callback, and the SFTP channel's end.
TransferEnds ==
    /\ work = "going" /\ kind = "upload"
    /\ \/ Settles(FALSE)
       \/ line = "up" /\ ~ending /\ Settles(TRUE)
    /\ shell' = "gone"
    /\ UNCHANGED <<kind, condition, code, rest, orphaned, dropped, ending, stopped, line, aborted>>

-----------------------------------------------------------------------------
(* The command and the connection. *)

\* The command leaves something running.
Spawns ==
    /\ kind \in Local /\ shell = "up" /\ ~rest
    /\ rest' = TRUE
    /\ UNCHANGED <<kind, condition, work, shell, code, orphaned, dropped, ending, timer,
                   listens, stopped, line, aborted, step>>

ShellExits ==
    /\ kind # "upload" /\ shell = "up"
    /\ shell' = "gone" /\ code' \in {"zero", "other"}
    /\ orphaned' = rest
    /\ UNCHANGED <<kind, condition, work, rest, dropped, ending, timer, listens, stopped,
                   line, aborted, step>>

RestEnds ==
    /\ rest /\ rest' = FALSE
    /\ UNCHANGED <<kind, condition, work, shell, code, orphaned, dropped, ending, timer,
                   listens, stopped, line, aborted, step>>

\* The kill, or the host's answer to the close, arrives.
EndArrives ==
    /\ ending /\ shell = "up" /\ kind # "upload"
    /\ IF kind \in Local THEN Killed ELSE shell' = "gone" /\ UNCHANGED <<code, rest>>
    /\ UNCHANGED <<kind, condition, work, orphaned, dropped, ending, timer, listens,
                   stopped, line, aborted, step>>

\* The connection is lost, or closed with the run; its channels close, without a code.
LineGoes ==
    /\ kind \in OnHost /\ line = "up"
    /\ line' = "gone"
    /\ shell' = IF kind = "remote" /\ shell = "up" THEN "gone" ELSE shell
    /\ UNCHANGED <<kind, condition, work, code, rest, orphaned, dropped, ending, timer,
                   listens, stopped, aborted, step>>

\* Nothing is left to happen.
Over == work = "settled" /\ ~rest /\ UNCHANGED workVars

WorkNext ==
    \/ Start \/ SpawnFails \/ Opens \/ OpenFails \/ TimesOut \/ TooMuchOutput \/ Abort \/ Closes
    \/ ChannelErrs \/ TransferEnds \/ Spawns \/ ShellExits \/ RestEnds \/ EndArrives \/ LineGoes \/ Over

\* A command need not end, nor what it leaves; timers fire, kills and closes arrive,
\* and a host that says nothing is given up by the connection's keepalive.
WorkFairness ==
    /\ WF_workVars(Start) /\ WF_workVars(Opens \/ OpenFails) /\ WF_workVars(TimesOut)
    /\ WF_workVars(Closes) /\ WF_workVars(TransferEnds) /\ WF_workVars(EndArrives)

WorkSpec == WorkInit /\ [][WorkNext]_workVars /\ WorkFairness

-----------------------------------------------------------------------------
(* Properties. *)

\* A step whose work was stopped, by its timeout or its limit, is never a success,
\* nor an If's yes (session.ts:230-236, localExec.ts:126): a remote command without
\* an exit code counts as one, and a destroyed channel has none.
StoppedIsNoSuccess == step \in {"success", "yes"} => stopped = "none"

\* A local command whose shell is gone but whose output is held open.
HeldOpen == kind = "local" /\ shell = "gone" /\ rest

\* Every step is answered, also one whose command never ends, unless a local command
\* left something that holds its output (session.ts:198-201, localExec.ts:96-109).
StepIsAnswered == work # "new" ~> step # "waiting" \/ HeldOpen

\* "The timeout - and a canceled run's signal - actually kill the command and
\* everything it started" (localExec.ts:59-60): a canceled step leaves no channel
\* and no process, but what a shell left that went before the kill reached it.
CancelStopsTheCommand ==
    step = "canceled" ~> shell # "up" /\ (rest => orphaned)

-----------------------------------------------------------------------------
(* What the documentation says and the code does not keep *)

\* "so a hung command doesn't keep running in the background after the engine reports
\* it as timed out" (localExec.ts:62-63), and "Every runner takes the run's `signal`,
\* which stops what it's doing" (engine.ts:395-396).
NothingGoesOn == stopped = "timeout" \/ aborted ~> ~rest /\ shell # "up"

\* The local command's timeout answers the step.
TimeoutAnswers == stopped = "timeout" ~> step # "waiting"

\* A step that succeeds ran to its end (engine.ts:594-601 starts what comes after it).
SuccessMeansItEnded == step \in {"success", "yes"} /\ kind # "upload" => code = "zero"
=============================================================================
