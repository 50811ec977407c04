-------------------------- MODULE MCAutomationRun --------------------------
(* Automations for TLC, each part explored on its own: a run's nodes, one   *)
(* step's work, and GitHub's steps.  The nodes are an If on the host with a *)
(* node on either way, which join again, a node both of its ways lead to,   *)
(* and a second branch beside.                                              *)
EXTENDS AutomationRun

CONSTANTS ask, yes, no, join, both, side,
          Parts, Kinds, Workflows, Downloads, After, MaxClock, MaxStrays, Blocks, Cancelable

\* 0 is no download: it stands for a file that is not there.
ASSUME DownloadAssumptions == Blocks \in Nat /\ 0 \notin Downloads

VARIABLES
  part,
  kind, condition, work, shell, code, rest, orphaned, dropped, ending, timer, listens,
  stopped, line, aborted, step,
  clock, runs, releases, owed, at, since, follows, late, tag, stoppedRuns,
  got, pos, into, files, part_, dest, shared

workVars == <<kind, condition, work, shell, code, rest, orphaned, dropped, ending, timer,
              listens, stopped, line, aborted, step>>
githubVars == <<clock, runs, releases, owed, at, since, follows, late, tag, stoppedRuns,
                got, pos, into, files, part_, dest, shared>>

Edge(from, to, branch) == [from |-> from, to |-> to, branch |-> branch]

MCNodes == <<ask, side, yes, no, both, join>>
MCEdges == <<Edge(ask, yes, "yes"), Edge(ask, no, "no"),
             Edge(ask, both, "yes"), Edge(ask, both, "no"),
             Edge(yes, join, "any"), Edge(no, join, "any"), Edge(side, join, "any")>>
MCIfs == {ask}
MCRemote == {ask, side, yes}

Work   == INSTANCE StepWork
GitHub == INSTANCE GitHubSteps WITH part <- part_

PartsInit ==
  /\ part \in Parts
  /\ Init /\ Work!WorkInit /\ GitHub!GitHubInit
  /\ part # "run" => lenient = {}
  /\ part # "work" => kind = "local" /\ ~condition

PartsNext ==
  \/ part = "run" /\ Next /\ UNCHANGED <<part, workVars, githubVars>>
  \/ part = "work" /\ Work!WorkNext /\ UNCHANGED <<part, vars, githubVars>>
  \/ part = "follow" /\ GitHub!FollowNext /\ UNCHANGED <<part, vars, workVars>>
  \/ part = "download" /\ GitHub!DownloadNext /\ UNCHANGED <<part, vars, workVars>>

(* The parts' own fairness, each in its part. *)
RunFairness ==
  /\ WF_vars(part = "run" /\ Begin) /\ WF_vars(part = "run" /\ ConnectSettles)
  /\ WF_vars(part = "run" /\ End)
  /\ WF_vars(part = "run" /\ \E n \in NodeSet : Reap(n))
  /\ WF_vars(part = "run" /\ \E n \in NodeSet : HostReady(n))

WorkFairness ==
  /\ WF_workVars(part = "work" /\ Work!Start)
  /\ WF_workVars(part = "work" /\ (Work!Opens \/ Work!OpenFails))
  /\ WF_workVars(part = "work" /\ Work!TimesOut) /\ WF_workVars(part = "work" /\ Work!Closes)
  /\ WF_workVars(part = "work" /\ Work!TransferEnds)
  /\ WF_workVars(part = "work" /\ Work!EndArrives)

PartsSpec ==
  /\ PartsInit /\ [][PartsNext]_<<part, vars, workVars, githubVars>>
  /\ RunFairness /\ WorkFairness /\ GitHub!GitHubFairness   \* nothing begins elsewhere

(* StepWork's and GitHubSteps's properties, stated there. *)
StoppedIsNoSuccess == Work!StoppedIsNoSuccess
StepIsAnswered == Work!StepIsAnswered
CancelStopsTheCommand == Work!CancelStopsTheCommand
NothingGoesOn == Work!NothingGoesOn
TimeoutAnswers == Work!TimeoutAnswers
SuccessMeansItEnded == Work!SuccessMeansItEnded
WorkflowStepEnds == GitHub!WorkflowStepEnds
NeverAnOlderRelease == GitHub!NeverAnOlderRelease
BrokenNeverLooksFinished == GitHub!BrokenNeverLooksFinished
NeverLooksFinished == GitHub!NeverLooksFinished
FollowsItsOwnRun == GitHub!FollowsItsOwnRun
AnswersItsOwnRelease == GitHub!AnswersItsOwnRelease
CanceledReplacesNothing == GitHub!CanceledReplacesNothing
TypesOK == TypeOK /\ Work!WorkTypeOK /\ GitHub!GitHubTypeOK
=============================================================================
