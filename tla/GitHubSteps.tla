---------------------------- MODULE GitHubSteps ----------------------------
(***************************************************************************)
(* The GitHub steps of automations that run side by side, or of a canceled *)
(* run and the next: following a workflow's run to its release             *)
(* (runWorkflow, core/github/steps.ts) and downloading a release's file    *)
(* (downloadAsset), against GitHub as the client asks it.                  *)
(*                                                                         *)
(* Stamps are whole minutes of GitHub's clock, so the 10 s and 5 s the      *)
(* code allows for clocks that differ are no time at all here.  A request  *)
(* is one step, which may fail.  The workflow steps start one workflow on  *)
(* one branch as one user; the downloads are of files with one name.       *)
(***************************************************************************)
EXTENDS Naturals, Sequences, FiniteSets

CONSTANTS
    Workflows,   \* the steps that run a workflow
    Downloads,   \* the steps that download a file
    After,       \* minutes after a run in which a release may be its own
    MaxClock,    \* bound
    MaxStrays,   \* bound: releases no run of the workflow made, and runs no step started
    Blocks,      \* a file's length
    Cancelable   \* bound: the steps whose run may be canceled

VARIABLES
    clock,
    runs,      \* GitHub: the user's runs of the workflow [by, status, created, updated];
               \* by 0 for one started elsewhere
    releases,  \* GitHub: [run, created]; run 0 for a release made otherwise
    owed,      \* dispatches whose run GitHub has not made yet
    at,        \* per workflow step: where runWorkflow() is
    since,     \* per workflow step: when it was started
    follows,   \* per workflow step: the run it follows, 0 when it knows none
    late,      \* workflow steps past the deadline of what they do
    tag,       \* per workflow step: the release it answers with, 0 without one
    stoppedRuns, \* the steps whose run is canceled
    got,       \* per download: where it is
    pos,       \* per download: blocks written
    into,      \* per download: the file it writes, 0 for none yet
    files,     \* per file, named by the download that made it: its blocks
    part, dest,\* the files at <name>.part and at <name>, 0 for none
    shared     \* two downloads wrote to one file, or one removed the other's

followVars   == <<clock, runs, releases, owed, at, since, follows, late, tag>>
downloadVars == <<got, pos, into, files, part, dest, shared>>
githubVars   == <<followVars, downloadVars, stoppedRuns>>

Hole  == 0
Stays == {"idle", "asked", "dispatched", "finding", "following", "listing", "done", "failed"}

GitHubTypeOK ==
    /\ clock \in 0..MaxClock
    /\ runs \in Seq([by : Workflows \cup {0}, status : {"queued", "going", "success", "failure"},
                     created : Nat, updated : Nat])
    /\ releases \in Seq([run : Nat, created : Nat])
    /\ owed \subseteq Workflows /\ late \subseteq Workflows
    /\ at \in [Workflows -> Stays] /\ since \in [Workflows -> Nat]
    /\ follows \in [Workflows -> 0..Len(runs)]
    /\ tag \in [Workflows -> 0..Len(releases)]
    /\ stoppedRuns \subseteq Workflows \cup Downloads
    /\ got \in [Downloads -> {"idle", "asked", "saving", "done", "failed"}]
    /\ pos \in [Downloads -> 0..Blocks] /\ into \in [Downloads -> Downloads \cup {0}]
    /\ files \in [Downloads -> Seq(Downloads \cup {Hole})]
    /\ {part, dest} \subseteq Downloads \cup {0} /\ shared \in BOOLEAN

GitHubInit ==
    /\ clock = 0 /\ runs = <<>> /\ releases = <<>> /\ owed = {} /\ late = {}
    /\ at = [w \in Workflows |-> "idle"] /\ since = [w \in Workflows |-> 0]
    /\ follows = [w \in Workflows |-> 0] /\ tag = [w \in Workflows |-> 0]
    /\ stoppedRuns = {}
    /\ got = [d \in Downloads |-> "idle"] /\ pos = [d \in Downloads |-> 0]
    /\ into = [d \in Downloads |-> 0] /\ files = [d \in Downloads |-> <<>>]
    /\ part = 0 /\ dest = 0 /\ shared = FALSE

-----------------------------------------------------------------------------
(* GitHub, for a step that follows a workflow. *)

Tick ==
    /\ clock < MaxClock
    /\ clock' = clock + 1
    /\ UNCHANGED <<runs, releases, owed, at, since, follows, late, tag, stoppedRuns, downloadVars>>

NewRun(w) == Append(runs, [by |-> w, status |-> "queued", created |-> clock, updated |-> clock])

\* A dispatch that was answered without its run's id becomes a run.
RunAppears(w) ==
    /\ w \in owed
    /\ owed' = owed \ {w} /\ runs' = NewRun(w)
    /\ UNCHANGED <<clock, releases, at, since, follows, late, tag, stoppedRuns, downloadVars>>

\* The user starts the workflow elsewhere.
StrayRun ==
    /\ Cardinality({r \in 1..Len(runs) : runs[r].by = 0}) < MaxStrays
    /\ runs' = NewRun(0)
    /\ UNCHANGED <<clock, releases, owed, at, since, follows, late, tag, stoppedRuns, downloadVars>>

RunGoesOn(r) ==
    /\ \E next \in IF runs[r].status = "queued" THEN {"going"}
                   ELSE IF runs[r].status = "going" THEN {"success", "failure"} ELSE {} :
          runs' = [runs EXCEPT ![r].status = next, ![r].updated = clock]
    /\ UNCHANGED <<clock, releases, owed, at, since, follows, late, tag, stoppedRuns, downloadVars>>

Made(r) == {i \in 1..Len(releases) : releases[i].run = r}

\* A run makes its release, or someone else makes one.
IsReleased(r) ==
    /\ IF r = 0 THEN Cardinality(Made(0)) < MaxStrays ELSE runs[r].status = "going" /\ Made(r) = {}
    /\ releases' = Append(releases, [run |-> r, created |-> clock])
    /\ UNCHANGED <<clock, runs, owed, at, since, follows, late, tag, stoppedRuns, downloadVars>>

-----------------------------------------------------------------------------
(* runWorkflow *)

Step(w, from, to) == at[w] = from /\ at' = [at EXCEPT ![w] = to]

Fails(w) == at' = [at EXCEPT ![w] = "failed"]

Begin(w) ==
    /\ Step(w, "idle", "asked")
    /\ UNCHANGED <<clock, runs, releases, owed, since, follows, late, tag, stoppedRuns, downloadVars>>

\* viewer() has answered: the step counts from now.
KnowsItsUser(w) ==
    /\ Step(w, "asked", "dispatched")
    /\ since' = [since EXCEPT ![w] = clock]
    /\ UNCHANGED <<clock, runs, releases, owed, follows, late, tag, stoppedRuns, downloadVars>>

\* The dispatch is answered, with the run's id by a newer API.
Dispatched(w) ==
    /\ \/ /\ Step(w, "dispatched", "following")
          /\ runs' = NewRun(w) /\ follows' = [follows EXCEPT ![w] = Len(runs')]
          /\ UNCHANGED owed
       \/ /\ Step(w, "dispatched", "finding")
          /\ owed' = owed \cup {w}
          /\ UNCHANGED <<runs, follows>>
    /\ UNCHANGED <<clock, releases, since, late, tag, stoppedRuns, downloadVars>>

\* The sleep between two looks ends the step when its run is canceled.
Sleeps(w) == IF w \in stoppedRuns THEN Fails(w) ELSE UNCHANGED at

Candidates(w) == {r \in 1..Len(runs) : runs[r].created >= since[w]}

\* The user's newest run since the step began; the API's order, newest first, decides
\* between runs of one instant.
Newest(R) == CHOOSE r \in R : \A q \in R : q <= r

\* findDispatchedRun(), again and again.
Finds(w) ==
    /\ at[w] = "finding"
    /\ IF Candidates(w) # {}
       THEN /\ follows' = [follows EXCEPT ![w] = Newest(Candidates(w))]
            /\ at' = [at EXCEPT ![w] = "following"] /\ late' = late \ {w}
       ELSE /\ UNCHANGED <<follows, late>>
            /\ IF w \in late THEN Fails(w) ELSE Sleeps(w)
    /\ UNCHANGED <<clock, runs, releases, owed, since, tag, stoppedRuns, downloadVars>>

\* Mutant: the deadline is looked at only while the run is under way.
LooksWhileGoing(w) ==
    /\ at[w] = "following"
    /\ LET status == runs[follows[w]].status
       IN IF status = "success" THEN at' = [at EXCEPT ![w] = "listing"]
          ELSE IF status = "failure" THEN Fails(w)
          ELSE IF w \in late /\ status = "going" THEN Fails(w) ELSE Sleeps(w)
    /\ UNCHANGED <<clock, runs, releases, owed, since, follows, late, tag, stoppedRuns, downloadVars>>

\* One look at the run.
Looks(w) ==
    /\ at[w] = "following"
    /\ LET status == runs[follows[w]].status
       IN IF status = "success" THEN at' = [at EXCEPT ![w] = "listing"]
          ELSE IF status = "failure" \/ w \in late THEN Fails(w)
          ELSE Sleeps(w)
    /\ UNCHANGED <<clock, runs, releases, owed, since, follows, late, tag, stoppedRuns, downloadVars>>

\* Mutant: the newest release by the end of the run.
ReleaseOfRunLast(run) ==
    LET fit == {i \in 1..Len(releases) : releases[i].created <= run.updated + After}
    IN IF fit = {} THEN 0 ELSE CHOOSE i \in fit : \A j \in fit : j <= i

\* The earliest release made while the run went on, 0 for none.
releaseOfRun(run) ==
    LET fit == {i \in 1..Len(releases) :
                  releases[i].created \in run.created .. run.updated + After}
    IN IF fit = {} THEN 0 ELSE CHOOSE i \in fit : \A j \in fit : i <= j

Answers(w) ==
    /\ Step(w, "listing", "done")
    /\ tag' = [tag EXCEPT ![w] = releaseOfRun(runs[follows[w]])]
    /\ UNCHANGED <<clock, runs, releases, owed, since, follows, late, stoppedRuns, downloadVars>>

\* A request fails: GitHub is not reached, or refuses it.
RequestFails(w) ==
    /\ at[w] \notin {"idle", "done", "failed"} /\ Fails(w)
    /\ UNCHANGED <<clock, runs, releases, owed, since, follows, late, tag, stoppedRuns, downloadVars>>

\* The time for finding the run, or for following it, is over.
Late(w) ==
    /\ at[w] \in {"finding", "following"} /\ w \notin late
    /\ late' = late \cup {w}
    /\ UNCHANGED <<clock, runs, releases, owed, at, since, follows, tag, stoppedRuns, downloadVars>>

-----------------------------------------------------------------------------
(* downloadAsset *)

\* The run is canceled: a download has no sleep to hear of it, and goes on.
Cancel(s) ==
    /\ s \in Cancelable \ stoppedRuns
    /\ IF s \in Workflows THEN at[s] \notin {"idle", "done", "failed"}
       ELSE got[s] \notin {"idle", "done", "failed"}
    /\ stoppedRuns' = stoppedRuns \cup {s}
    /\ UNCHANGED <<followVars, downloadVars>>

Asks(d) ==
    /\ got[d] = "idle" /\ got' = [got EXCEPT ![d] = "asked"]
    /\ UNCHANGED <<followVars, stoppedRuns, pos, into, files, part, dest, shared>>

\* No such release or file, or its download is refused.
AskFails(d) ==
    /\ got[d] = "asked" /\ got' = [got EXCEPT ![d] = "failed"]
    /\ UNCHANGED <<followVars, stoppedRuns, pos, into, files, part, dest, shared>>

\* Mutant: the file is written where it will be.
OpensAtItsPlace(d) ==
    LET file == IF dest = 0 THEN d ELSE dest
    IN /\ got[d] = "asked" /\ got' = [got EXCEPT ![d] = "saving"]
       /\ dest' = file /\ into' = [into EXCEPT ![d] = file]
       /\ files' = [files EXCEPT ![file] = <<>>]
       /\ UNCHANGED <<followVars, stoppedRuns, pos, part, shared>>

\* createWriteStream: a file that is there is emptied, whoever writes it.
Opens(d) ==
    LET file == IF part = 0 THEN d ELSE part
    IN /\ got[d] = "asked" /\ got' = [got EXCEPT ![d] = "saving"]
       /\ part' = file /\ into' = [into EXCEPT ![d] = file]
       /\ files' = [files EXCEPT ![file] = <<>>]
       /\ shared' = (shared \/ part # 0)
       /\ UNCHANGED <<followVars, stoppedRuns, pos, dest>>

\* The next block lands at the download's own place.
Writes(d) ==
    /\ got[d] = "saving" /\ pos[d] < Blocks
    /\ LET old == files[into[d]]
           n == IF Len(old) > pos[d] THEN Len(old) ELSE pos[d] + 1
       IN files' = [files EXCEPT ![into[d]] =
                      [i \in 1..n |-> IF i = pos[d] + 1 THEN d
                                      ELSE IF i <= Len(old) THEN old[i] ELSE Hole]]
    /\ pos' = [pos EXCEPT ![d] = @ + 1]
    /\ UNCHANGED <<followVars, stoppedRuns, got, into, part, dest, shared>>

\* All is there: the file takes its name; without one to rename the step fails.
Saved(d) ==
    /\ got[d] = "saving" /\ pos[d] = Blocks
    /\ dest' = IF part = 0 THEN dest ELSE part
    /\ got' = [got EXCEPT ![d] = IF part = 0 THEN "failed" ELSE "done"]
    /\ part' = 0
    /\ UNCHANGED <<followVars, stoppedRuns, pos, into, files, shared>>

\* The download breaks off, and what is there of it is removed.
Breaks(d) ==
    /\ got[d] = "saving"
    /\ got' = [got EXCEPT ![d] = "failed"] /\ part' = 0
    /\ UNCHANGED <<followVars, stoppedRuns, pos, into, files, dest, shared>>

-----------------------------------------------------------------------------
FollowNext ==
    \/ Tick \/ StrayRun \/ IsReleased(0)
    \/ \E r \in 1..Len(runs) : RunGoesOn(r) \/ IsReleased(r)
    \/ \E w \in Workflows :
          \/ Begin(w) \/ KnowsItsUser(w) \/ Dispatched(w) \/ RunAppears(w) \/ Finds(w)
          \/ Looks(w) \/ Answers(w) \/ RequestFails(w) \/ Late(w) \/ Cancel(w)

DownloadNext ==
    \E d \in Downloads :
       Asks(d) \/ AskFails(d) \/ Opens(d) \/ Writes(d) \/ Saved(d) \/ Breaks(d) \/ Cancel(d)

\* A request is answered or fails (fetch has its own timeouts), and the deadlines pass;
\* GitHub owes a run nothing.
GitHubFairness ==
    \A w \in Workflows :
       WF_githubVars(KnowsItsUser(w) \/ Dispatched(w) \/ Finds(w) \/ Looks(w) \/ Answers(w))
       /\ WF_githubVars(Late(w))

GitHubNext == FollowNext \/ DownloadNext

GitHubSpec == GitHubInit /\ [][GitHubNext]_githubVars /\ GitHubFairness

-----------------------------------------------------------------------------
(* Properties. *)

\* A step that runs a workflow ends, also when its run never shows up, stays queued
\* or never ends (steps.ts:80, 89).
WorkflowStepEnds == \A w \in Workflows : at[w] = "asked" ~> at[w] \in {"done", "failed"}

\* A step never answers with a release that was there before it began: neither by way
\* of an older run nor of an older release (steps.ts:45-56, client.ts:195-206).
NeverAnOlderRelease ==
    \A w \in Workflows : tag[w] # 0 => releases[tag[w]].created >= since[w]

Whole(f) == \E d \in Downloads : files[f] = [i \in 1..Blocks |-> d]

\* "via a temporary file, so a broken download never looks finished" (client.ts:227-228),
\* wherever it breaks off, as long as no other download of the name is under way.
BrokenNeverLooksFinished == dest # 0 /\ ~shared => Whole(dest)

-----------------------------------------------------------------------------
(* What the documentation says and the code does not keep *)

\* The same whatever else is downloaded.
NeverLooksFinished == dest # 0 => Whole(dest)

\* "The run a dispatch just started" (client.ts:195).
FollowsItsOwnRun == \A w \in Workflows : follows[w] # 0 => runs[follows[w]].by = w

\* "The release a run made" (steps.ts:45).
AnswersItsOwnRelease ==
    \A w \in Workflows : tag[w] # 0 => releases[tag[w]].run = follows[w]

\* "Every runner takes the run's `signal`, which stops what it's doing when the run is
\* canceled" (engine.ts:395-396): no download of a canceled run replaces the file.
CanceledReplacesNothing ==
    [][\A d \in Downloads : d \in stoppedRuns /\ got[d] = "saving" /\ got'[d] = "done" => dest' = dest]_githubVars
=============================================================================
