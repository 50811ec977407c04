# A verification project for Remoty (BetterSshClient)

Remoty is an Electron SSH client: a main process (`packages/electron`) that owns
every connection, shell, file and run, and a Svelte renderer (`packages/ui`) that
shows what the main process tells it.  There is one thread in each.  What makes
the program hard is not parallelism but `await`: between two of them anything
else may run, and most of the code's state (leases, pollers, runs, tabs, files)
is read before one and used after it.  Calls and events cross between the two
processes, and processes, servers and people outside answer late or never.

This directory holds TLA+ models of the parts where that matters, TLC
configurations that check them on small instances, and proofs, checked by TLAPS,
of what matters most.  Paths below are relative to `packages/electron/src/`
unless they begin with `ui/`, which is `packages/ui/src/lib/`.

## 1. The system

| Component | State it keeps | Operations | Talks to | What is hard |
|---|---|---|---|---|
| Connection pool `core/ssh/connectionPool.ts` | entries per host key: promise, lease count, usable | acquire, lease.release, lease.invalidate, invalidateAll | dials; every session below | shared dials that fail, double release, drop during acquire |
| SSH session `core/ssh/session.ts` | connection, lease or none, `goingDedicated` | connect, shared, openChannel (exec, shell, SFTP, forward), runShell, disconnect | the pool, the server | a refused channel moves the session while others use it; a timeout races a close; methods retried on new connections |
| Jump chains `core/ssh/jump.ts` | none (a function) | the chain of a host | dials | cycles, depth, inherited users and ports |
| Known hosts, certificates `core/ssh/knownHosts.ts`, `core/rdp/knownCerts.ts` | two files | check, learn, forget | dials, desktops in a tab | check and learn are two steps with a question in between |
| Secrets `core/config/secretCipher.ts`, `core/config/secretField.ts`, `core/secrets/onePassword.ts` | sealed passwords, 1Password references | seal, open, resolve | keyring, `op` | a keyring that is locked |
| Host pollers `core/ssh/pool.ts`, `state/guiState.ts`, `ipc/hosts.ts` | controllers, one loop per host with its backoff and session | reload_hosts, restartPollers, refresh_metrics | sessions, the renderer | reloads overlap; a poller learns of its abort between awaits only |
| Key setup `core/ssh/keySetup.ts`, `ipc/keysetup.ts` | the state machine, the run slot | start_key_setup | a session, the server's files, hosts.toml | timeouts that do not stop what they time out; rollback |
| Automation engine `core/automation/*` | results, off-branch set, `waitingOn`, ready, running, connections | run, cancel; one step's command | one session per run, local and WSL processes | If branches, joins, cancel in any state, processes that outlive their shell |
| GitHub steps `core/github/*` | a followed workflow run, a `.part` file | runWorkflow, latest release, download | GitHub | which run is ours; a download that breaks off |
| Automation library, cards `ipc/automations.ts`, `core/config/{snippets,automations}.ts`, `ui/stores/automations.ts`, `ui/screens/Automations.svelte` | two files; a card per automation, one panel | save, rename, delete, import; Run, Stop | engine, files | references between files saved one by one; events and answers that cross |
| Terminals `core/ssh/pty.ts`, `core/local/localPty.ts`, `ui/screens/TerminalView.svelte` | shells by id, output batches; tabs | open, write, close, retry | sessions | closed from either side while opening; output batched, exit not |
| SFTP `core/ssh/sftp.ts`, `ipc/sftp.ts`, `ui/screens/SftpView.svelte`, `ui/stores/sftp*.ts` | panes, the queue, running operations, editors | list, transfer, mkdir, rename, delete, edit | sessions | answers in any order; batches; operations on one path |
| Remote desktop `core/rdp/*`, `ipc/rdp*.ts`, `ui/screens/Rdp*.svelte`, `ui/screens/rdpTransfers.svelte.ts` | tokens, tunnels, staged credentials and their marker, tabs, offers of files | launch, open, trust, close, save, send | sessions, the Windows store, mstsc | a crash between staging and removal; one token, several attempts |
| Manual hosts `core/config/hosts.ts`, `ipc/hosts.ts`, `ui/screens/{Dashboard,HostEditor}.svelte` | hosts.toml, the dialogs | save_host, delete_host, persistKey | pollers, key setup | load, modify, save without a lock, one shared temporary file |
| Desktop profiles, folders, bundles `core/config/remoteDesktop.ts`, `ipc/remoteDesktop.ts`, `ipc/connectionBundles.ts`, `ui/screens/ConnectionImportDialog.svelte`, `ui/stores/dashboardLayout.ts` | remote-desktop.toml, kept folders, previews | save, delete, move, import | hosts.toml, settings | two lists saved one after the other; changes before the saved list is read |
| Stores, event router `ui/stores/*`, `ui/ipc/router.ts` | what is on screen, who asked for what | select, open, close, palette, guard | all events | the content moves while an edit is open or being saved |
| Configuration, window shell | settings, window, menus | | Electron | mostly plain I/O |

What makes each correct:

* **Pool**: the lease counter is the number of callers; a connection closes with
  its last lease and never before; nobody is sent to a dead connection; every
  acquire is answered.
* **Session**: a move to an own connection loses no lease and leaves other
  sessions alone; a command is answered once, and what was stopped is no success;
  every method has its turn; a failed chain leaves nothing open behind.
* **Chains**: what is reached is what the user's list says, never past a bastion.
* **Pollers**: one running poller per listed host once reloads settle; stopped
  ones end and hold nothing; the backoff schedule is kept.
* **Key setup**: passwords are never turned off without a working key; past the
  point of no return the run succeeds or undoes; hosts.toml says what is so.
* **Automations**: exactly the right nodes are skipped; a cancel ends the run and
  what it started; a broken download never passes for a whole one; what the
  library saves resolves; a card shows what its run does in the end.
* **Terminals, SFTP, desktops**: a tab closed at any moment gives back what it
  held; nothing that was said is lost or reordered; a pane shows what was done;
  passwords handed to others are taken back.
* **Saved files**: a save is all or nothing; links and folders survive.

`PROJECT.json` lists every component with its status, and every hazard with the
line where it bites and the property that would notice.

## 2. The modules

| Module | Models | Run |
|---|---|---|
| `SharedConnections` | what the pool promises: connections that take claims, no counters, no lists | abstract |
| `ConnectionPool` | `connectionPool.ts`, one action per run from await to await | `pool` |
| `SshSession` | `session.ts` over an INSTANCE of `ConnectionPool` (sessions are the pool's callers) | `session` |
| `JumpChain`, `Dialling` | `jump.ts` against a reading of the list; `connectAndAuth()` with known hosts, secrets and the connecting screen | `hosts` |
| `HostPollers` | reloads, `PollManager`, the poller's loop, the renderer's view of their events | `hosts` |
| `KeySetup` | `setupKeyForHost()`, its inner flow, and the server | `hosts` |
| `AutomationRun` | one `runAutomation()` | `automation` |
| `StepWork` | one step's command in the five kinds of runner | `automation` |
| `GitHubSteps` | following a workflow run, its release, downloading | `automation` |
| `AutomationLibrary` | snippets.toml, automations.toml and the commands that change them | `desk` |
| `AutomationCards` | cards, panel and run dialog against the runs | `desk` |
| `Desk` | what is on screen and what moves it, the editor's guard, palette and pickers | `desk` |
| `TransferQueue` | what the transfer queue promises | abstract |
| `SftpTab` | one tab of the file browser, both processes | `sftp` |
| `Terminals` | two tabs and their shells, both processes | `terminals` |
| `RdpLaunch`, `RdpTab`, `RdpFiles` | the system's client with staged credential and tunnel; a desktop in a tab; files copied over | `remote_desktops` |
| `ListFile`, `SavedHosts`, `SavedDesktops` | how a list is written; the two lists and their dialogs | `saved` |
| `ConnectionImport`, `KeptFolders` | an import into both lists; the folders of cards | `saved` |

Eight modules hold the theorems: `ConnectionPoolProofs`, `SshSessionProofs`,
`HostsProofs`, `AutomationProofs`, `TabsProofs` (the file browser and the
terminals), `DeskProofs`, `RemoteDesktopProofs` and `SavedFilesProofs`.  `MC*`
modules give constants their values.  Where a run explores several modules, they
share no state: `part` chooses one at the start and the others stand still, so
their behaviours are explored one after another and not multiplied.

**ConnectionPool.** An entry is a connection id given out in dial order; `listed`
and `keyOf` are the map of lists.  `acquire()` is two actions because of its
await: up to it (`AcquireShared`, `AcquireFresh`, which take the lease at once)
and from it on (`ResumeOk`, `ResumeFailed`).  A dial that settles
(`DialSettles`) only queues reactions: the pool's own (`Wire`) was registered
first and runs before any caller resumes, but other code may run in between.
A close event is a macrotask: `Drop` waits until the reactions to the dial have
run.  `StateOf`, `claimsBar` and `offeredBar` are the refinement mapping.

**SshSession.** Each session may open several channels side by side (`call`).
`Refused` starts `goDedicated()` unless a dial is under way (`moving`, the
source's `??=`); `GoDedicatedOk` is all of that function from its await on:
connection replaced, lease invalidated and released, waiting calls retried.
A channel stands for exec, shell, SFTP and forward alike.

**Dialling.** A host list is a sequence of entries; `JumpChain` flattens its
ProxyJump values as `jump.ts` does, as a function of how many values deep the
walk is, since only the first hop of a value brings bastions of its own.  A call
then goes hop by hop: endpoint and password resolved (1Password may fail),
connected through the hop before, key checked against known_hosts (readable or
not) and learned by a later, separate step, methods gathered and offered, and
retried one by one on fresh connections when the server hangs up early.  `shook`
is ssh2's 'handshake', which comes between the accepted key and the first method:
it is set with the acceptance, and a connection that is lost before anything was
offered may turn out not to have got that far, which ends the call without a
retry (`session.ts:541`).  The stages the connecting screen shows follow.

**HostPollers.** A reload is `ReloadHosts`, `ReadHosts`, `Publish` (everything
from `loadAllHosts()`'s answer to the await in `restartPollers()`),
`StartPollers`.  A poller is named by the reload that started it and its host,
so that two pollers of one host are two pollers.  Time is abstracted: a timer
may fire whenever it is pending.

**KeySetup.** `outer` awaits the flow under the total timeout; `inner` is the
flow, which a timeout does not stop; `remote` is what became of each command on
the server, which may run one long after the step that sent it gave up.  A lost
connection closes the channel, and `runCommand()` takes a close for an answer:
an answer `"lost"` counts as success wherever the code looks for no marker.
A script that starts is assumed to run to its end in one step.  `PersistKey` is
`persistKey()` with its ways to record nothing.

**AutomationRun, StepWork, GitHubSteps.** `StartReady` is the inner loop of
`runAutomation()` with `runNode()` up to its first await; a called automation is
one node.  Which nodes continue on error is chosen at the start, so one run of
TLC checks every combination.  That the automation has no cycle is an assumption
(`AutomationIsSorted`): `topoOrder()` finds an order, or it neither saves nor
runs.  `StepWork` looks into a node: the shell, what it
left behind and who holds the output open are kept apart, because a kill, a
timeout and an exit meet them in different states; a kill is on its way for a
while, as `taskkill` is.  `GitHubSteps` counts time in minutes and lets runs of
other people appear in the list that ours is looked for in.

**AutomationLibrary, AutomationCards, Desk.** Every command of the library is
loads, a decision and saves, and two may overlap; an import saves twice and may
crash in between.  Calls and events of the cards are in order each, answers may
come whenever.  `Desk` has one content, `go()` with its guard in front of every
switch, and the editor's save, which may end when the editor has long gone.

**SftpTab, Terminals.** One module each for both processes: a tab that closes
while its session opens, the reply on its way, the close that finds nothing yet.
`Pump` is `startReady()` with its effect; `Relist` the effect that lists a pane
anew.  What Electron posts arrives in order (`wire`); a terminal's output is
batched before it is posted, its exit notice flushes the batch.

**RdpLaunch, RdpTab, RdpFiles.** The credential store, the marker file and the
clients survive a crash (`Crash`, `Start`) and a quit; every removal is a call
that may be under way.  A `connect()` of a tab is an attempt, so that two of one
tab are two; the gateway, the handshake and the certificate's question lie
between its steps.  Reading the certificates may fail, which the code takes for an
empty list; a check writes a file of its own and renames it, or is refused;
forgetting reads, empties the file and writes it in three steps, with checks in
between (`writing`, `Forgetting`), and may fail at each.  `misread` remembers that
the first check in the queue goes by something else than what is known.  A tunnel
ends with its client, by its idle timer, or with its listening server
(`ListenerFails`).  `RdpFiles` follows offers, saves, the paused clipboard sync and
the stall check.

**ListFile and those over it.** Writing a list opens `<file>.tmp` (created or
emptied), writes it and renames it; writers share that name, so what a writer
has open and what lies under the name are kept apart: a file is a number
(`inode`), and a name leads to one.  A call is load, edit,
write, and what the screen does with the answer.  `KeptFolders` follows one list
of folders through early changes, the first read, late answers and restarts; a
reading that fails and a write that is refused go by in silence, as in the code,
and `swallowed` remembers which it was.

## 3. What the runs check

| Run | Bounds | States | Time | Shows |
|---|---|---|---|---|
| `pool` | 3 callers, 2 hosts, 2 leases, 3 dials | 273,905 | 90 s | `LeaseAccounting`, `LivesWithItsLeases`, `NeverJoinsDead`, `AcquireSettles`, `ImplementsShared` |
| `session` | 2 sessions, 2 calls each, 2 leases, 2 pooled dials | 146,845 | 10 s | `NoLeaseLost`, `NotCutByOthers`, `CallsSettle` |
| `hosts` | 3 host lists, 2 dials, 4 servers, 2 keys, 1 change, 1 death; 1 polled host, 2 reloads, 2 edits; one key set-up with every failure | 560,558 | 105 s | `NeverPastTheBastion`, `NothingStaysOpen`, `EveryMethodHasItsTurn`; `PollersMatchHosts`, `IdlePollersHoldNoSession`, `BackoffClimbs`; `KeyAuthFirst`, `RecordsWhatIsSo`, `NoReturnWithoutRollback` |
| `automation` | 6 nodes, 7 edges, 2 at a time; 5 kinds of step; 1 followed run, 1 stray, 2 downloads | 259,791 | 50 s | `SkipsWhatItShould`, `CancelCompletes`; `StepIsAnswered`, `StoppedIsNoSuccess`, `CancelStopsTheCommand`; `BrokenNeverLooksFinished`, `WorkflowStepEnds` |
| `sftp` | 1 directory, 2 names, 1 file, 2 parallel, 3 operations | 102,208 | 30 s | `ImplementsQueue`, `ChangesAreListed`, `ClosedTabFreesSession` |
| `terminals` | 2 tabs, 1 output, 2 inputs | 490,270 | 90 s | `ClosedTabEndsItsShell`, `LastWordsArrive`, `InputInOrder` |
| `desk` | 2 automations, 2 tabs, 2 saves; 2 overlapping calls, 1 crash; 2 starts, 1 stop | 1,067,711 | 95 s | `StepsResolve`, `CallsResolve`; `NothingLooksStuck`; `EditorGoesByAnswer` |
| `remote_desktops` | 2 launches, 2 sockets, 2 runs of the app; 2 tabs, 3 attempts, 2 certificates; 2 batches of 2 files | 500,462 | 60 s | `CredentialsGo`, `TunnelOutlivesItsUse`; `KeepsWhatItLearned` |
| `saved` | 2 calls, 2 names, 1 crash, 1 refused write; 2 profiles; 2 applies, 1 other save; 2 cards, 2 folders, 3 moves | 1,555,653 | 45 s | `SaveIsAllOrNothing`, `ImportedLinksLead`, `FoldersAreKept` |
| `keysetup_reference`, `pollers_twice`, `library_loop` | | | | a disagreement each, section 5 |

Each property has a mutant: a change of one definition, of the kind a slip in
the code would be, that TLC must find.  The mutated operators stand before the
ones they change, marked "Mutant:".

**Bounds.** Three callers and two leases per connection make an acquire overflow
to a second connection while the first is full, and the third dial lets an
invalidated or dropped one be replaced; a second host shows that lists do not
mix.  Two calls per session are what a race on `??=` needs, two sessions what
sharing needs.  Two dials reach every server of a chain at once (the second one
dials only the bastion of the first, `MCWanted`); the three lists hold one
bastion, two with an old alias and another user, and values that cannot be
resolved.  Two reloads overlap in every order, and two edits let the list change
and change back; hosts do not interact in `HostPollers`, so one is enough (the
violation run takes two).  The automation has an If with a node on each way that
join again, a node both ways lead to, and a second branch that shares the
connection.  Three operations and two places in the queue make a batch wait, an
operation wait for its path and one overtake.  A second tab of terminals is what
focus needs.  Two launches reach one server, directly and through a tunnel, and
a second run of the app finds what the first left.  Two overlapping calls and one
crash are what a lost update or a torn pair needs; the library begins with an
automation that runs another.  Bounds whose name begins with `Max`, and `After`,
`Blocks` and `LastStep`, are the only ones in guards; where they are used up, or
the user is done, the system may stop (`CHECK_DEADLOCK FALSE`).  `pool` and
`session` never stop: a lease may be released again.

**Fairness.** Only what the runtime schedules is fair: dials, logins and requests
end within their timeouts, queued reactions and effects run, timers elapse,
messages posted between the processes arrive, a key set-up's commands are bounded
by `EXEC_TIMEOUT_MS`, file writes end.  Never fair: users, the remote end, a
command's own end or what it leaves behind, the picking of a file, a client
started outside, a crash.  So `CancelCompletes` holds although a node may never
end, `StepIsAnswered` although its command does not, `CredentialsGo` although
neither client nor server does anything, and `WorkflowStepEnds` although a
workflow's run may never show up.  In the runs with parts, the conditions on
actions that begin something are tied to their part, as nothing begins
elsewhere.

The modules state more than the runs check: type invariants (`TypeOK` and the
like), and smaller or neighbouring properties that hold: `OneOwnConnection`,
`FullIsNotOffered` (session); `StrangersGetNothing`, `DialSettles`,
`ScreenIsTheTargets`, `RefreshNeverDials`, `StoppedPollersEnd`,
`NothingSentAfterEnd`, `SlotIsReleased`, `TypesOK` (hosts); `SharesWithinLimits`,
`NeverAnOlderRelease` (automation); `OpsSettle`, `FailureStaysShown`,
`OpsInOrder` (sftp); `ExitClosesTheTab` (terminals); `PickerIsOpen`,
`ChoiceWins` (desk); `SessionGoesWithItsTab`, `TunnelsAreGivenBack`,
`SyncComesBack` (desktops); `CopyKeepsItsBastion`, `RefusedImportChangesNothing`,
`NamesStayApart` with one apply at a time, `TilesFollowTheFile`,
`StoredPasswordsStay` (saved).  Each is checked by adding its name to the
configuration of its run; some are proved (section 4).

## 4. What is proved

Every safety property the runs check is a theorem, and so is the refinement of
both abstract specifications: they hold for any number of callers, calls, dials,
reloads, launches, nodes, tabs and the like, for any host list and any acyclic
automation, and not just for the instances of section 3.

| Module | Theorems |
|---|---|
| `ConnectionPoolProofs` | `Invariance`, `TypeCorrect`, `LeasesAreCounted`, `LifetimeCorrect`, `CapCorrect`, `JoinsAreLive`, `PoolImplementsShared` |
| `SshSessionProofs` | `Invariance`, `NoLeaseIsLost`, `NobodyElseCuts`, `OneOwnIsEnough`, `FullStaysWithdrawn`, `BooksStayRight` |
| `HostsProofs` | pollers: `Invariance`, `PollersAlwaysMatch`, `IdleOnesHoldNothing`; key set-up: `SetupInvariance`, `KeyAuthComesFirst`, `WhatIsRecordedIsSo`, `NoRunGivesUp`; dialling: `DialInvariance`, `NobodyIsReachedPastABastion`, `FailedOnesHoldNothing`, `EveryMethodIsOffered`, `StrangersAreRefused` |
| `AutomationProofs` | a run: `Invariance`, `SkipsExactly`, `LimitsKept`, `NothingStartsCanceled`; a step: `StoppedNeverSucceeds`; a download: `BrokenStaysUnfinished` |
| `TabsProofs` | file browser: `Invariance`, `QueueImplemented`, `OpsNeverCollide`; terminals: `TerminalsInvariance`, `ShellsReadInOrder`, `LastWordsCome` |
| `DeskProofs` | window: `DeskInvariance`, `EditorGoesOnlyByAnswer`, `PickersStayOpen`; library: `LibraryInvariance`, `StepsAlwaysFindTheirSnippet`, `CallsAlwaysLead`; cards: `CardsAreNeverStuck` |
| `RemoteDesktopProofs` | `TunnelIsKept`, `CertificatesAreKept` |
| `SavedFilesProofs` | saves: `SavesInvariance`, `SavesAreAllOrNothing`; imports: `LinksInvariance`, `LinksLead`; folders: `FoldersInvariance`, `FoldersStayKept` |

**What they assume** of the constants, each a named `ASSUME` that TLC evaluates:

* bounds are natural numbers, and those that stand for room (leases, places,
  `maxParallel`, `MAX_HOPS`, saves in flight) are not 0; users, hosts, keys and
  names that are counted are finite; a value that stands for "none" is none of the
  others (`PoolAssumptions`, `PollerAssumptions`, `TabAssumptions`,
  `TerminalAssumptions`, `DeskAssumptions`, `RdpLaunchAssumptions`,
  `MaxHopsAssumption`, `CallsAreNumbers`, `NoneIsNoCall`, `DownloadAssumptions`,
  `HostsAreAFile`, `DesktopsAreAFile`, `ImportsAreNames`);
* a host list and a proxyJump value are sequences (`ListAssumption`);
* an automation's edges join its nodes, those out of an If and no others have a
  branch (`validateAutomation`), and it has an order (`AutomationIsSorted`,
  `topoOrder()`);
* the library begins with files the app saved: steps name snippets that are there
  (`LibraryAssumptions`); a bundle's links stay within it (`JumpIsOfTheFile`).

**The pool.** None of its invariants is inductive alone: that releasing to zero
closes nobody's connection needs the counter to equal the number of claimants,
which needs the failed dial to give back what the acquire took; that the counter
stays a natural number needs a claimant for every decrement.  `IInv` puts them
together with what they rest on: entries are used in dial order (`DialOrder`),
an entry in a list is usable and its link healthy or its failure not yet noticed
(`OfferedIsHealthy`), reactions follow the outcome (`WiredIsSettled`), callers
wait for or hold connections that can still answer (`ClaimsAreLive`), and a
connection that is up or being dialled has a claimant (`NobodyOrphaned`).
Counting goes through three lemmas about `Claimants`: a step adds one caller to
one entry, removes one, or changes none, and cardinality follows.  The
refinement reads each step off the claimants it adds or removes.

**Sessions.** Every step of a session is a step of the pool, a stutter of it, or
the move to an own connection, which withdraws an entry and releases a lease in
one step.  The first two keep the pool's `IInv` by the lemmas of
`ConnectionPoolProofs`, cited through an instance; the move is shown to keep it
by lemmas of its own.  `InOrder` says how a session's fields go with its lease:
leased exactly while the pool counts it, moving only after a refusal, its own
connection only after the lease is gone.

**Pollers.** `PollersMatchHosts` speaks of states in which no restart is under
way.  What keeps it so is that only a reload that is done has started pollers
(`OnlyStartedOnes`), that who is registered runs (`RegisteredOnesRun`), and that
the last restart to be done has registered one for every listed host
(`WatchedAreListed`): an older one that ends later lists the same hosts, because
the list is published in the same step that begins a restart.

**The transfer queue.** Ids and batches are handed out in order and an id
belongs to one operation (`OpsInOrder`); so what `Pump` picks, the operations no
earlier one of the batch collides with, up to the free places, is a step of
`TransferQueue`, by looking at the operation picked last.  `OpsNeverCollide`
follows from the abstract queue alone.

**Key set-up.** The run, the flow it awaits and the server meet in every order,
so each half of the claim needs the other two.  `KeyKnownGood`: whoever is past
the verification, or has sent the script, has a key that signs in, and nothing
takes it away.  `DisableBeforeReload` says what a command's fate tells of those
before it, in particular that the last check is reached only after the script
reported success, which a lost connection cannot report.
`RecordedIsNotRolledBack`: who records still waited, and who waited has sent no
rollback, so what is recorded is what sshd_config says.  Of a run that has seen
passwords go off, `NoReturnWithoutRollback` says which way it may end with them
off: out of the final check, with a key that has just signed in and the machine
at success.  It does not say that hosts.toml learns of it (section 5).

**Chains.** `JumpChain`'s walk is a function of its depth, so what it yields is
shown by taking the least depth at which the claim fails: one value further in
(`IntoIsGood`) puts before a chain that leads to the target hosts that lead to it
(`ValueLeadsOn`), and a value that cannot be used makes the whole walk fail and
is not skipped.  Here an entry is found by its name before it is found by its old
alias, which is why the claim is about the list and not about names.

**Dialling.** `DialInvariance` keeps three things of a call.  Its way: it has a
chain that leads to its target and a place in it (`OnItsWay`).  Its turns: what it
offered is what stands before `next` while all methods share a connection, and
the methods so far when each has one of its own (`HadTheirTurn`, `AllBefore`);
failing after the last of them is then failing after all.  Its server: what a
call knew when the key was shown is all that is recorded or in flight for that
endpoint (`AllKnown`), although other calls' lines may land between its check and
its methods.  That only holds for a key that was known then, which is why two first
connections may still trust two keys (section 5).

**A run of an automation.** `waitingOn` counts the edges from nodes not reaped
(`CountsUnreaped`), so a node in `ready` (`ReadyIsDue`) has everything before it
settled for good (`StartedInTurn`), and what was decided about skipping it reads
the same for the rest of the run (`DecisionsStand`).  The inner loop is shown
to keep that from wherever it is entered (`StartingKeepsIInv`).  Two inductions over the
automation follow: that the loop never ends with a node left over, by the first of
those in the order `topoOrder()` found (`NobodyLeftOver`), and that `offBranch`,
decided node by node, is the nodes no whole way leads to (`WayTaken`), by the
number of edges of a way and by the order.

**Steps and downloads.** A step's answer is settled once, and `StepInv` says that
success has been said only of work nobody stopped.  A download's writer is alone
with its `.part` as long as no two share the name, has written all up to where it
is, and renames only what is whole (`DownloadInv`).

**The window.** An editor's changes are dirty until a save has taken them, so every
switch asks; what the user answers is the only way on (`DeskInv`, `GoIsGuarded`).
**The library.** While commands do not overlap, what a command read is still there
(`LibraryInv`), so what it decided on that (no snippet deleted that a step uses,
callers renamed along) holds of what it saves; an import's two saves are two
steps, and what is between them is in the invariant.  **Cards.** Whatever a card or
the panel says of a run that is over, the event or the answer that corrects it is
in a queue, and nothing that arrives before it removes it.

**Terminals.** What is on its way to a tab has an order (`WireInv`): the answer to
`terminal_open` first and once, output after it, the exit notice after all output
and only of a shell that is gone, whose batch is empty.  So output finds a
listener, and the notice finds nothing behind it.  `InputInv`: inputs are numbered
as they are typed and wait in that order, what is in flight is no later than what
waits and no earlier than what was read.

**Remote desktops.** A client is connected only once its launch is over
(`RunsWhenOver`), so a launch that fails half way closes a tunnel nobody uses, and
a connection through a tunnel keeps its idle timer off (`UsedIsOpen`); what is left
is the client's end, the application's, and a failing server of the tunnel's own.
The check of a certificate that is first in the queue goes by what is known,
unless its reading failed or a forget came at the file since (`CertsInv`).

**Saves.** Until two calls were at it at once, there is one writer; the `.tmp` is
never the file itself, is empty when its writer writes it, and what is renamed is
what that writer wrote to the end, whatever an earlier one left there when it
crashed (`SavesInv`).  **Imports.** Until something comes into an apply, the list it
read is the list (`ReadIsSo`); what it is to write leads to hosts it writes, and it
writes hosts before profiles, so an import that stops half way leaves no link that
leads nowhere (`LinksInv`).  **Folders.** `FoldersAreKept` speaks of the end;
`WillBeKept` says for any moment that a folder is in the list the waiting changes
will be applied to, or that one of them puts it there, and that none removes it
later.  A refused write parts the list from the settings, until the next one;
after a failed reading, or an end of the app with a list unsaved, neither says
anything.

**What the proofs changed.** `KeepsWhatItLearned` was stated too strongly: in an
instance larger than the run's, a check that read before a forget and writes
after it takes a certificate away in a step that is no forget. It now excepts
exactly that and a reading that failed, and `NextOneIsTrusted` (section 5) is
about it. `resolveHop()`, the step a failed dial is shown at and the unsealing
of passwords were CASEs whose guards overlap; they are IFs now, in the order of
the code. That the automation has an order, that a list is a sequence and that a
file the app begins with is well-formed had been left to the instances.

**Only model-checked: liveness** (`AcquireSettles`, `CallsSettle`, `BackoffClimbs`,
`CancelCompletes`, `StepIsAnswered`, `CancelStopsTheCommand`, `WorkflowStepEnds`,
`ChangesAreListed`, `ClosedTabFreesSession`, `ClosedTabEndsItsShell`,
`CredentialsGo`), because fairness and ENABLED are out of the prover's reach; and
the neighbouring properties of section 3 that the table above does not name.
Induction over data (the library's theorems take an operator) is out of reach as
well; where it was needed, for a depth, an order or the length of a way, the proofs
take a least counterexample instead, which well-foundedness of the numbers gives.

## 5. Disagreements between the code and what it says

Runs that TLC ends with a counterexample:

1. `keysetup_reference`: the session that is to prove the key may use the
   1Password password instead (`core/ssh/keySetup.ts:366`), against "Never disable
   password authentication without verified key auth" (`:17`).  `KeyAuthFirst`
   therefore speaks of hosts with a stored password.
2. `pollers_twice`: overlapping reloads start two pollers per host, and one of
   each pair can never be stopped (`state/guiState.ts:149`).
3. `library_loop`: a rename that adds a call is checked against callers that do
   not point at the new name yet; two automations are saved that run each other
   (`ipc/automations.ts:146`).

Found in the same way, and not made runs of their own.  The property named is in
the module; adding it to the configuration shows the counterexample.  Five have
a configuration here: `MCSshSessionLeak`, `MCRemoteDesktopsLeftover`,
`MCRemoteDesktopsTrust`, `MCSavedFilesCorrupt`, `MCSftpTabEditor`.

*Connections.*

* `DisconnectClosesOwn`: `disconnect()` while `goDedicated()` dials; the
  connection dialled for the session is never closed (`session.ts:320`).
* `NeverCostsTheFeature`: a session that moves gives back the lease its other
  channels run on; the last lease closes the connection under them
  (`session.ts:324`).  It takes a session with two channels, such as a poller's.
* `OneKeyPerServer`: two first connections to a server whose key changes in
  between both learn (`knownHosts.ts:69`).
* `GoneHostsShowNothing` (two hosts): a stopped poller's last event revives a
  pruned host's sample (`pool.ts:316`, `ui/ipc/router.ts:57-58`).
* A target behind a bastion that has nothing to offer is shown as failing at
  "reach" (`ui/screens/TerminalView.svelte:319`).
* A disable script that times out is declared `failedSafe` although it may still
  change sshd_config (`keySetup.ts:402`); nobody is locked out by it.
* A key set-up that has turned passwords off may end with neither a record nor a
  rollback: the host has gone from hosts.toml meanwhile and `persistKey()` does
  nothing (`ipc/keysetup.ts:73`), or the file cannot be read or written (`:71`,
  `:82`), which is reported as a failed set-up (`:55-56`).  The key works by then,
  so nobody is locked out, but the host keeps its password and no key.

*Automations.*

* `OneWayOutOfAnIf`: an If that fails and continues on error sends the run both
  ways (`engine.ts:459`).
* `NothingGoesOn` (`Parts = {"work"}`): a timeout in WSL ends `wsl.exe` alone
  (`localExec.ts:62-63`), and processes an exited shell left go on.
  `TimeoutAnswers`: killing such a shell's tree returns early, so the step waits
  for whoever holds its output.  `SuccessMeansItEnded`: a lost connection is a
  close without an exit code, which counts as success (`session.ts:234`; a
  documented leniency).
* `NeverLooksFinished`: two downloads of one name share `<name>.part`
  (`github/client.ts:227-228`).  `FollowsItsOwnRun`, `AnswersItsOwnRelease`: a
  run somebody else dispatched meanwhile, or its release, may be taken for ours
  (`client.ts:195`, `steps.ts:45`).  `CanceledReplacesNothing`
  (`Cancelable = {1, 2, 3}`): a canceled download may still replace its file
  (`engine.ts:395-396`).
* `StepsAlwaysResolve`: overlapping delete_snippet and save_automation leave a
  step naming what is gone (`ipc/automations.ts:41-46`).  `ScreenFollowsTheFiles`:
  an import whose second save fails leaves the lists stale.  An import does not
  repoint calls of automations it renames (`core/automation/bundle.ts:266-270`),
  a save does not check the callers of an automation that starts to ask for a
  parameter, and `Automations.svelte:343` announces what `removeSnippet` refuses.
* `CardKnowsItRuns`, `PanelStaysWithItsRun`, `DismissedStaysClosed`
  (`Parts = {"cards"}`): a late answer or a second run's events overwrite what
  the card or the panel shows (`ui/stores/automations.ts:45-47, 170, 113-117`).

*Window, tabs, files.*

* `UnsavedIsAsked`: changes made while a save is under way are not asked for
  (`AutomationEditor.svelte:440-441` against `:655-663`).  `NeverShowsAClosedTab`: a tab
  that closes while a switch to it is held is shown afterwards
  (`ui/stores/navigation.ts:7-9`).  A mode switch held by the guard and then
  declined leaves the sidebar out of step (`navigation.ts:40`).
* `SavesWhatWasRead` (`MCSftpTabEditor`): a file read late is shown in the editor
  of another (`SftpView.svelte:81-83`).  `ConnectedIsShown`: the event that a tab
  is connected may come before the store knows its session.
* A terminal whose shell cannot be opened keeps its lease (`pty.ts:150`), which
  `ClosedTabEndsItsShell` excepts.  A failed open's id stays parked
  (`TerminalView.svelte:312-313`).
* `OverlapKeepsTheFile` (`MCSavedFilesCorrupt`): two overlapping saves share
  `<file>.tmp` (`hosts.ts:61-62`); two load-modify-saves lose one update.
  `UnsavedEditsAreAsked` (`HostEditor.svelte:45` against `Dashboard.svelte:221`).
* Two overlapping applies of imports break `ImportedLinksLead`, which excepts
  them (`mixed`); an import whose hosts are saved and whose profiles are not is
  refused when tried again; a second preview clears the first one's token; a
  cancel while busy still applies.
* Kept folders: a reading that fails is swallowed and counts as done
  (`ui/stores/dashboardLayout.ts:73-75`), so the next change writes a list without
  the saved folders over it; a write that is refused is swallowed too (`:57-63`,
  "kept for this run only"), and quitting with a list unsaved loses it.
  `FoldersAreKept` promises the settings nothing after these.

*Remote desktops.*

* `NextLaunchCleansUp` (`MCRemoteDesktopsLeftover`): the late removal of a marker
  takes a newer launch's (`credentials/index.ts:154, 162` against `:18-19`).
  `QuitTakesThemOut`: of two launches for one server, the end of the first's
  removal strikes the server off the list a quit goes by, although the second has
  staged its password meanwhile (`launch.ts:339-341`, `ipc/rdp.ts:143`).
  `PasswordIsThere`: a launch that fails takes out the password another has
  staged for the same server and not yet used.  And a refused clean-up
  that a memoised promise never tries again (`credentials/index.ts:139-141`).
* An error of the server a tunnel listens on closes the tunnel with the clients'
  connections through it (`tunnel.ts:95-103, 120`), which `TunnelOutlivesItsUse`
  excepts.
* Certificates: a file that cannot be read or parsed is an empty list
  (`knownCerts.ts:30-39`), and the check that finds its target unknown there
  writes a list of its own entry alone over all that was learned (`:52-56`), so
  every other server is new again.  Forgetting writes in place (`:70`): a check
  may read the file emptied, the write may be lost to a check's rename, and a
  write that fails leaves it empty.  A check whose own save fails refuses the
  server.  `KeepsWhatItLearned` excepts the first two.
* `NextOneIsTrusted` (`MCRemoteDesktopsTrust`, `knownCerts.ts:65`): a check that
  runs while a certificate is forgotten writes back what it read before, or the
  forgetting itself cannot be saved, so the next connection does not trust
  "whatever it gets".  `ClosedTabFreesSession` of
  `RdpTab` (`RdpView.svelte:116`): Trust and Reconnect can run two `connect()`
  that share `token`.
* `OneSaveAtATime`, `SavedMeansSaved`, `PausedWhileFetching`, `CopiedMeansCopied`:
  a new offer, or a dismissed one, resets what a save under way goes by, and an
  upload's end is taken for a later one's (`ui/screens/rdpTransfers.svelte.ts`).

## 6. Not modelled

* Configuration parsing (`appConfig.ts`, `sshConfig.ts`), the typed wrappers of
  the IPC calls (`ui/bindings.ts`, `ui/ipc/commands.ts`), Electron's main, menus
  and windows: functions or plain I/O, no state several steps share.
* Of the pollers, the port-probe loop, `quickScan` and the metric and service
  parsers; of the engine, templates, parameters and nested runs; the update
  notice, which is one request whose answer is shown; of the secrets, the cache
  of the `op` program's answers (any answer may come); of the known hosts, the
  parsing of the file, hashed names and markers.
* Cipher and file formats, GitHub's API, the RDP protocol and its web client:
  outside `src/` or without a protocol of steps.  What the code relies on is
  modelled as an external action with every outcome.
* The text of anything: hosts, names, files and messages are members of small
  sets; a bundle is a set of hosts and links.
* The gateway failing to give its URL; one write of a library file being torn
  (that is `ListFile`'s subject).

## 7. Where it could go on

Proofs: the safety of the neighbours that section 3 names and no theorem states
yet (`StoredPasswordsStay`, `CopyKeepsItsBastion`, `NeverAnOlderRelease`,
`RefreshNeverDials`), and the safety part of `CredentialsGo`: whom the marker and
the lists know of, after every crash.  Models: the port-probe poller next to the
SSH one, nested automation runs, the op cache.

## 8. Running

    tlc -config MCConnectionPool.cfg MCConnectionPool
    tlc -config MCHosts.cfg MCHosts            # and so on: each run's configuration
    tlc -config MCKeySetupReference.cfg KeySetup
    tlc -config MCHostPollersTwice.cfg HostPollers
    tlc -config MCDeskLoop.cfg MCDesk
    tlapm ConnectionPoolProofs.tla             # and the other *Proofs modules
