------------------------------ MODULE SftpTab ------------------------------
(***************************************************************************)
(* One tab of the file browser: screens/SftpView.svelte with its store     *)
(* (stores/sftp.ts), its queue of operations (stores/sftpQueue.ts), and    *)
(* the main process behind it (ipc/sftp.ts, core/ssh/sftp.ts).             *)
(*                                                                         *)
(* Selections are chosen where they are used: which entries are marked is  *)
(* the user's doing.  Progress ticks carry no state but their numbers.     *)
(* The tab's effects run in the microtask after a change, so everything    *)
(* else waits for them (EffectsRan).                                       *)
(***************************************************************************)
EXTENDS Integers, FiniteSets, Sequences, SequencesExt

CONSTANTS
    Dirs,         \* directories, the same set on either side
    Home,         \* the root: a pane not listed yet joins its empty path like it
    Names,        \* entries of a directory
    Files,        \* files that may be opened in the editor
    MaxParallel,  \* MAX_PARALLEL_OPS
    MaxOps,       \* bound: operations asked for in one behaviour
    MaxLists      \* bound: listings in flight at a time

ASSUME TabAssumptions ==
    /\ Home \in Dirs /\ IsFiniteSet(Names)
    /\ MaxParallel \in Nat \ {0}
    /\ MaxOps \in Nat /\ MaxLists \in Nat

Sides == {"local", "remote"}

VARIABLES
    tab,        \* the component: "opening", "open", "failed", "gone"
    backend,    \* the main process's side of it
    reply,      \* the answer to sftp_open on its way: "none", "ok", "error"
    announced,  \* the event sftp-connected is on its way
    status,     \* what the store shows
    closing,    \* a sftp_close is on its way
    panes,      \* per side: path and loading
    lists,      \* per side and directory: listings in flight
    outbox,     \* operations not yet sent
    pending,    \* operations sent and not answered
    nextOp, nextBatch,
    refresh,    \* panes to list again once everything has drained
    unseen,     \* history: panes changed since they were last listed
    error,      \* the last operation error is shown
    reading,    \* files being read for the editor
    editor,     \* the open editor: the file it is titled with, the file its text is of
    saving,     \* the write in flight, with the same two
    saved       \* history: writes done, <<path, text>>

opening == <<backend, reply, announced, status, closing>>
queue == <<outbox, pending, nextOp, nextBatch, refresh, unseen, error>>
editing == <<reading, editor, saving, saved>>
vars == <<tab, opening, panes, lists, queue, editing>>

NoFile == "none"
NoEditor == [path |-> NoFile, text |-> NoFile]
Editors == {NoEditor} \cup [path : Files, text : Files \cup {NoFile}]

Key(side, dir, name) == <<side, dir, name>>

Ops == [id : 1..MaxOps, batch : 1..MaxOps, key : Sides \X Dirs \X Names, side : Sides]

ListsInFlight == MapThenSumSet(LAMBDA x : lists[x[1]][x[2]], Sides \X Dirs)

-----------------------------------------------------------------------------
(* The queue (stores/sftpQueue.ts). *)

Oldest(queued, going) ==
    CHOOSE b \in {o.batch : o \in queued \cup going} :
        \A o \in queued \cup going : b <= o.batch

(* Mutant: nobody speaks for a path but those running. *)
KeyIsFreeOfRunning(o, queued, going) == \A p \in going : p.key # o.key

(* Mutant: everything queued speaks for its path. *)
KeyIsUnique(o, queued, going) ==
    /\ \A p \in going : p.key # o.key
    /\ \A p \in queued : p.key = o.key => p = o

(* The path is free: nothing running writes it and nothing queued earlier  *)
(* has spoken for it.                                                      *)
KeyIsFree(o, queued, going) ==
    /\ \A p \in going : p.key # o.key
    /\ \A p \in queued : p.key = o.key => p.id >= o.id

Startable(queued, going) ==
    {o \in queued : /\ o.batch = Oldest(queued, going)
                    /\ KeyIsFree(o, queued, going)}

(* readyOps(): of the operations that may start, in queue order, as many   *)
(* as there are slots.                                                     *)
ReadyOps(queued, going) ==
    LET free == Startable(queued, going)
    IN  {o \in free :
            Cardinality({p \in free : p.id < o.id}) < MaxParallel - Cardinality(going)}

PumpDue == tab = "open" /\ ReadyOps(outbox, pending) # {}

RelistDue == tab = "open" /\ outbox = {} /\ pending = {} /\ refresh # {}

EffectsRan == ~PumpDue /\ ~RelistDue

-----------------------------------------------------------------------------
TypeOK ==
    /\ tab \in {"opening", "open", "failed", "gone"}
    /\ backend \in {"connecting", "channel", "registered", "closed", "failed"}
    /\ reply \in {"none", "ok", "error"}
    /\ announced \in BOOLEAN /\ closing \in BOOLEAN
    /\ status \in {"none", "connecting", "connected"}
    /\ panes \in [Sides -> [path : Dirs, loading : BOOLEAN]]
    /\ lists \in [Sides -> [Dirs -> Nat]]
    /\ outbox \subseteq Ops /\ pending \subseteq Ops
    /\ nextOp \in 1..MaxOps + 1 /\ nextBatch \in 1..MaxOps + 1
    /\ refresh \subseteq Sides /\ unseen \subseteq Sides
    /\ error \in BOOLEAN
    /\ reading \subseteq Files
    /\ editor \in Editors /\ saving \in Editors
    /\ saved \subseteq Files \X Files
    \* operations exist only for a tab that is open, on a session that is registered
    /\ tab # "open" => outbox = {} /\ pending = {}
    /\ tab = "open" => backend = "registered"
    /\ \A o, p \in outbox \cup pending : o.id = p.id => o = p

Init ==
    /\ tab = "opening" /\ backend = "connecting"
    /\ reply = "none" /\ announced = FALSE /\ status = "none" /\ closing = FALSE
    /\ panes = [s \in Sides |-> [path |-> Home, loading |-> TRUE]]
    /\ lists = [s \in Sides |-> [d \in Dirs |-> 0]]
    /\ outbox = {} /\ pending = {} /\ nextOp = 1 /\ nextBatch = 1
    /\ refresh = {} /\ unseen = {} /\ error = FALSE
    /\ reading = {} /\ editor = NoEditor /\ saving = NoEditor /\ saved = {}

-----------------------------------------------------------------------------
(* Opening and closing. *)

(* SshSession.shared(): a connection from the pool, or a reason why not.   *)
SharedAnswers ==
    /\ backend = "connecting"
    /\ \/ backend' = "channel" /\ UNCHANGED reply
       \/ backend' = "failed" /\ reply' = "error"
    /\ UNCHANGED <<tab, announced, status, closing, panes, lists, queue, editing>>

(* openSftp(): the session is registered and announced before the command  *)
(* answers; a refusal gives the connection back.                           *)
ChannelAnswers ==
    /\ backend = "channel"
    /\ \/ backend' = "registered" /\ announced' = TRUE /\ reply' = "ok"
       \/ backend' = "failed" /\ reply' = "error" /\ UNCHANGED announced
    /\ UNCHANGED <<tab, status, closing, panes, lists, queue, editing>>

(* sftp-connected is routed to a session the store knows, or nowhere.      *)
ConnectedArrives ==
    /\ announced
    /\ announced' = FALSE
    /\ status' = IF tab = "open" THEN "connected" ELSE status
    /\ UNCHANGED <<tab, backend, reply, closing, panes, lists, queue, editing>>

(* Mutant: a tab gone meanwhile is forgotten. *)
OpenResolvesUnheeded ==
    /\ reply = "ok" /\ ~announced
    /\ reply' = "none"
    /\ IF tab = "gone"
       THEN UNCHANGED <<tab, status, lists>>
       ELSE /\ tab' = "open" /\ status' = "connecting"
            /\ lists' = [lists EXCEPT !["local"][Home] = @ + 1, !["remote"][Home] = @ + 1]
    /\ UNCHANGED <<backend, announced, closing, panes, queue, editing>>

(* sftp_open's answer.  What the main process posts arrives in the order   *)
(* it was posted, the event before the answer.                             *)
OpenResolves ==
    /\ reply = "ok" /\ ~announced
    /\ reply' = "none"
    /\ IF tab = "gone"
       THEN closing' = TRUE /\ UNCHANGED <<tab, status, lists>>
       ELSE /\ tab' = "open" /\ status' = "connecting"
            /\ \E start \in Dirs :
                 lists' = [lists EXCEPT !["local"][Home] = @ + 1,
                                        !["remote"][start] = @ + 1]
            /\ UNCHANGED closing
    /\ UNCHANGED <<backend, announced, panes, queue, editing>>

OpenRejected ==
    /\ reply = "error"
    /\ reply' = "none"
    /\ tab' = IF tab = "gone" THEN "gone" ELSE "failed"
    /\ UNCHANGED <<backend, announced, status, closing, panes, lists, queue, editing>>

(* Mutant: what is queued outlives the tab. *)
CloseLate ==
    /\ tab # "gone" /\ EffectsRan
    /\ tab' = "gone"
    /\ closing' = (tab = "open")
    /\ status' = "none"
    /\ UNCHANGED <<backend, reply, announced, panes, lists, queue, editing>>

(* onDestroy(): a tab still opening leaves the closing to OpenResolves.    *)
Close ==
    /\ tab # "gone" /\ EffectsRan
    /\ tab' = "gone"
    /\ closing' = (tab = "open")
    /\ status' = "none"
    /\ outbox' = {} /\ pending' = {} /\ refresh' = {} /\ unseen' = {} /\ error' = FALSE
    /\ reading' = {} /\ editor' = NoEditor
    /\ UNCHANGED <<backend, reply, announced, panes, lists, nextOp, nextBatch,
                   saving, saved>>

(* closeSftp(): the channel is ended and the connection given back.        *)
CloseArrives ==
    /\ closing
    /\ closing' = FALSE
    /\ backend' = "closed"
    /\ UNCHANGED <<tab, reply, announced, status, panes, lists, queue, editing>>

-----------------------------------------------------------------------------
(* Listings. *)

Asked(side, dir) ==
    /\ lists' = [lists EXCEPT ![side][dir] = @ + 1]
    /\ panes' = [panes EXCEPT ![side].loading = TRUE]

(* Entering a directory, a pasted path, the refresh button.                *)
Navigate(side, dir) ==
    /\ tab = "open" /\ EffectsRan
    /\ ListsInFlight < MaxLists
    /\ Asked(side, dir)
    /\ unseen' = unseen \ {side}
    /\ UNCHANGED <<tab, opening, outbox, pending, nextOp, nextBatch, refresh, error, editing>>

(* sftp.listing(): the pane shows what was answered, whatever it had       *)
(* before; paneError() and sessionError(): it only stops waiting.  A       *)
(* remote listing that fails is the session's error as well.               *)
ShowListing(side, dir) ==
    /\ panes' = [panes EXCEPT ![side] = [path |-> dir, loading |-> FALSE]]
    /\ UNCHANGED error

ShowListingError(side) ==
    /\ panes' = [panes EXCEPT ![side].loading = FALSE]
    /\ error' = (error \/ side = "remote")

(* sftp_list, list_local_dir: the answers, in whatever order they come.    *)
Listed(side, dir) ==
    /\ lists[side][dir] > 0 /\ EffectsRan
    /\ lists' = [lists EXCEPT ![side][dir] = @ - 1]
    /\ IF tab = "open" THEN ShowListing(side, dir) \/ ShowListingError(side)
                       ELSE UNCHANGED <<panes, error>>
    /\ UNCHANGED <<tab, opening, outbox, pending, nextOp, nextBatch, refresh, unseen, editing>>

-----------------------------------------------------------------------------
(* Operations. *)

(* enqueue(): one batch, the operations in the order of `keys`; an error   *)
(* still shown goes only when nothing is draining.                         *)
Enqueue(side, keys) ==
    /\ tab = "open" /\ EffectsRan
    /\ nextOp + Len(keys) <= MaxOps + 1
    /\ outbox' = outbox \cup
         {[id |-> nextOp + i - 1, batch |-> nextBatch, key |-> keys[i], side |-> side] :
             i \in DOMAIN keys}
    /\ error' = (error /\ outbox \cup pending # {})
    /\ nextOp' = nextOp + Len(keys)
    /\ nextBatch' = nextBatch + 1
    /\ UNCHANGED <<tab, opening, panes, lists, pending, refresh, unseen, editing>>

Several == UNION {[1..n -> Names] : n \in 1..MaxOps}

(* The marked entries, in the order of the listing (markedEntries()).      *)
Marked == {SetToSeq(marks) : marks \in SUBSET Names \ {{}}}

(* uploadOp(), downloadOp(): what is written is the name in the directory  *)
(* shown on the other side.                                                *)
Into(side, names) ==
    Enqueue(side, [i \in DOMAIN names |-> Key(side, panes[side].path, names[i])])

Upload == \E names \in Marked : Into("remote", names)

Download == \E names \in Marked : Into("local", names)

(* Files dropped on the window may have the same name twice.               *)
UploadExternal == \E names \in Several : Into("remote", names)

(* One file dragged to the other pane. *)
DropOn(side) == \E name \in Names : Into(side, <<name>>)

(* What is marked when the question is answered is deleted, not what was   *)
(* marked when it was asked.                                               *)
ConfirmRemove == \E names \in Marked : Into("remote", names)

(* openPrompt(), submitPrompt(): a folder is made in the directory shown;  *)
(* the entry to rename was taken when the prompt opened, so its directory  *)
(* need not be the one shown now.                                          *)
SubmitPrompt ==
    \E dir \in Dirs, name \in Names : Enqueue("remote", <<Key("remote", dir, name)>>)

(* The effect that starts what may start; each operation is sent with its  *)
(* id.                                                                     *)
Pump ==
    /\ PumpDue
    /\ outbox' = outbox \ ReadyOps(outbox, pending)
    /\ pending' = pending \cup ReadyOps(outbox, pending)
    /\ UNCHANGED <<tab, opening, panes, lists, nextOp, nextBatch, refresh, unseen, error, editing>>

(* Mutant: only a success changes anything. *)
ApplyGoodOp(op, ok) ==
    /\ pending' = pending \ {op}
    /\ refresh' = IF ok THEN refresh \cup {op.side} ELSE refresh
    /\ unseen' = unseen \cup {op.side}
    /\ error' = (error \/ ~ok)

(* Mutant: the last result is the one shown. *)
ApplyLastOp(op, ok) ==
    /\ pending' = pending \ {op}
    /\ refresh' = refresh \cup {op.side}
    /\ unseen' = unseen \cup {op.side}
    /\ error' = ~ok

(* Folding a finished operation in: a success leaves an earlier failure    *)
(* shown.                                                                  *)
ApplyOpDone(op, ok) ==
    /\ pending' = pending \ {op}
    /\ refresh' = refresh \cup {op.side}
    /\ unseen' = unseen \cup {op.side}
    /\ error' = (error \/ ~ok)

(* sftp_upload .. sftp_delete: sftp-op-done, good or bad, with the id the  *)
(* operation was sent with.  A command that is rejected ends the same way  *)
(* (onDispatchError()).                                                    *)
OpDone(op, ok) ==
    /\ op \in pending /\ EffectsRan
    /\ ApplyOpDone(op, ok)
    /\ UNCHANGED <<tab, opening, panes, lists, outbox, nextOp, nextBatch, editing>>

(* The effect that lists the changed panes again, once all has drained.    *)
Relist ==
    /\ RelistDue
    /\ refresh' = {}
    /\ unseen' = unseen \ refresh
    /\ lists' = [s \in Sides |->
                   IF s \in refresh THEN [lists[s] EXCEPT ![panes[s].path] = @ + 1] ELSE lists[s]]
    /\ panes' = [s \in Sides |->
                   IF s \in refresh THEN [panes[s] EXCEPT !.loading = TRUE] ELSE panes[s]]
    /\ UNCHANGED <<tab, opening, outbox, pending, nextOp, nextBatch, error, editing>>

-----------------------------------------------------------------------------
(* The editor.  It covers the panes while it is open. *)

OpenFile(f) ==
    /\ tab = "open" /\ EffectsRan /\ editor = NoEditor
    /\ reading' = reading \cup {f}
    /\ UNCHANGED <<tab, opening, panes, lists, queue, editor, saving, saved>>

(* openEditor()'s await: the answer opens the editor, or puts another file *)
(* into the open one, whose text was taken when it was made.               *)
FileRead(f) ==
    /\ f \in reading
    /\ reading' = reading \ {f}
    /\ \/ editor' = [path |-> f, text |-> editor.text]
       \/ UNCHANGED editor
    /\ UNCHANGED <<tab, opening, panes, lists, queue, saving, saved>>

(* The text widget is made, from the content at hand by then.              *)
EditorReady ==
    /\ editor # NoEditor /\ editor.text = NoFile
    /\ editor' = [editor EXCEPT !.text = editor.path]
    /\ UNCHANGED <<tab, opening, panes, lists, queue, reading, saving, saved>>

SaveFile ==
    /\ editor.text # NoFile /\ saving = NoEditor /\ EffectsRan
    /\ ListsInFlight < MaxLists
    /\ saving' = editor
    /\ UNCHANGED <<tab, opening, panes, lists, queue, reading, editor, saved>>

(* The write's answer closes the editor and lists the pane, or leaves it   *)
(* open with the error.                                                    *)
FileSaved ==
    /\ saving # NoEditor /\ EffectsRan
    /\ saving' = NoEditor
    /\ \/ /\ saved' = saved \cup {<<saving.path, saving.text>>}
          /\ editor' = NoEditor
          /\ IF tab # "open" THEN UNCHANGED <<panes, lists, unseen>>
             ELSE \E side \in Sides :
                    /\ Asked(side, panes[side].path)
                    /\ unseen' = unseen \ {side}
       \/ UNCHANGED <<saved, editor, panes, lists, unseen>>
    /\ UNCHANGED <<tab, opening, outbox, pending, nextOp, nextBatch, refresh, error, reading>>

CloseEditor ==
    /\ editor # NoEditor
    /\ editor' = NoEditor
    /\ UNCHANGED <<tab, opening, panes, lists, queue, reading, saving, saved>>

-----------------------------------------------------------------------------
Next ==
    \/ SharedAnswers \/ ChannelAnswers \/ ConnectedArrives
    \/ OpenResolves \/ OpenRejected \/ Close \/ CloseArrives
    \/ \E side \in Sides, dir \in Dirs : Navigate(side, dir) \/ Listed(side, dir)
    \/ Upload \/ UploadExternal \/ Download \/ ConfirmRemove \/ SubmitPrompt
    \/ \E side \in Sides : DropOn(side)
    \/ Pump \/ Relist
    \/ \E op \in pending, ok \in BOOLEAN : OpDone(op, ok)
    \/ \E f \in Files : OpenFile(f) \/ FileRead(f)
    \/ EditorReady \/ SaveFile \/ FileSaved \/ CloseEditor

(* Dials and channels are bounded by timeouts, effects and replies by the  *)
(* runtime; an operation or a listing is answered or fails with its        *)
(* connection, which keepalives find dead (client.ts).                     *)
Fairness ==
    /\ WF_vars(SharedAnswers) /\ WF_vars(ChannelAnswers) /\ WF_vars(ConnectedArrives)
    /\ WF_vars(OpenResolves) /\ WF_vars(OpenRejected) /\ WF_vars(CloseArrives)
    /\ WF_vars(Pump) /\ WF_vars(Relist)
    /\ WF_vars(\E op \in pending, ok \in BOOLEAN : OpDone(op, ok))
    /\ \A side \in Sides, dir \in Dirs : WF_vars(Listed(side, dir))

Spec == Init /\ [][Next]_vars /\ Fairness

-----------------------------------------------------------------------------
(* The queue keeps its promises: batches in order, operations on one path  *)
(* in order, no more than MAX_PARALLEL_OPS (sftpQueue.ts).                 *)
Queue == INSTANCE TransferQueue WITH waiting <- outbox, running <- pending

ImplementsQueue == Queue!QSpec

(* The inductive invariant behind it: ids and batches are handed out in    *)
(* order, and no two operations share an id.                               *)
OpsInOrder ==
    /\ nextOp \in Nat /\ nextBatch \in Nat
    /\ \A o \in outbox \cup pending :
        /\ o.id \in Nat /\ o.id < nextOp
        /\ o.batch \in Nat /\ o.batch < nextBatch
    /\ \A o, p \in outbox \cup pending : o.id = p.id => o = p

(* Every operation asked for is sent and answered, or the tab goes:        *)
(* readyOps() never leaves an operation behind.                            *)
OpsSettle ==
    \A i \in 1..MaxOps :
        (\E o \in outbox \cup pending : o.id = i) ~> (\A o \in outbox \cup pending : o.id # i)

(* A pane an operation changed is listed again, however many batches       *)
(* drain in between and whatever fails.                                    *)
ChangesAreListed ==
    \A side \in Sides : (side \in unseen) ~> (side \notin unseen)

(* A failure stays on show until the user starts afresh: an operation of   *)
(* the same batch that succeeds later does not cover it.                   *)
FailureStaysShown ==
    [][(error /\ ~error') => \/ tab' = "gone"
                            \/ (outbox = {} /\ pending = {} /\ outbox' # {})]_vars

(* A tab that is closed, also while it is opening, gives its connection    *)
(* back.                                                                   *)
ClosedTabFreesSession == (tab = "gone") ~> (backend \in {"closed", "failed"})

(* Said of the code: the open editor is one file, its text that file's     *)
(* ("one at a time", SftpView.svelte).  A second read that answers late    *)
(* changes the title under the first one's text.                           *)
SavesWhatWasRead == \A s \in saved : s[1] = s[2]

(* Said of the code: "Mirror the store connection status to the sidebar    *)
(* dot" (SftpView.svelte).  The event comes before the store knows the     *)
(* session.                                                                *)
ConnectedIsShown == (tab = "open") ~> (status = "connected" \/ tab = "gone")

=============================================================================
