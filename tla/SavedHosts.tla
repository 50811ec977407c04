----------------------------- MODULE SavedHosts -----------------------------
(* The manual hosts: kept in hosts.toml, edited from the dashboard's dialogs *)
(* and by key setup, merged with ~/.ssh/config into the list the app shows.  *)
(* Every change loads the file, edits the list and saves it, without a lock, *)
(* and the renderer then asks for a reload. The process may end anywhere.    *)
EXTENDS ListFile

CONSTANTS
    Names,      \* host names
    Imports,    \* the names ~/.ssh/config defines, each behind a jump host
    MaxCrashes,
    MaxRefusals

ASSUME ImportsAreNames == Imports \subseteq Names
ASSUME HostsAreAFile == "hosts" \in Files

VARIABLES
    call,       \* what each call does and how far it is
    listed,     \* the merged list, in the main process and in the renderer
    locked,     \* this start of the app cannot use the keyring
    dialog,     \* the dashboard's dialog
    crashes, refusals,
    raced       \* history: two calls have been at it at once

hostVars == <<inode, disk, tmp, held, call, listed, locked, dialog, crashes, refusals, raced>>

Entry(n, pw, src) ==
    [name |-> n, pw |-> pw, jump |-> FALSE, origin |-> None, keyed |-> FALSE, src |-> src]
Import(n) == [Entry(n, "none", "config") EXCEPT !.jump = TRUE]

(* hosts.toml's hosts come first; an import is hidden by one of its name or  *)
(* by one that was made from it.                                             *)
Merged(manual) ==
    manual \cup {Import(n) : n \in {m \in Imports :
        \A h \in manual : h.name # m /\ h.origin # m}}

(* On disk a password is sealed when the keyring is there, and a sealed one  *)
(* that cannot be opened is read as none.                                    *)
Encrypted(list) ==
    {[h EXCEPT !.pw = IF @ = "plain" /\ ~locked THEN "sealed" ELSE @] : h \in list}
Decrypted(list) ==
    {[h EXCEPT !.pw = IF @ # "sealed" THEN @ ELSE IF locked THEN "none" ELSE "plain"] : h \in list}

NoCall == [op |-> "none", at |-> "idle", name |-> None, pw |-> "none",
           from |-> "none", imported |-> FALSE, list |-> {}]
NoDialog == [kind |-> "none", name |-> None, dirty |-> FALSE, asking |-> FALSE, saving |-> None]

HostsInit ==
    /\ FilesInit
    /\ locked \in BOOLEAN
    /\ call = [c \in Calls |-> NoCall]
    /\ listed = Merged(Decrypted(OnDisk("hosts")))
    /\ dialog = NoDialog
    /\ crashes = 0 /\ refusals = 0 /\ raced = FALSE

Done(c) == [NoCall EXCEPT !.op = call[c].op, !.at = "done"]
Busy(c) == call[c].at \notin {"idle", "done"}
Named(n) == {h \in listed : h.name = n}

(* A call is made in order of its number. *)
Asks(c, op, n, pw, from) ==
    /\ call[c] = NoCall
    /\ \A d \in Calls : d < c => call[d].op # "none"
    /\ call' = [call EXCEPT ![c] = [NoCall EXCEPT !.op = op, !.name = n, !.pw = pw, !.from = from,
                                                  !.at = IF op = "key" THEN "setup" ELSE "asked"]]

Untouched == UNCHANGED <<inode, disk, tmp, held, listed, locked, crashes, refusals, raced>>

----------------------------------------------------------------------------
(* The dashboard. A dialog covers it, so nothing else is reached while one   *)
(* is open.                                                                  *)
OpenDialog ==
    /\ dialog = NoDialog
    /\ \/ dialog' = [NoDialog EXCEPT !.kind = "add"]
       \/ \E h \in listed :
             \/ dialog' = [NoDialog EXCEPT !.kind = "edit", !.name = h.name]
             \/ h.src = "manual" /\ ~h.keyed
                /\ dialog' = [NoDialog EXCEPT !.kind = "key", !.name = h.name]
    /\ Untouched /\ UNCHANGED call

(* From the editor of a manual host: its changes go without a question. *)
OpenDelete ==
    /\ dialog.kind = "edit"
    /\ \E h \in Named(dialog.name) : h.src = "manual"
    /\ dialog' = [NoDialog EXCEPT !.kind = "delete", !.name = dialog.name]
    /\ Untouched /\ UNCHANGED call

Type ==
    /\ dialog.kind \in {"add", "edit"} /\ ~dialog.dirty
    /\ dialog' = [dialog EXCEPT !.dirty = TRUE]
    /\ Untouched /\ UNCHANGED call

(* The scrim, Escape and the cross ask when there are changes, but not while *)
(* they are being saved.                                                     *)
RequestClose ==
    /\ dialog # NoDialog /\ ~dialog.asking
    /\ dialog' = IF dialog.dirty /\ dialog.saving = None THEN [dialog EXCEPT !.asking = TRUE]
                                                         ELSE NoDialog
    /\ Untouched /\ UNCHANGED call

KeepEditing ==
    /\ dialog.asking
    /\ dialog' = [dialog EXCEPT !.asking = FALSE]
    /\ Untouched /\ UNCHANGED call

Cancel ==
    /\ dialog # NoDialog
    /\ dialog' = NoDialog
    /\ Untouched /\ UNCHANGED call

(* Save, in the form or from the question. Adding refuses a name that is     *)
(* listed; an edit keeps its name.                                           *)
Submit(c) ==
    /\ dialog.kind \in {"add", "edit"} /\ dialog.saving = None
    /\ \E n \in Names, pw \in {"none", "plain"} :
          /\ IF dialog.kind = "add" THEN Named(n) = {} ELSE n = dialog.name
          /\ Asks(c, "save", n, pw, "dialog")
    /\ dialog' = [dialog EXCEPT !.saving = c]
    /\ Untouched

ConfirmDelete(c) ==
    /\ dialog.kind = "delete"
    /\ Asks(c, "delete", dialog.name, "none", "delete")
    /\ Untouched /\ UNCHANGED dialog

(* A card dropped on a folder is saved as its editor would save it. *)
Drop(c) ==
    /\ dialog = NoDialog
    /\ \E h \in listed : Asks(c, "save", h.name, "none", "card")
    /\ Untouched /\ UNCHANGED dialog

(* One key setup at a time; the dialog has asked whether passwords go too. *)
ConfirmKey(c) ==
    /\ dialog.kind = "key"
    /\ \A d \in Calls : call[d].op = "key" => ~Busy(d)
    /\ \E pw \in {"keeps", "drops"} : Asks(c, "key", dialog.name, pw, "card")
    /\ dialog' = NoDialog
    /\ Untouched

----------------------------------------------------------------------------
(* A call, in the main process.                                             *)
Goes(c, at) == call' = [call EXCEPT ![c].at = at]
Idle == UNCHANGED <<listed, locked, dialog, crashes, refusals>>

KeySetUp(c) ==
    /\ call[c].at = "setup"
    /\ \E k \in {[call[c] EXCEPT !.at = "asked"], Done(c)} : call' = [call EXCEPT ![c] = k]
    /\ Untouched /\ UNCHANGED dialog

(* save_host looks the name up in the list of that moment: an import's copy  *)
(* takes over what the form never saw.                                       *)
Starts(c) ==
    /\ call[c].at = "asked"
    /\ call' = [call EXCEPT ![c].at = "load",
                            ![c].imported = \E h \in Named(call[c].name) : h.src = "config"]
    /\ raced' = (raced \/ \E d \in Calls \ {c} : call[d].at \notin {"idle", "done", "setup", "asked"})
    /\ UNCHANGED fileState /\ Idle

(* Mutant: an edit writes the password field as the form has it. *)
UpsertedBlank(list, k) ==
    LET old == {h \in list : h.name = k.name}
        new == [Entry(k.name, k.pw, "manual") EXCEPT !.jump = k.imported, !.origin = k.name]
    IN (list \ old) \cup {new}

(* Mutant: only an entry of the file keeps its jump host. *)
UpsertedBare(list, k) ==
    LET old == {h \in list : h.name = k.name}
        new == Entry(k.name, k.pw, "manual")
        kept == {[h EXCEPT !.pw = IF k.pw = "none" THEN @ ELSE k.pw] : h \in old}
    IN (list \ old) \cup IF old = {} THEN {new} ELSE kept

(* An existing entry keeps what the form cannot show. *)
Upserted(list, k) ==
    LET old == {h \in list : h.name = k.name}
        new == Entry(k.name, k.pw, "manual")
        kept == {[new EXCEPT !.pw = IF @ = "none" THEN h.pw ELSE @,
                             !.jump = h.jump, !.origin = h.origin, !.keyed = h.keyed] : h \in old}
        copy == [new EXCEPT !.jump = k.imported, !.origin = IF k.imported THEN k.name ELSE None]
    IN (list \ old) \cup IF old = {} THEN {copy} ELSE kept

Removed(list, k) == {h \in list : h.name # k.name}

Keyed(list, k) ==
    {IF h.name # k.name THEN h
     ELSE [h EXCEPT !.keyed = TRUE, !.pw = IF k.pw = "drops" THEN "none" ELSE @] : h \in list}

Edited(list, k) ==
    CASE k.op = "save" -> Upserted(list, k)
      [] k.op = "delete" -> Removed(list, k)
      [] k.op = "key" -> Keyed(list, k)

(* The key of a host that is not in the file is not recorded. *)
Loads(c) ==
    /\ call[c].at = "load" /\ Readable("hosts")
    /\ LET list == Decrypted(OnDisk("hosts"))
           absent == call[c].op = "key" /\ \A h \in list : h.name # call[c].name
       IN call' = [call EXCEPT ![c].at = IF absent THEN "reload" ELSE "open",
                               ![c].list = IF absent THEN {} ELSE Encrypted(Edited(list, call[c]))]
    /\ UNCHANGED <<fileState, raced>> /\ Idle

OpensTmp(c) ==
    /\ call[c].at = "open"
    /\ Opens("hosts", c) /\ Goes(c, "write")
    /\ UNCHANGED raced /\ Idle

WritesTmp(c) ==
    /\ call[c].at = "write"
    /\ Writes("hosts", c, call[c].list) /\ Goes(c, "rename")
    /\ UNCHANGED raced /\ Idle

Replaces(c) ==
    /\ call[c].at = "rename"
    /\ Renames("hosts")
    /\ call' = [call EXCEPT ![c].at = "reload", ![c].list = {}]
    /\ UNCHANGED raced /\ Idle

(* The dialog that made the call, if it is still there, shows why. *)
Fails(c) ==
    /\ call' = [call EXCEPT ![c] = Done(c)]
    /\ dialog' = CASE call[c].from = "dialog" /\ dialog.saving = c ->
                          [dialog EXCEPT !.saving = None, !.asking = FALSE]
                   [] call[c].from = "delete" -> NoDialog
                   [] OTHER -> dialog

CannotReplace(c) ==
    /\ call[c].at = "rename"
    /\ tmp["hosts"] = None \/ refusals < MaxRefusals
    /\ refusals' = IF tmp["hosts"] = None THEN refusals ELSE refusals + 1
    /\ RenameFails("hosts") /\ Fails(c)
    /\ UNCHANGED <<listed, locked, crashes, raced>>

CannotRead(c) ==
    /\ call[c].at \in {"load", "reload"} /\ ~Readable("hosts")
    /\ Fails(c)
    /\ UNCHANGED <<fileState, listed, locked, crashes, refusals, raced>>

Reloads(c) ==
    /\ call[c].at = "reload" /\ Readable("hosts")
    /\ call' = [call EXCEPT ![c].at = "publish", ![c].list = Decrypted(OnDisk("hosts"))]
    /\ UNCHANGED <<fileState, raced>> /\ Idle

Publishes(c) ==
    /\ call[c].at = "publish"
    /\ listed' = Merged(call[c].list)
    /\ call' = [call EXCEPT ![c].at = "answer", ![c].list = {}]
    /\ UNCHANGED <<fileState, locked, dialog, crashes, refusals, raced>>

(* Back in the renderer, an editor's save and a delete close the dialog,     *)
(* whichever is open by then.                                                *)
Answers(c) ==
    /\ call[c].at = "answer"
    /\ call' = [call EXCEPT ![c] = Done(c)]
    /\ dialog' = IF call[c].from = "card" THEN dialog ELSE NoDialog
    /\ UNCHANGED <<fileState, listed, locked, crashes, refusals, raced>>

(* The app ends and is started again, with or without its keyring. *)
Crash ==
    /\ crashes < MaxCrashes
    /\ crashes' = crashes + 1
    /\ FilesCrash
    /\ call' = [c \in Calls |-> IF Busy(c) THEN Done(c) ELSE call[c]]
    /\ locked' \in BOOLEAN
    /\ listed' = IF Readable("hosts") THEN Merged(Decrypted(OnDisk("hosts"))') ELSE {}
    /\ dialog' = NoDialog
    /\ UNCHANGED <<refusals, raced>>

HostsNext ==
    \/ OpenDialog \/ OpenDelete \/ Type \/ RequestClose \/ KeepEditing \/ Cancel \/ Crash
    \/ \E c \in Calls :
          \/ Submit(c) \/ ConfirmDelete(c) \/ Drop(c) \/ ConfirmKey(c)
          \/ KeySetUp(c) \/ Starts(c) \/ Loads(c) \/ OpensTmp(c) \/ WritesTmp(c) \/ Replaces(c)
          \/ CannotReplace(c) \/ CannotRead(c) \/ Reloads(c) \/ Publishes(c) \/ Answers(c)

HostsSpec == HostsInit /\ [][HostsNext]_hostVars

----------------------------------------------------------------------------
HostsTypeOK ==
    /\ FilesTypeOK
    /\ \A c \in Calls : call[c].at \in {"idle", "setup", "asked", "load", "open", "write", "rename",
                                        "reload", "publish", "answer", "done"}
    /\ dialog.kind \in {"none", "add", "edit", "delete", "key"}
    /\ raced \in BOOLEAN

(* hosts.toml is the old list or the new one, whatever interrupts a save:    *)
(* it changes only as a save is completed, and to all that it was to save.   *)
(* Saves that run into each other are left out (see OverlapKeepsTheFile).    *)
SaveIsAllOrNothing ==
    [][OnDisk("hosts")' # OnDisk("hosts") /\ ~raced =>
         \E c \in Calls : call[c].at = "rename" /\ call'[c].at = "reload"
                          /\ OnDisk("hosts")' = call[c].list]_hostVars

(* "avoids a corrupt hosts.toml if the process is interrupted mid-write":    *)
(* the file always parses and is never emptied but by a delete.              *)
OverlapKeepsTheFile ==
    Readable("hosts") /\ (OnDisk("hosts") = {} => \E c \in Calls : call[c].op = "delete")

(* A stored password goes with its host, or when key setup has turned        *)
(* password login off; an edit that leaves the field blank, a card that is   *)
(* moved and a crash keep it. A keyring that cannot be used is left out.     *)
PasswordsGoForAReason ==
    [][~raced /\ ~locked =>
         \A old \in OnDisk("hosts"), new \in OnDisk("hosts")' :
            old.name = new.name /\ old.pw # "none" /\ new.pw = "none" =>
               \E c \in Calls : call[c].op = "key" /\ call[c].pw = "drops"
                                /\ call[c].name = old.name /\ call[c].at = "rename"]_hostVars

(* A copy of a host of ~/.ssh/config stays behind its jump host, from its    *)
(* first save on: it never dials the target direct.                          *)
CopyKeepsItsBastion ==
    raced \/ \A h \in OnDisk("hosts") : h.name \in Imports => h.jump

(* Once nothing is under way the app lists what the files hold. *)
ListFollowsTheFile ==
    ~raced /\ ~(\E c \in Calls : Busy(c)) /\ refusals = 0 =>
        listed = Merged(Decrypted(OnDisk("hosts")))

(* "Changed since the dialog opened: closing it by accident then asks first":*)
(* an edit that is not being saved is closed by its user, never by a call.   *)
UnsavedEditsAreAsked ==
    [][dialog.dirty /\ dialog.saving = None /\ dialog' = NoDialog =>
         call' = call \/ crashes' # crashes]_hostVars
=============================================================================
