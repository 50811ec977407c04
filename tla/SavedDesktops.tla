--------------------------- MODULE SavedDesktops ---------------------------
(* The remote desktop profiles: kept in remote-desktop.toml by id, listed by *)
(* the Remote Desktop screen. As for the hosts, a change loads the file,     *)
(* edits the list and saves it, and the screen then reads the list again;    *)
(* unlike the hosts, the list lives in the screen alone.                     *)
EXTENDS ListFile

CONSTANTS Ids

VARIABLES
    request,    \* what each call does and how far it is
    tiles,      \* the profiles the screen shows
    editor,     \* the screen's dialog
    together    \* history: two calls have been at it at once

desktopVars == <<inode, disk, tmp, held, request, tiles, editor, together>>

NoRequest == [op |-> "none", at |-> "idle", id |-> None, pw |-> FALSE, from |-> "none", list |-> {}]
NoEditor == [kind |-> "none", id |-> None, dirty |-> FALSE, saving |-> None]

DesktopsInit ==
    /\ FilesInit
    /\ request = [c \in Calls |-> NoRequest]
    /\ tiles \in {{}, OnDisk("desktops")}      \* before and after the screen has been mounted
    /\ editor = NoEditor /\ together = FALSE

Requests(c, op, id, pw, from) ==
    /\ request[c] = NoRequest
    /\ \A d \in Calls : d < c => request[d].op # "none"
    /\ request' = [request EXCEPT ![c] = [op |-> op, at |-> IF op = "list" THEN "list" ELSE "load",
                                          id |-> id, pw |-> pw, from |-> from, list |-> {}]]
    /\ together' = (together \/ \E d \in Calls : request[d].at \notin {"idle", "done"})
    /\ UNCHANGED <<fileState, tiles>>

(* On mount, and once an import is done. *)
Refresh(c) ==
    /\ editor.kind \in {"none"}
    /\ Requests(c, "list", None, FALSE, "tile")
    /\ UNCHANGED editor

OpenEditor ==
    /\ editor = NoEditor
    /\ \/ \E id \in {p.id : p \in tiles} : editor' = [NoEditor EXCEPT !.kind = "edit", !.id = id]
       \/ \E id \in Ids \ {p.id : p \in tiles} :
             /\ \A c \in Calls : request[c].id # id
             /\ Readable("desktops") => \A p \in OnDisk("desktops") : p.id # id
             /\ editor' = [NoEditor EXCEPT !.kind = "add", !.id = id]
    /\ UNCHANGED <<fileState, request, tiles, together>>

AskToDelete ==
    /\ editor.kind = "edit"
    /\ editor' = [NoEditor EXCEPT !.kind = "delete", !.id = editor.id]
    /\ UNCHANGED <<fileState, request, tiles, together>>

TypeInEditor ==
    /\ editor.kind \in {"add", "edit"} /\ ~editor.dirty
    /\ editor' = [editor EXCEPT !.dirty = TRUE]
    /\ UNCHANGED <<fileState, request, tiles, together>>

(* By its buttons, or from the question its scrim asks when it is dirty. *)
CloseEditor ==
    /\ editor # NoEditor
    /\ editor' = NoEditor
    /\ UNCHANGED <<fileState, request, tiles, together>>

SubmitEditor(c) ==
    /\ editor.kind \in {"add", "edit"} /\ editor.saving = None
    /\ \E pw \in BOOLEAN : Requests(c, "save", editor.id, pw, "editor")
    /\ editor' = [editor EXCEPT !.saving = c]

Delete(c) ==
    /\ editor.kind = "delete"
    /\ Requests(c, "delete", editor.id, FALSE, "delete")
    /\ UNCHANGED editor

(* A tile dropped on a section is saved with that folder. *)
DropTile(c) ==
    /\ editor = NoEditor
    /\ \E p \in tiles : Requests(c, "save", p.id, FALSE, "tile")
    /\ UNCHANGED editor

----------------------------------------------------------------------------
(* Mutant: a password left blank clears the stored one. *)
UpsertedDesktopBlank(list, k) ==
    {p \in list : p.id # k.id} \cup {[id |-> k.id, pw |-> k.pw]}

(* A blank password on an edit keeps the stored one. *)
UpsertedDesktop(list, k) ==
    LET old == {p \in list : p.id = k.id}
    IN (list \ old) \cup {[id |-> k.id, pw |-> k.pw \/ \E p \in old : p.pw]}

EditedDesktops(list, k) ==
    IF k.op = "save" THEN UpsertedDesktop(list, k) ELSE {p \in list : p.id # k.id}

At(c, at) == request' = [request EXCEPT ![c].at = at]

LoadsDesktops(c) ==
    /\ request[c].at = "load" /\ Readable("desktops")
    /\ request' = [request EXCEPT ![c].at = "open",
                                  ![c].list = EditedDesktops(OnDisk("desktops"), request[c])]
    /\ UNCHANGED <<fileState, tiles, editor, together>>

(* Mutant: the screen shows what it sent instead of reading the list again. *)
WritesDesktopsAndGoes(c) ==
    /\ \/ request[c].at = "open" /\ Opens("desktops", c) /\ At(c, "write")
       \/ request[c].at = "write" /\ Writes("desktops", c, request[c].list) /\ At(c, "rename")
       \/ request[c].at = "rename" /\ Renames("desktops")
          /\ request' = [request EXCEPT ![c].at = "answer", ![c].list = tiles]
    /\ UNCHANGED <<tiles, editor, together>>

WritesDesktops(c) ==
    /\ \/ request[c].at = "open" /\ Opens("desktops", c) /\ At(c, "write")
       \/ request[c].at = "write" /\ Writes("desktops", c, request[c].list) /\ At(c, "rename")
       \/ request[c].at = "rename" /\ Renames("desktops") /\ At(c, "list")
    /\ UNCHANGED <<tiles, editor, together>>

RefusesDesktops(c) ==
    /\ \/ request[c].at = "rename" /\ tmp["desktops"] = None /\ RenameFails("desktops")
       \/ request[c].at \in {"load", "list"} /\ ~Readable("desktops") /\ UNCHANGED fileState
    /\ At(c, "done")
    /\ editor' = CASE request[c].from = "editor" /\ editor.saving = c -> [editor EXCEPT !.saving = None]
                   [] request[c].from = "delete" -> NoEditor
                   [] OTHER -> editor
    /\ UNCHANGED <<tiles, together>>

ListsDesktops(c) ==
    /\ request[c].at = "list" /\ Readable("desktops")
    /\ request' = [request EXCEPT ![c].at = "answer", ![c].list = OnDisk("desktops")]
    /\ UNCHANGED <<fileState, tiles, editor, together>>

(* The screen shows the list it was sent; a save of the editor and a delete  *)
(* close whatever dialog is open by then.                                    *)
ShowsDesktops(c) ==
    /\ request[c].at = "answer"
    /\ tiles' = request[c].list
    /\ request' = [request EXCEPT ![c] = [NoRequest EXCEPT !.op = request[c].op, !.at = "done",
                                                           !.id = request[c].id]]
    /\ editor' = IF request[c].from = "tile" THEN editor ELSE NoEditor
    /\ UNCHANGED <<fileState, together>>

DesktopsNext ==
    \/ OpenEditor \/ AskToDelete \/ TypeInEditor \/ CloseEditor
    \/ \E c \in Calls :
          \/ Refresh(c) \/ SubmitEditor(c) \/ Delete(c) \/ DropTile(c)
          \/ LoadsDesktops(c) \/ WritesDesktops(c) \/ RefusesDesktops(c)
          \/ ListsDesktops(c) \/ ShowsDesktops(c)

(* Once a change is through, the screen shows what the file holds: a profile *)
(* added, edited or deleted, with or without a password, as it was saved.    *)
(* Two changes at once may leave the list the older answer brought.          *)
TilesFollowTheFile ==
    ~together /\ (\A c \in Calls : request[c].at \in {"idle", "done"})
              /\ (\E c \in Calls : request[c].at = "done") =>
        tiles = OnDisk("desktops")

(* A stored password stays through an edit that leaves the field blank.      *)
DesktopsKeepPasswords ==
    [][~together =>
         \A old \in OnDisk("desktops"), new \in OnDisk("desktops")' :
            old.id = new.id /\ old.pw => new.pw]_desktopVars
=============================================================================
