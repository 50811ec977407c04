------------------------------ MODULE RdpFiles ------------------------------
(***************************************************************************)
(* Files over the clipboard of an embedded remote desktop                  *)
(* (screens/rdpTransfers, RdpView's drop target): an offer of files copied *)
(* there, saved one by one into a folder picked here, and files sent from  *)
(* here.                                                                   *)
(*                                                                         *)
(* The web client's provider is external: it offers batches, delivers or   *)
(* goes quiet, and settles each upload.  Names and bytes are left out.     *)
(***************************************************************************)
EXTENDS Integers, FiniteSets

CONSTANTS
    None,
    Files,          \* how many files a batch holds
    MaxBatches,     \* bound: times files are copied there
    MaxSaves,       \* bound: times Save is clicked
    MaxUploads      \* bound: times files are sent

Batches == 1..MaxBatches
Saves == 1..MaxSaves
Uploads == 1..MaxUploads

VARIABLES
    remote,     \* the offer shown, or None
    batch,      \* batches offered so far; downloads are from the last one
    save,       \* the save() calls
    paused,     \* the web client's own clipboard sync
    upload,     \* the upload shown, or None
    settled,    \* the uploads whose completion has settled
    sent,       \* uploads so far
    picked,     \* a folder was chosen in the dialog
    dragging    \* depth of drag-enter events over the tab

vars == <<remote, batch, save, paused, upload, settled, sent, picked, dragging>>
sending == <<upload, settled, sent, dragging>>

Offer(b) == [batch |-> b, phase |-> "available", saved |-> 0]
NoSave == [at |-> "none", of |-> None, next |-> 1]

TypeOK ==
    /\ remote \in [batch : Batches, phase : {"available", "saving", "saved", "failed"},
                   saved : 0..(2 * Files)] \cup {None}
    /\ batch \in 0..MaxBatches
    /\ save \in [Saves -> [at : {"none", "pick", "download", "write", "over"},
                           of : [batch : Batches, phase : {"available", "saved", "failed"},
                                 saved : 0..(2 * Files)] \cup {None},
                           next : 1..(Files + 1)]]
    /\ paused \in BOOLEAN /\ picked \in BOOLEAN /\ dragging \in 0..2
    /\ upload \in [id : Uploads, phase : {"waiting", "copying", "done", "failed"}] \cup {None}
    /\ settled \subseteq Uploads /\ sent \in 0..MaxUploads

Init ==
    /\ remote = None /\ batch = 0
    /\ save = [s \in Saves |-> NoSave]
    /\ paused = FALSE /\ picked = FALSE
    /\ upload = None /\ settled = {} /\ sent = 0 /\ dragging = 0

Picking == \E s \in Saves : save[s].at = "pick"      \* a modal dialog
Phase == IF remote = None THEN "none" ELSE remote.phase

-----------------------------------------------------------------------------
(* Out of the session *)

(* 'files-available': "one save at a time".                                *)
FilesAvailable ==
    /\ batch < MaxBatches /\ batch' = batch + 1
    /\ remote' = IF Phase = "saving" THEN remote ELSE Offer(batch')
    /\ UNCHANGED <<save, paused, picked, sending>>

ClickSave ==
    /\ Phase \in {"available", "failed"} /\ ~Picking
    /\ \E s \in Saves :
        /\ save[s].at = "none" /\ \A r \in 1..(s - 1) : save[r].at # "none"
        /\ save' = [save EXCEPT ![s] = [NoSave EXCEPT !.at = "pick", !.of = remote]]
    /\ UNCHANGED <<remote, batch, paused, picked, sending>>

PickCanceled(s) ==
    /\ save[s].at = "pick"
    /\ save' = [save EXCEPT ![s].at = "over"]
    /\ UNCHANGED <<remote, batch, paused, picked, sending>>

PickFailed(s) ==
    /\ save[s].at = "pick"
    /\ save' = [save EXCEPT ![s].at = "over"]
    /\ remote' = [save[s].of EXCEPT !.phase = "failed"]
    /\ UNCHANGED <<batch, paused, picked, sending>>

Picked(s) ==
    /\ save[s].at = "pick"
    /\ save' = [save EXCEPT ![s].at = "download"]
    /\ remote' = [save[s].of EXCEPT !.phase = "saving", !.saved = 0]
    /\ paused' = TRUE /\ picked' = TRUE
    /\ UNCHANGED <<batch, sending>>

Downloaded(s) ==
    /\ save[s].at = "download" /\ save[s].next <= Files
    /\ save[s].of.batch = batch
    /\ save' = [save EXCEPT ![s].at = "write"]
    /\ UNCHANGED <<remote, batch, paused, picked, sending>>

(* The catch of save(): the offer shown by now, or the one it began with;  *)
(* then the finally.                                                       *)
Aborts(s) ==
    /\ save' = [save EXCEPT ![s].at = "over"]
    /\ remote' = [IF remote = None THEN save[s].of ELSE remote EXCEPT !.phase = "failed"]
    /\ paused' = FALSE
    /\ UNCHANGED <<batch, picked, sending>>

DownloadFailed(s) ==
    /\ save[s].at = "download" /\ save[s].next <= Files
    /\ Aborts(s)

(* Mutant: the stall check watches the first download only. *)
StalledAtOnce(s) ==
    /\ save[s].at = "download" /\ save[s].next = 1
    /\ Aborts(s)

(* withStallCheck: a download whose source is gone never moves again.      *)
Stalled(s) ==
    /\ save[s].at = "download" /\ save[s].next <= Files
    /\ Aborts(s)

WriteFailed(s) ==
    /\ save[s].at = "write" /\ Aborts(s)

(* rdp_save_file, into a folder picked before; then the offer shown by now *)
(* counts one more, if there is one -- else the assertion fails.           *)
Written(s) ==
    /\ save[s].at = "write" /\ picked
    /\ IF remote = None THEN Aborts(s)
       ELSE /\ save' = [save EXCEPT ![s].at = "download", ![s].next = @ + 1]
            /\ remote' = [remote EXCEPT !.saved = @ + 1]
            /\ UNCHANGED <<batch, paused, picked, sending>>

AllSaved(s) ==
    /\ save[s].at = "download" /\ save[s].next > Files
    /\ save' = [save EXCEPT ![s].at = "over"]
    /\ remote' = IF remote = None THEN [save[s].of EXCEPT !.phase = "failed"]
                 ELSE [remote EXCEPT !.phase = "saved"]
    /\ paused' = FALSE
    /\ UNCHANGED <<batch, picked, sending>>

DismissRemote ==
    /\ remote # None /\ ~Picking /\ remote' = None
    /\ UNCHANGED <<batch, save, paused, picked, sending>>

(* The provider's 'error' event: the offer, if it is about a download.     *)
ProviderError(download) ==
    /\ IF download /\ remote # None
       THEN remote' = [remote EXCEPT !.phase = "failed"] /\ UNCHANGED upload
       ELSE /\ upload # None /\ upload' = [upload EXCEPT !.phase = "failed"]
            /\ UNCHANGED remote
    /\ UNCHANGED <<batch, save, paused, picked, settled, sent, dragging>>

-----------------------------------------------------------------------------
(* Into the session *)

DragEnter ==
    /\ dragging < 2 /\ dragging' = dragging + 1
    /\ UNCHANGED <<remote, batch, save, paused, picked, upload, settled, sent>>

DragLeave ==
    /\ dragging > 0 /\ dragging' = dragging - 1
    /\ UNCHANGED <<remote, batch, save, paused, picked, upload, settled, sent>>

(* drop() and pick(): the new upload takes the place of the one shown.     *)
Send ==
    /\ ~Picking /\ sent < MaxUploads
    /\ sent' = sent + 1 /\ dragging' = 0
    /\ upload' = [id |-> sent', phase |-> "waiting"]
    /\ UNCHANGED <<remote, batch, save, paused, picked, settled>>

Copying ==
    /\ upload # None /\ upload.phase # "done"
    /\ upload' = [upload EXCEPT !.phase = "copying"]
    /\ UNCHANGED <<remote, batch, save, paused, picked, settled, sent, dragging>>

(* completion: whatever upload is shown by then is marked.                 *)
Settles(u, phase) ==
    /\ u \in (1..sent) \ settled /\ settled' = settled \cup {u}
    /\ upload' = IF upload = None THEN None ELSE [upload EXCEPT !.phase = phase]
    /\ UNCHANGED <<remote, batch, save, paused, picked, sent, dragging>>

DismissUpload ==
    /\ upload # None /\ ~Picking /\ upload' = None
    /\ UNCHANGED <<remote, batch, save, paused, picked, settled, sent, dragging>>

-----------------------------------------------------------------------------
Next ==
    \/ FilesAvailable \/ ClickSave \/ DismissRemote
    \/ \E d \in BOOLEAN : ProviderError(d)
    \/ \E s \in Saves :
        PickCanceled(s) \/ PickFailed(s) \/ Picked(s) \/ Downloaded(s) \/ DownloadFailed(s)
        \/ Stalled(s) \/ Written(s) \/ WriteFailed(s) \/ AllSaved(s)
    \/ DragEnter \/ DragLeave \/ Send \/ Copying \/ DismissUpload
    \/ \E u \in Uploads, phase \in {"done", "failed"} : Settles(u, phase)

(* The disk answers and the stall check ticks; the provider owes nothing.  *)
Fairness ==
    \A s \in Saves :
        WF_vars(Stalled(s)) /\ WF_vars(Written(s) \/ WriteFailed(s)) /\ WF_vars(AllSaved(s))

Spec == Init /\ [][Next]_vars /\ Fairness

-----------------------------------------------------------------------------
Fetching(s) == save[s].at \in {"download", "write"}

(* However a save goes -- files gone from the remote clipboard, a full     *)
(* disk, the offer dismissed under it -- the clipboard sync it paused comes*)
(* back (rdpTransfers.save's finally and the stall check).                 *)
SyncComesBack == paused ~> ~paused

(* The sync is paused "while files are fetched", since it "would replace   *)
(* the file list being downloaded from" (rdpTransfers).                    *)
PausedWhileFetching == \A s \in Saves : Fetching(s) => paused

(* "One save at a time" (rdpTransfers).                                    *)
OneSaveAtATime == Cardinality({s \in Saves : Fetching(s)}) <= 1

(* An offer that reads "Saved" was saved: all of its own files.            *)
SavedMeansSaved ==
    Phase = "saved" => \E s \in Saves : save[s].of.batch = remote.batch /\ save[s].next > Files

(* An upload that reads "Copied" is the one that was.                      *)
CopiedMeansCopied ==
    upload # None /\ upload.phase = "done" => upload.id \in settled

=============================================================================
