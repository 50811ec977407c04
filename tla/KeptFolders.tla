---------------------------- MODULE KeptFolders ----------------------------
(* The folders of the dashboard's host cards (and, in a list of its own, of *)
(* the remote desktops' tiles). An entry's own folder decides where its card *)
(* sits; the kept list is what lets a folder outlive its last card. It is    *)
(* read once from the settings, and each change writes it back.              *)
EXTENDS Sequences, Naturals

CONSTANTS
    Cards, Folders,
    NoFolder,
    MaxMoves, MaxStarts

VARIABLES
    loading,    \* "no", "reading", "read" or "done"
    waiting,    \* changes made before the saved list was there, in order
    kept,       \* the list in the renderer
    writes,     \* lists on their way to the settings, in order
    saved,      \* the list in the settings
    shown,      \* the cards the screen has been told of
    folderOf,   \* where each card sits
    wanted,     \* history: the folders the user has made or filled and not removed
    swallowed,  \* history: what went wrong unnoticed
    moves, starts

folderVars == <<loading, waiting, kept, writes, saved, shown, folderOf, wanted, swallowed,
                moves, starts>>

(* "write": the last write was refused, and the list is that of this run     *)
(* only.  "lost": a reading failed, or the app ended with a list unsaved.    *)
Failures == {"nothing", "write", "lost"}

FoldersInit ==
    /\ loading = "no" /\ waiting = <<>> /\ kept = {} /\ writes = <<>>
    /\ folderOf \in [Cards -> Folders \cup {NoFolder}]
    /\ saved \in SUBSET Folders
    /\ {folderOf[c] : c \in Cards} \ {NoFolder} \subseteq saved
    /\ shown = {} /\ wanted = saved /\ swallowed = "nothing"
    /\ moves = 0 /\ starts = 0

FolderNames(cards) == {folderOf[c] : c \in cards} \ {NoFolder}

(* A section per folder in use or kept. *)
Sections == FolderNames(shown) \cup kept
IsEmpty(f) == f \notin FolderNames(shown)

(* One change, applied to the list; a list that is new is sent to be saved. *)
Updated(list, change) ==
    CASE change.do = "keep" -> list \cup change.names
      [] change.do = "remove" -> list \ change.names

(* Mutant: a change does not wait for the saved list. *)
ChangesAtOnce(change) ==
    /\ kept' = Updated(kept, change)
    /\ writes' = IF kept' = kept THEN writes ELSE Append(writes, kept')
    /\ loading' = IF loading = "no" THEN "reading" ELSE loading
    /\ UNCHANGED waiting

(* Every change waits for the saved list, and asks for it if nobody has.     *)
Changes(change) ==
    IF loading = "done"
    THEN /\ kept' = Updated(kept, change)
         /\ writes' = IF kept' = kept THEN writes ELSE Append(writes, kept')
         /\ UNCHANGED <<loading, waiting>>
    ELSE /\ waiting' = Append(waiting, change)
         /\ loading' = IF loading = "no" THEN "reading" ELSE loading
         /\ UNCHANGED <<kept, writes>>

KeepAll(cards) == Changes([do |-> "keep", names |-> FolderNames(cards)])

(* The screen is mounted: the list is read, and the cards' folders are kept. *)
Mount ==
    /\ loading = "no"
    /\ KeepAll(shown)
    /\ UNCHANGED <<saved, shown, folderOf, wanted, swallowed, moves, starts>>

(* A reading that fails counts as one of an empty list.                      *)
ReadsSaved ==
    /\ loading = "reading"
    /\ loading' = IF waiting = <<>> THEN "done" ELSE "read"
    /\ \/ kept' = saved /\ UNCHANGED swallowed
       \/ UNCHANGED kept /\ swallowed' = "lost"
    /\ UNCHANGED <<waiting, writes, saved, shown, folderOf, wanted, moves, starts>>

(* The changes that waited are made in their order. *)
Catches ==
    /\ loading = "read"
    /\ LET list == Updated(kept, Head(waiting)) IN
       /\ kept' = list
       /\ writes' = IF list = kept THEN writes ELSE Append(writes, list)
    /\ waiting' = Tail(waiting)
    /\ loading' = IF Len(waiting) = 1 THEN "done" ELSE "read"
    /\ UNCHANGED <<saved, shown, folderOf, wanted, swallowed, moves, starts>>

WriteArrives ==
    /\ writes # <<>>
    /\ saved' = Head(writes)
    /\ writes' = Tail(writes)
    /\ swallowed' = IF swallowed = "lost" THEN "lost" ELSE "nothing"
    /\ UNCHANGED <<loading, waiting, kept, shown, folderOf, wanted, moves, starts>>

(* "Kept for this run only."                                                 *)
WriteRefused ==
    /\ writes # <<>>
    /\ writes' = Tail(writes)
    /\ swallowed' = IF swallowed = "lost" THEN "lost" ELSE "write"
    /\ UNCHANGED <<saved, loading, waiting, kept, shown, folderOf, wanted, moves, starts>>

(* The list of hosts arrives; its folders are kept from then on. *)
ListArrives ==
    /\ loading # "no" /\ shown # Cards
    /\ shown' = Cards
    /\ KeepAll(Cards)
    /\ UNCHANGED <<saved, folderOf, wanted, swallowed, moves, starts>>

(* A card dropped on a section, or saved with another folder. *)
Move(c, f) ==
    /\ c \in shown /\ f # folderOf[c] /\ moves < MaxMoves
    /\ folderOf' = [folderOf EXCEPT ![c] = f]
    /\ wanted' = wanted \cup ({f} \ {NoFolder})
    /\ moves' = moves + 1
    /\ LET names == {folderOf'[d] : d \in shown} \ {NoFolder}
       IN Changes([do |-> "keep", names |-> names])
    /\ UNCHANGED <<saved, shown, swallowed, starts>>

(* "New folder" refuses a name that has a section. *)
CreateFolder(f) ==
    /\ loading # "no" /\ f \notin Sections /\ moves < MaxMoves
    /\ Changes([do |-> "keep", names |-> {f}])
    /\ wanted' = wanted \cup {f}
    /\ moves' = moves + 1
    /\ UNCHANGED <<saved, shown, folderOf, swallowed, starts>>

(* Only an empty section has the button. *)
RemoveFolder(f) ==
    /\ f \in Sections /\ IsEmpty(f) /\ moves < MaxMoves
    /\ Changes([do |-> "remove", names |-> {f}])
    /\ wanted' = wanted \ {f}
    /\ moves' = moves + 1
    /\ UNCHANGED <<saved, shown, folderOf, swallowed, starts>>

(* The app ends, whatever is on its way, and is started again. *)
Restart ==
    /\ loading # "no" /\ starts < MaxStarts
    /\ starts' = starts + 1
    /\ swallowed' = IF writes = <<>> /\ waiting = <<>> /\ swallowed = "nothing"
                    THEN "nothing" ELSE "lost"
    /\ loading' = "no" /\ kept' = {} /\ shown' = {} /\ waiting' = <<>> /\ writes' = <<>>
    /\ UNCHANGED <<saved, folderOf, wanted, moves>>

FoldersNext ==
    \/ Mount \/ ReadsSaved \/ Catches \/ WriteArrives \/ WriteRefused \/ ListArrives \/ Restart
    \/ \E f \in Folders : CreateFolder(f) \/ RemoveFolder(f)
    \/ \E c \in Cards, f \in Folders \cup {NoFolder} : Move(c, f)

FoldersSpec == FoldersInit /\ [][FoldersNext]_folderVars

(* "Every change waits for the saved list, so an early one can't overwrite   *)
(* it": whatever is changed, and however early, once nothing is on its way   *)
(* the settings hold every folder the user has made or filled and not        *)
(* removed, also one whose last card has been dragged out.  After a refused  *)
(* write the list itself still does, until the next one is saved; after a    *)
(* failed reading, or an end with a list unsaved, nothing is promised.       *)
FoldersAreKept ==
    loading \in {"no", "done"} /\ waiting = <<>> /\ writes = <<>> =>
        /\ swallowed = "nothing" => wanted \subseteq saved
        /\ swallowed = "write" => wanted \subseteq kept

-----------------------------------------------------------------------------
(* The inductive invariant behind it. *)

FolderChanges == [do : {"keep", "remove"}, names : SUBSET Folders]

FoldersTypeOK ==
    /\ swallowed \in Failures
    /\ kept \in SUBSET Folders /\ saved \in SUBSET Folders /\ wanted \in SUBSET Folders
    /\ waiting \in Seq(FolderChanges) /\ writes \in Seq(SUBSET Folders)
    /\ shown \in SUBSET Cards /\ folderOf \in [Cards -> Folders \cup {NoFolder}]

(* The list in the renderer is the last one sent to the settings, once it   *)
(* was read, and the one they hold if they took it; what waits, waits for it. *)
ListsAgree ==
    /\ loading \in {"no", "reading", "read", "done"}
    /\ loading \in {"no", "done"} => waiting = <<>>
    /\ loading = "read" => waiting # <<>>
    /\ loading \in {"no", "reading"} => writes = <<>> /\ swallowed # "write"
    /\ loading \in {"read", "done"} /\ swallowed # "lost" =>
         /\ writes # <<>> => kept = writes[Len(writes)]
         /\ writes = <<>> /\ swallowed = "nothing" => kept = saved

(* The list that what waits will be applied to. *)
BaseList == IF loading \in {"no", "reading"} THEN saved ELSE kept

Removes(i, f) == waiting[i].do = "remove" /\ f \in waiting[i].names
Keeps(i, f)   == waiting[i].do = "keep" /\ f \in waiting[i].names

(* A folder that is in the list, or is put there, and not removed later on. *)
WillBeKept(f) ==
    \/ f \in BaseList /\ \A j \in 1..Len(waiting) : ~Removes(j, f)
    \/ \E i \in 1..Len(waiting) :
         Keeps(i, f) /\ \A j \in i..Len(waiting) : ~Removes(j, f)

FoldersIInv ==
    FoldersTypeOK /\ ListsAgree /\ (swallowed # "lost" => \A f \in wanted : WillBeKept(f))
=============================================================================
