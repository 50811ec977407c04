-------------------------------- MODULE Desk --------------------------------
(***************************************************************************)
(* What the window shows: tabs and screens (stores/sessions, activeEntity, *)
(* navigation, sidebarMode), the automation editor with its unsaved        *)
(* changes (screens/AutomationEditor) and the palette with the pickers     *)
(* that borrow it (stores/palette).                                        *)
(*                                                                         *)
(* The content is one entity.  Every switch goes through activeEntity's    *)
(* go(), where a dirty editor may hold it and ask first.  What a step or a *)
(* tab contains is left out: an editor is clean or it is not.              *)
(***************************************************************************)
EXTENDS Integers, FiniteSets, Sequences, SequencesExt

CONSTANTS
    Automations,    \* names of the automations there are
    New,            \* automationName: null
    None,
    MaxTabs,        \* bound: tabs opened in one behaviour
    MaxTrail,       \* bound: automations opened through one another
    MaxSaves        \* bound: saves in flight

ASSUME DeskAssumptions ==
    /\ New \notin Automations /\ None \notin Automations \cup {New}
    /\ MaxTabs \in Nat /\ MaxTrail \in Nat /\ MaxSaves \in Nat \ {0}

Modes == {"ssh", "remoteDesktop"}
Screens == {"dashboard", "automations", "remoteDesktop", "settings"}

Screen(s) == [kind |-> s, id |-> None, trail |-> <<>>]
Session(t) == [kind |-> "session", id |-> t, trail |-> <<>>]
Editor(a, trail) == [kind |-> "automation", id |-> a, trail |-> trail]

VARIABLES
    tabs,       \* sessions
    opened,     \* tabs opened so far; the last one's id
    active,     \* activeEntity
    editor,     \* the AutomationEditor on screen, if active is one
    stray,      \* saves in flight of editors that are gone
    palette,
    mode,       \* sidebarMode
    choice,     \* history: the mode the user chose last
    hydrated    \* sidebarMode.hydrate() is through

vars == <<tabs, opened, active, editor, stray, palette, mode, choice, hydrated>>
sidebar == <<mode, choice, hydrated>>

(* edits: changes no save has taken ("unsaved"), or only one in flight     *)
(* ("sent").  held: the switch the question on screen holds.               *)
Clean == [dirty |-> FALSE, edits |-> "none", held |-> None,
          leaving |-> FALSE, saving |-> FALSE]

(* host, snippet: who waits for a pick; an editor may go while it waits.   *)
Closed == [open |-> FALSE, mode |-> "navigate", host |-> FALSE, snippet |-> "none"]

Entities ==
    {Screen(s) : s \in Screens} \cup {Session(t) : t \in 1..MaxTabs}
        \cup {Editor(New, <<>>)}
        \cup {Editor(a, l) : a \in Automations, l \in BoundedSeq(Automations, MaxTrail)}

TypeOK ==
    /\ opened \in 0..MaxTabs /\ tabs \subseteq 1..opened
    /\ active \in Entities
    /\ editor \in [dirty : BOOLEAN, edits : {"none", "sent", "unsaved"},
                   held : Entities \cup {None}, leaving : BOOLEAN, saving : BOOLEAN]
    /\ stray \in 0..MaxSaves
    /\ palette \in [open : BOOLEAN, mode : {"navigate", "pickHost", "pickSnippet"},
                    host : BOOLEAN, snippet : {"none", "editor", "gone"}]
    /\ mode \in Modes /\ choice \in Modes \cup {None} /\ hydrated \in BOOLEAN

(* The mirror in localStorage decides until the store is read. *)
Init ==
    /\ tabs = {} /\ opened = 0
    /\ active = Screen("dashboard")
    /\ editor = Clean /\ stray = 0
    /\ palette = Closed
    /\ mode \in Modes /\ choice = None /\ hydrated = FALSE

Editing == active.kind = "automation"

-----------------------------------------------------------------------------
(* Switching. *)

SameEditor(next) == Editing /\ next.kind = "automation" /\ next.id = active.id

(* The content becomes next.  The editor is keyed by the automation: it    *)
(* stays, as e, for the one it shows already; else it goes, a save of its  *)
(* own runs on, and another editor starts clean.                           *)
Show(next, e, p) ==
    /\ active' = next
    /\ IF SameEditor(next)
       THEN editor' = e /\ palette' = p /\ UNCHANGED stray
       ELSE /\ editor' = Clean
            /\ stray' = IF e.saving THEN stray + 1 ELSE stray
            /\ palette' = [p EXCEPT !.snippet = IF @ = "editor" THEN "gone" ELSE @]

Guarded == Editing /\ editor.dirty /\ ~editor.leaving

(* Mutant: tabs are not switches. *)
GoUnguarded(next, p) ==
    IF Guarded /\ next.kind # "session"
    THEN /\ editor' = [editor EXCEPT !.held = next]
         /\ palette' = p
         /\ UNCHANGED <<active, stray>>
    ELSE Show(next, editor, p)

(* go(): held while the editor asks, in the place of a switch held before. *)
Go(next, p) ==
    IF Guarded
    THEN /\ editor' = [editor EXCEPT !.held = next]
         /\ palette' = p
         /\ UNCHANGED <<active, stray>>
    ELSE Show(next, editor, p)

Home == Screen(IF mode = "remoteDesktop" THEN "remoteDesktop" ELSE "dashboard")

(* Sidebar.openSelector(), the settings button. *)
Select(s) ==
    /\ ~palette.open /\ editor.held = None
    /\ Go(Screen(s), palette)
    /\ UNCHANGED <<tabs, opened, sidebar>>

Activate(t) ==
    /\ t \in tabs /\ ~palette.open /\ editor.held = None
    /\ Go(Session(t), palette)
    /\ UNCHANGED <<tabs, opened, sidebar>>

SpawnSession(p) ==
    /\ opened < MaxTabs
    /\ opened' = opened + 1 /\ tabs' = tabs \cup {opened + 1}
    /\ Go(Session(opened + 1), p)

(* From a card; a remote desktop's tab comes when its launch has answered, *)
(* whatever is on screen by then.                                          *)
Spawn == SpawnSession(palette) /\ UNCHANGED sidebar

(* closeSession(): by its button, or because its shell has exited.         *)
CloseSession(t) ==
    /\ t \in tabs
    /\ tabs' = tabs \ {t}
    /\ IF active = Session(t) THEN Go(Home, palette)
                              ELSE UNCHANGED <<active, editor, stray, palette>>
    /\ UNCHANGED <<opened, sidebar>>

(* Sidebar.setMode(): the switch moves, then the content, if it may.       *)
SetMode(m) ==
    /\ ~palette.open /\ editor.held = None
    /\ mode' = m /\ choice' = m
    /\ IF active.kind = "session" THEN UNCHANGED <<active, editor, stray, palette>>
       ELSE Go(Screen(IF m = "ssh" THEN "dashboard" ELSE "remoteDesktop"), palette)
    /\ UNCHANGED <<tabs, opened, hydrated>>

(* followSidebarMode(). *)
Follow(m) ==
    IF m = "remoteDesktop" /\ active.kind \in {"dashboard", "automations", "automation"}
    THEN Go(Screen("remoteDesktop"), palette)
    ELSE IF m = "ssh" /\ active.kind = "remoteDesktop"
    THEN Go(Screen("dashboard"), palette)
    ELSE UNCHANGED <<active, editor, stray, palette>>

(* Mutant: what was saved wins. *)
HydrateAlways(saved) ==
    /\ ~hydrated /\ hydrated' = TRUE
    /\ mode' = saved /\ Follow(saved)
    /\ UNCHANGED <<tabs, opened, choice>>

(* hydrate(): the saved mode arrives, too late if the user chose one.      *)
Hydrate(saved) ==
    /\ ~hydrated /\ hydrated' = TRUE
    /\ IF choice = None
       THEN mode' = saved /\ Follow(saved)
       ELSE UNCHANGED <<mode, active, editor, stray, palette>>
    /\ UNCHANGED <<tabs, opened, choice>>

-----------------------------------------------------------------------------
(* The editor. *)

OpenEditor(a) ==
    /\ active = Screen("automations") /\ ~palette.open
    /\ Go(Editor(a, <<>>), palette)
    /\ UNCHANGED <<tabs, opened, sidebar>>

(* openAutomation() of a "run automation" step: the way back is kept,      *)
(* except through an automation never saved.                               *)
OpenCalled(a) ==
    /\ Editing /\ editor.held = None /\ a # active.id
    /\ Len(active.trail) < MaxTrail
    /\ Go(Editor(a, IF active.id = New THEN <<>> ELSE Append(active.trail, active.id)), palette)
    /\ UNCHANGED <<tabs, opened, sidebar>>

(* A breadcrumb. *)
OpenCrumb(i) ==
    /\ Editing /\ editor.held = None /\ i \in DOMAIN active.trail
    /\ Go(Editor(active.trail[i], SubSeq(active.trail, 1, i - 1)), palette)
    /\ UNCHANGED <<tabs, opened, sidebar>>

(* back(), of an editor that is gone too: its trail is the one shown now.  *)
BackFrom ==
    IF active.trail = <<>> THEN Screen("automations")
    ELSE Editor(Last(active.trail), Front(active.trail))

Back ==
    /\ Editing /\ editor.held = None
    /\ Go(BackFrom, palette)
    /\ UNCHANGED <<tabs, opened, sidebar>>

Edited == [editor EXCEPT !.dirty = TRUE, !.edits = "unsaved"]

(* A step, an edge, a parameter or the name changes. *)
Edit ==
    /\ Editing /\ editor.held = None
    /\ editor' = Edited
    /\ UNCHANGED <<tabs, opened, active, stray, palette, sidebar>>

(* save(), by its button or from the question: what there is now is sent.  *)
Save ==
    /\ Editing /\ ~editor.saving /\ stray < MaxSaves
    /\ editor' = [editor EXCEPT !.saving = TRUE,
                                !.edits = IF @ = "unsaved" THEN "sent" ELSE @]
    /\ UNCHANGED <<tabs, opened, active, stray, palette, sidebar>>

(* save(): refused as it is (no name, no step, ...). *)
SaveRefused ==
    /\ Editing /\ ~editor.saving
    /\ editor' = [editor EXCEPT !.held = None]
    /\ UNCHANGED <<tabs, opened, active, stray, palette, sidebar>>

(* Off to where the question held the content up, or back. *)
Saved ==
    /\ Editing /\ editor.saving
    /\ Show(IF editor.held # None THEN editor.held ELSE BackFrom,
            [editor EXCEPT !.saving = FALSE, !.held = None, !.leaving = TRUE,
                           !.edits = IF @ = "sent" THEN "none" ELSE @],
            palette)
    /\ UNCHANGED <<tabs, opened, sidebar>>

SaveFailed ==
    /\ Editing /\ editor.saving
    /\ editor' = [editor EXCEPT !.saving = FALSE, !.held = None,
                                !.edits = IF @ = "sent" THEN "unsaved" ELSE @]
    /\ UNCHANGED <<tabs, opened, active, stray, palette, sidebar>>

(* The save of an editor that is gone ends: it still goes back.            *)
StraySaved ==
    /\ stray > 0
    /\ IF Guarded
       THEN /\ stray' = stray - 1
            /\ editor' = [editor EXCEPT !.held = BackFrom]
            /\ UNCHANGED <<active, palette>>
       ELSE /\ active' = BackFrom
            /\ IF SameEditor(BackFrom) THEN UNCHANGED <<editor, palette, stray>>
               ELSE /\ editor' = Clean
                    /\ stray' = IF editor.saving THEN stray ELSE stray - 1
                    /\ palette' = [palette EXCEPT !.snippet = IF @ = "editor" THEN "gone" ELSE @]
    /\ UNCHANGED <<tabs, opened, sidebar>>

StrayFailed ==
    /\ stray > 0 /\ stray' = stray - 1
    /\ UNCHANGED <<tabs, opened, active, editor, palette, sidebar>>

KeepEditing ==
    /\ editor.held # None
    /\ editor' = [editor EXCEPT !.held = None]
    /\ UNCHANGED <<tabs, opened, active, stray, palette, sidebar>>

(* discardAndLeave(). *)
Discard ==
    /\ editor.held # None
    /\ Show(editor.held, [editor EXCEPT !.held = None, !.leaving = TRUE], palette)
    /\ UNCHANGED <<tabs, opened, sidebar>>

-----------------------------------------------------------------------------
(* The palette. *)

Opened(m, host, snippet) == [open |-> TRUE, mode |-> m, host |-> host, snippet |-> snippet]

ShowPalette(p) ==
    /\ palette' = p
    /\ UNCHANGED <<tabs, opened, active, editor, stray, sidebar>>

(* Mutant: closing forgets who waits. *)
ToggleForgetting ==
    ShowPalette(IF palette.open THEN [palette EXCEPT !.open = FALSE, !.mode = "navigate"]
                ELSE Opened("navigate", FALSE, "none"))

(* The chord; Escape closes too.  Whoever waits is answered with nothing.  *)
Toggle == ShowPalette(IF palette.open THEN Closed ELSE Opened("navigate", FALSE, "none"))

(* pickAndSpawn(). *)
PickHost == ~palette.open /\ editor.held = None /\ ShowPalette(Opened("pickHost", TRUE, "none"))

(* openSnippetPicker(): the "+" button, or a connection dropped on nothing *)
(* -- the palette may have been opened during the drag.                    *)
PickSnippet ==
    /\ Editing /\ editor.held = None
    /\ ShowPalette(Opened("pickSnippet", FALSE, "editor"))

(* A host: for who waits for one, or to open a shell there. *)
ChooseHost ==
    /\ palette.open /\ palette.mode \in {"navigate", "pickHost"}
    /\ SpawnSession(Closed)
    /\ UNCHANGED sidebar

ChooseSession(t) ==
    /\ palette.open /\ palette.mode = "navigate" /\ t \in tabs
    /\ Go(Session(t), Closed)
    /\ UNCHANGED <<tabs, opened, sidebar>>

(* The step goes to the editor that asked, if it is there. *)
ChooseSnippet ==
    /\ palette.open /\ palette.mode = "pickSnippet"
    /\ editor' = IF palette.snippet = "editor" THEN Edited ELSE editor
    /\ palette' = Closed
    /\ UNCHANGED <<tabs, opened, active, stray, sidebar>>

-----------------------------------------------------------------------------
Next ==
    \/ \E s \in Screens : Select(s)
    \/ \E t \in tabs : Activate(t) \/ CloseSession(t) \/ ChooseSession(t)
    \/ \E m \in Modes : SetMode(m) \/ Hydrate(m)
    \/ \E a \in Automations : OpenCalled(a)
    \/ \E a \in Automations \cup {New} : OpenEditor(a)
    \/ \E i \in 1..MaxTrail : OpenCrumb(i)
    \/ Spawn \/ Back \/ Edit \/ KeepEditing \/ Discard
    \/ Save \/ SaveRefused \/ Saved \/ SaveFailed \/ StraySaved \/ StrayFailed
    \/ Toggle \/ PickHost \/ PickSnippet \/ ChooseHost \/ ChooseSnippet

Spec == Init /\ [][Next]_vars

-----------------------------------------------------------------------------
(* pickHost() and pickSnippet() never leave their caller waiting for a     *)
(* picker that is no longer on screen (palette.ts).                        *)
PickerIsOpen ==
    /\ palette.host => palette.open /\ palette.mode = "pickHost"
    /\ palette.snippet # "none" => palette.open /\ palette.mode = "pickSnippet"

(* A mode the user chose is not taken back by the saved one (sidebarMode). *)
ChoiceWins == choice # None => mode = choice

LeavesEditor == Editing /\ (active'.kind # "automation" \/ active'.id # active.id)

(* Whatever moves the content -- the sidebar, the palette, a tab that opens*)
(* late or a shell that exits, the saved mode, the end of another editor's *)
(* save -- an editor with changes goes only by its user's own answer.      *)
EditorGoesByAnswer ==
    [][LeavesEditor /\ editor.edits # "none" => Discard \/ Saved \/ editor.leaving]_vars

(* "Leaving the editor any way first asks whether to save or discard" what *)
(* is not saved (AutomationEditor).                                        *)
UnsavedIsAsked == [][LeavesEditor /\ editor.edits = "unsaved" => Discard]_vars

(* "Content is never left pointing at a closed tab" (navigation.ts).       *)
NeverShowsAClosedTab == active.kind = "session" => active.id \in tabs

=============================================================================
