----------------------------- MODULE DeskProofs -----------------------------
(* What is proved of the window and of what it keeps of automations: the     *)
(* editor and the pickers (Desk), the library's steps and calls              *)
(* (AutomationLibrary), and the cards of the runs (AutomationCards).         *)
EXTENDS MCDesk, SequenceTheorems, TLAPS

\* A record with these fields and no others, whatever they hold.
HasFields(r, fields) == r = [f \in fields |-> r[f]]

-----------------------------------------------------------------------------
(* The window *)

EditorFields == {"dirty", "edits", "held", "leaving", "saving"}
PaletteFields == {"open", "mode", "host", "snippet"}

\* An editor with changes no save has taken is dirty, so every switch asks; a picker is
\* open for whoever waits for it, and a choice of the user's stands.
DeskInv ==
  /\ HasFields(editor, EditorFields) /\ editor.dirty \in BOOLEAN /\ editor.leaving \in BOOLEAN
  /\ editor.edits # "none" => editor.dirty
  /\ HasFields(palette, PaletteFields) /\ PickerIsOpen
  /\ ChoiceWins

LEMMA CleanIsClean == Clean.edits = "none" /\ Clean.dirty = FALSE /\ Clean.leaving = FALSE
                      /\ Clean.held = None /\ Clean.saving = FALSE
                      /\ HasFields(Clean, EditorFields)
  BY DEF Clean, HasFields, EditorFields

\* Whatever is shown next, and with whatever palette that leaves who waits in order.
LEMMA ShowKeeps ==
  ASSUME NEW next, NEW e, NEW p, Show(next, e, p),
         HasFields(e, EditorFields),
         e.dirty \in BOOLEAN, e.leaving \in BOOLEAN, e.edits # "none" => e.dirty,
         HasFields(p, PaletteFields),
         p.host => p.open /\ p.mode = "pickHost",
         p.snippet # "none" => p.open /\ p.mode = "pickSnippet"
  PROVE  /\ HasFields(editor', EditorFields) /\ editor'.dirty \in BOOLEAN /\ editor'.leaving \in BOOLEAN
         /\ editor'.edits # "none" => editor'.dirty
         /\ HasFields(palette', PaletteFields) /\ PickerIsOpen'
<1>1. CASE SameEditor(next)
  BY <1>1 DEF Show, HasFields, EditorFields, PaletteFields, PickerIsOpen
<1>2. CASE ~SameEditor(next)
  <2>1. editor' = Clean /\ palette' = [p EXCEPT !.snippet = IF @ = "editor" THEN "gone" ELSE @]
    BY <1>2 DEF Show
  <2>3. HasFields(palette', PaletteFields) /\ PickerIsOpen'
    BY <2>1 DEF HasFields, PaletteFields, PickerIsOpen
  <2>4. QED
    BY <2>1, <2>3, CleanIsClean DEF HasFields, EditorFields
<1>3. QED
  BY <1>1, <1>2

LEMMA GoKeeps ==
  ASSUME DeskInv, NEW next, NEW p, Go(next, p),
         p = palette \/ p = Closed
  PROVE  /\ HasFields(editor', EditorFields) /\ editor'.dirty \in BOOLEAN /\ editor'.leaving \in BOOLEAN
         /\ editor'.edits # "none" => editor'.dirty
         /\ HasFields(palette', PaletteFields) /\ PickerIsOpen'
<1>1. /\ HasFields(p, PaletteFields)
      /\ p.host => p.open /\ p.mode = "pickHost"
      /\ p.snippet # "none" => p.open /\ p.mode = "pickSnippet"
  BY DEF DeskInv, HasFields, PaletteFields, PickerIsOpen, Closed
<1>2. CASE Guarded
  BY <1>1, <1>2 DEF Go, DeskInv, HasFields, EditorFields, PaletteFields, PickerIsOpen
<1>3. CASE ~Guarded
  <2>1. Show(next, editor, p)
    BY <1>3 DEF Go
  <2>2. QED
    BY <1>1, <2>1, ShowKeeps DEF DeskInv, HasFields, EditorFields
<1>4. QED
  BY <1>2, <1>3

\* A switch lets an editor go only when it has no changes or is leaving already.
LEMMA GoIsGuarded ==
  ASSUME DeskInv, NEW next, NEW p, Go(next, p), LeavesEditor, editor.edits # "none"
  PROVE  editor.leaving
<1>1. Editing /\ active' # active /\ editor.dirty
  BY DEF DeskInv, LeavesEditor, Editing
<1>2. ~Guarded
  BY <1>1 DEF Go
<1>3. QED
  BY <1>1, <1>2 DEF Guarded, DeskInv

LEMMA DeskInvStep ==
  ASSUME DeskInv, [Next]_vars
  PROVE  DeskInv'
<1> DEFINE Kept == /\ HasFields(editor', EditorFields) /\ editor'.dirty \in BOOLEAN /\ editor'.leaving \in BOOLEAN
                   /\ editor'.edits # "none" => editor'.dirty
                   /\ HasFields(palette', PaletteFields) /\ PickerIsOpen'
<1> SUFFICES Kept /\ ChoiceWins'
  BY DEF DeskInv
<1>1. ASSUME NEW next, NEW p, Go(next, p), p = palette \/ p = Closed PROVE Kept
  BY <1>1, GoKeeps
<1>2. ASSUME UNCHANGED <<editor, palette>> PROVE Kept
  BY <1>2 DEF DeskInv, HasFields, EditorFields, PaletteFields, PickerIsOpen
<1>3. ASSUME UNCHANGED palette, HasFields(editor', EditorFields), editor'.dirty \in BOOLEAN,
             editor'.leaving \in BOOLEAN, editor'.edits # "none" => editor'.dirty
      PROVE  Kept
  BY <1>3 DEF DeskInv, HasFields, PaletteFields, PickerIsOpen
<1> HIDE DEF Kept
<1>4. ASSUME UNCHANGED sidebar PROVE ChoiceWins'
  BY <1>4 DEF DeskInv, ChoiceWins, sidebar
<1>5. ASSUME NEW s \in Screens, Select(s) PROVE Kept /\ ChoiceWins'
  BY <1>5, <1>1, <1>4 DEF Select
<1>6. ASSUME NEW t \in tabs, Activate(t) \/ CloseSession(t) \/ ChooseSession(t)
      PROVE  Kept /\ ChoiceWins'
  <2>1. CASE Activate(t)
    BY <2>1, <1>1, <1>4 DEF Activate
  <2>2. CASE CloseSession(t)
    BY <2>2, <1>1, <1>2, <1>4 DEF CloseSession
  <2>3. CASE ChooseSession(t)
    BY <2>3, <1>1, <1>4 DEF ChooseSession
  <2>4. QED
    BY <1>6, <2>1, <2>2, <2>3
<1>7. ASSUME NEW m \in Modes, SetMode(m) PROVE Kept /\ ChoiceWins'
  BY <1>7, <1>1, <1>2 DEF SetMode, ChoiceWins
<1>8. ASSUME NEW m \in Modes, Hydrate(m) PROVE Kept /\ ChoiceWins'
  <2>1. Kept
    BY <1>8, <1>1, <1>2 DEF Hydrate, Follow
  <2>2. ChoiceWins'
    BY <1>8 DEF Hydrate, ChoiceWins, DeskInv
  <2>3. QED
    BY <2>1, <2>2
<1>9. ASSUME NEW a, OpenEditor(a) \/ OpenCalled(a) PROVE Kept /\ ChoiceWins'
  BY <1>9, <1>1, <1>4 DEF OpenEditor, OpenCalled
<1>10. ASSUME NEW i, OpenCrumb(i) PROVE Kept /\ ChoiceWins'
  BY <1>10, <1>1, <1>4 DEF OpenCrumb
<1>11. ASSUME Spawn \/ Back PROVE Kept /\ ChoiceWins'
  BY <1>11, <1>1, <1>4 DEF Spawn, SpawnSession, Back
<1>12. ASSUME Edit \/ KeepEditing PROVE Kept /\ ChoiceWins'
  <2>1. /\ HasFields(editor', EditorFields) /\ editor'.dirty \in BOOLEAN /\ editor'.leaving \in BOOLEAN
        /\ editor'.edits # "none" => editor'.dirty
    BY <1>12 DEF Edit, Edited, KeepEditing, DeskInv, HasFields, EditorFields
  <2>2. QED
    BY <1>12, <2>1, <1>3, <1>4 DEF Edit, KeepEditing
<1>13. ASSUME Save \/ SaveRefused \/ SaveFailed PROVE Kept /\ ChoiceWins'
  <2>1. /\ HasFields(editor', EditorFields) /\ editor'.dirty \in BOOLEAN /\ editor'.leaving \in BOOLEAN
        /\ editor'.edits # "none" => editor'.dirty
    <3>1. CASE Save
      BY <3>1 DEF Save, DeskInv, HasFields, EditorFields
    <3>2. CASE SaveRefused
      BY <3>2 DEF SaveRefused, DeskInv, HasFields, EditorFields
    <3>3. CASE SaveFailed
      BY <3>3 DEF SaveFailed, DeskInv, HasFields, EditorFields
    <3>4. QED
      BY <1>13, <3>1, <3>2, <3>3
  <2>2. UNCHANGED <<palette, sidebar>>
    BY <1>13 DEF Save, SaveRefused, SaveFailed
  <2>3. QED
    BY <2>1, <2>2, <1>3, <1>4
<1>14. ASSUME Saved \/ Discard PROVE Kept /\ ChoiceWins'
  <2>1. PICK next, e :
          /\ Show(next, e, palette) /\ HasFields(e, EditorFields) /\ e.dirty \in BOOLEAN
          /\ e.leaving \in BOOLEAN /\ (e.edits # "none" => e.dirty)
    <3>1. CASE Saved
      <4> DEFINE e == [editor EXCEPT !.saving = FALSE, !.held = None, !.leaving = TRUE,
                                     !.edits = IF @ = "sent" THEN "none" ELSE @]
      <4>1. /\ HasFields(e, EditorFields) /\ e.dirty \in BOOLEAN
            /\ e.leaving \in BOOLEAN /\ (e.edits # "none" => e.dirty)
        BY DEF DeskInv, HasFields, EditorFields
      <4>2. PICK next : Show(next, e, palette)
        BY <3>1 DEF Saved
      <4> HIDE DEF e
      <4>3. QED
        BY <4>1, <4>2
    <3>2. CASE Discard
      <4> DEFINE e == [editor EXCEPT !.held = None, !.leaving = TRUE]
      <4>1. /\ HasFields(e, EditorFields) /\ e.dirty \in BOOLEAN
            /\ e.leaving \in BOOLEAN /\ (e.edits # "none" => e.dirty)
        BY DEF DeskInv, HasFields, EditorFields
      <4>2. Show(editor.held, e, palette)
        BY <3>2 DEF Discard
      <4> HIDE DEF e
      <4>3. QED
        BY <4>1, <4>2
    <3>3. QED
      BY <1>14, <3>1, <3>2
  <2>2. Kept
    BY <2>1, ShowKeeps DEF DeskInv, PickerIsOpen, Kept
  <2>3. UNCHANGED sidebar
    BY <1>14 DEF Saved, Discard
  <2>4. QED
    BY <2>2, <2>3, <1>4
<1>15. ASSUME StraySaved PROVE Kept /\ ChoiceWins'
  <2>1. CASE Guarded
    <3>1. /\ HasFields(editor', EditorFields) /\ editor'.dirty \in BOOLEAN
          /\ editor'.leaving \in BOOLEAN /\ (editor'.edits # "none" => editor'.dirty)
      BY <1>15, <2>1 DEF StraySaved, DeskInv, HasFields, EditorFields
    <3>2. QED
      BY <1>15, <2>1, <3>1, <1>3, <1>4 DEF StraySaved
  <2>2. CASE ~Guarded /\ SameEditor(BackFrom)
    BY <1>15, <2>2, <1>2, <1>4 DEF StraySaved
  <2>3. CASE ~Guarded /\ ~SameEditor(BackFrom)
    <3>1. editor' = Clean /\ palette' = [palette EXCEPT !.snippet = IF @ = "editor" THEN "gone" ELSE @]
      BY <1>15, <2>3 DEF StraySaved
    <3>3. HasFields(palette', PaletteFields) /\ PickerIsOpen'
      BY <3>1 DEF HasFields, PaletteFields, PickerIsOpen, DeskInv
    <3>4. QED
      BY <1>15, <3>1, <3>3, CleanIsClean, <1>4 DEF Kept, HasFields, EditorFields, StraySaved
  <2>4. QED
    BY <2>1, <2>2, <2>3
<1>16. ASSUME StrayFailed PROVE Kept /\ ChoiceWins'
  BY <1>16, <1>2, <1>4 DEF StrayFailed
<1>17. ASSUME NEW p, ShowPalette(p), HasFields(p, PaletteFields) , p.host => p.open /\ p.mode = "pickHost",
              p.snippet # "none" => p.open /\ p.mode = "pickSnippet"
       PROVE  Kept /\ ChoiceWins'
  BY <1>17, <1>4 DEF ShowPalette, HasFields, PaletteFields, PickerIsOpen, DeskInv, HasFields, EditorFields, Kept
<1>18. ASSUME Toggle \/ PickHost \/ PickSnippet PROVE Kept /\ ChoiceWins'
  BY <1>18, <1>17 DEF Toggle, PickHost, PickSnippet, Opened, Closed, ShowPalette, HasFields, PaletteFields
<1>19. ASSUME ChooseHost PROVE Kept /\ ChoiceWins'
  BY <1>19, <1>1, <1>4 DEF ChooseHost, SpawnSession
<1>20. ASSUME ChooseSnippet PROVE Kept /\ ChoiceWins'
  <2>1. HasFields(editor', EditorFields) /\ editor'.dirty \in BOOLEAN /\ editor'.leaving \in BOOLEAN
        /\ (editor'.edits # "none" => editor'.dirty)
    BY <1>20 DEF ChooseSnippet, Edited, DeskInv, HasFields, EditorFields
  <2>2. HasFields(palette', PaletteFields) /\ PickerIsOpen'
    BY <1>20 DEF ChooseSnippet, Closed, HasFields, PaletteFields, PickerIsOpen
  <2>3. QED
    BY <1>20, <2>1, <2>2, <1>4 DEF ChooseSnippet, Kept
<1>21. ASSUME UNCHANGED vars PROVE Kept /\ ChoiceWins'
  BY <1>21, <1>2, <1>4 DEF vars, sidebar
<1>22. QED
  BY <1>5, <1>6, <1>7, <1>8, <1>9, <1>10, <1>11, <1>12, <1>13, <1>14, <1>15, <1>16, <1>18, <1>19,
     <1>20, <1>21 DEF Next

\* The window's invariant, whatever is pressed, opened, saved or answered.
THEOREM DeskInvariance == Spec => []DeskInv
<1>1. Init => DeskInv
  <2> SUFFICES ASSUME Init PROVE DeskInv
    OBVIOUS
  <2>1. HasFields(editor, EditorFields) /\ editor.dirty \in BOOLEAN /\ editor.leaving \in BOOLEAN
        /\ (editor.edits # "none" => editor.dirty)
    BY CleanIsClean DEF Init, HasFields, EditorFields
  <2>2. HasFields(palette, PaletteFields) /\ PickerIsOpen
    BY DEF Init, HasFields, PaletteFields, PickerIsOpen, Closed
  <2>3. ChoiceWins
    BY DEF Init, ChoiceWins
  <2>4. QED
    BY <2>1, <2>2, <2>3 DEF DeskInv
<1>2. DeskInv /\ [Next]_vars => DeskInv'
  BY DeskInvStep
<1>3. QED
  BY <1>1, <1>2, PTL DEF Spec

\* However the content moves, an editor with changes goes only by its user's own answer
\* (activeEntity.go(), AutomationEditor's question).
THEOREM EditorGoesOnlyByAnswer == Spec => EditorGoesByAnswer
<1> DEFINE Answer == LeavesEditor /\ editor.edits # "none" => Discard \/ Saved \/ editor.leaving
<1>1. ASSUME DeskInv, Next PROVE Answer
  <2> SUFFICES ASSUME LeavesEditor, editor.edits # "none", ~Discard, ~Saved PROVE editor.leaving
    OBVIOUS
  <2>1. ASSUME NEW next, NEW p, Go(next, p) PROVE editor.leaving
    BY <1>1, <2>1, GoIsGuarded
  <2>2. Editing /\ active' # active
    BY DEF LeavesEditor, Editing
  <2>3. ~StraySaved \/ editor.leaving
    <3>1. CASE StraySaved /\ Guarded
      BY <2>2, <3>1 DEF StraySaved
    <3>2. CASE ~Guarded
      BY <1>1, <2>2, <3>2 DEF DeskInv, Guarded
    <3>3. QED
      BY <3>1, <3>2
  <2>4. ASSUME NEW t \in tabs, CloseSession(t) PROVE editor.leaving
    BY <2>1, <2>2, <2>4 DEF CloseSession
  <2>5. ASSUME NEW m \in Modes, SetMode(m) \/ Hydrate(m) PROVE editor.leaving
    BY <2>1, <2>2, <2>5 DEF SetMode, Hydrate, Follow
  <2>6. ~Edit /\ ~KeepEditing /\ ~Save /\ ~SaveRefused /\ ~SaveFailed /\ ~StrayFailed
        /\ ~Toggle /\ ~PickHost /\ ~PickSnippet /\ ~ChooseSnippet
    BY <2>2 DEF Edit, KeepEditing, Save, SaveRefused, SaveFailed, StrayFailed, Toggle, PickHost,
                PickSnippet, ChooseSnippet, ShowPalette
  <2>7. ASSUME NEW t \in tabs, Activate(t) \/ ChooseSession(t) PROVE editor.leaving
    BY <2>1, <2>7 DEF Activate, ChooseSession
  <2>8. ASSUME \/ \E s \in Screens : Select(s)
               \/ \E a : OpenCalled(a) \/ OpenEditor(a)
               \/ \E i : OpenCrumb(i)
               \/ Spawn \/ Back \/ ChooseHost
        PROVE  editor.leaving
    BY <2>1, <2>8 DEF Select, OpenCalled, OpenEditor, OpenCrumb, Spawn, SpawnSession, Back, ChooseHost
  <2>9. QED
    BY <1>1, <2>3, <2>4, <2>5, <2>6, <2>7, <2>8 DEF Next
<1>2. ASSUME UNCHANGED vars PROVE Answer
  BY <1>2 DEF vars, LeavesEditor, Editing
<1>3. DeskInv /\ [Next]_vars => [Answer]_vars
  BY <1>1
<1>4. QED
  BY <1>3, DeskInvariance, PTL DEF Spec, EditorGoesByAnswer

\* No caller of a picker waits for one that is not on screen, and a mode the user chose
\* stays (palette.ts, sidebarMode.ts).
THEOREM PickersStayOpen == Spec => [](PickerIsOpen /\ ChoiceWins)
<1>1. DeskInv => PickerIsOpen /\ ChoiceWins
  BY DEF DeskInv
<1>2. QED
  BY <1>1, DeskInvariance, PTL

-----------------------------------------------------------------------------
(* The library *)

AnyAutomation == [uses : SUBSET Ids, calls : SUBSET (Names \X BOOLEAN), asks : BOOLEAN]

\* The automations of a file: a function from names.
IsLibrary(f) == f \in [DOMAIN f -> AnyAutomation]

UsesAre(f, snippets) == \A n \in DOMAIN f : f[n].uses \subseteq snippets

Alone == \A c, d \in Calls : call[c].at # "idle" /\ call[d].at # "idle" => c = d

WellAsked(req) ==
  /\ req.op = "saveAutomation" => req.draft \in AnyAutomation /\ req.name \in Names
  /\ req.op = "import" => req.bundle \in Bundles

\* While one command is through before the next, what it has read is what is there, and
\* what an import has yet to save fits the snippets it saved.
LibraryInv ==
  /\ HasFields(library, Files)
  /\ IsLibrary(library.automations)
  /\ call = [c \in Calls |-> call[c]]
  /\ \A c \in Calls :
       /\ HasFields(call[c], {"at", "req", "got"}) /\ WellAsked(call[c].req)
       /\ call[c].at = "saving" => IsLibrary(call[c].got["automations"])
       /\ call[c].at = "loading" => \A f \in DOMAIN call[c].got :
            f \in Files /\ (f = "automations" => IsLibrary(call[c].got[f]))
  /\ overlapped \in BOOLEAN /\ foreign \in BOOLEAN
  /\ ~overlapped =>
       /\ Alone
       /\ UsesAre(library.automations, library.snippets)
       /\ ~foreign => CallsLead(library.automations)
       /\ \A c \in Calls :
            /\ call[c].at = "loading" =>
                 \A f \in DOMAIN call[c].got : call[c].got[f] = library[f]
            /\ call[c].at = "saving" =>
                 /\ UsesAre(call[c].got["automations"], library.snippets)
                 /\ ~foreign => CallsLead(call[c].got["automations"])

LEMMA NamesTyped == Typed \subseteq Names
  BY LibraryAssumptions DEF Typed, Names

\* A new automation under a name, in a library where its calls are.
LEMMA PutKeeps ==
  ASSUME NEW f, IsLibrary(f), NEW n, NEW a \in AnyAutomation, NEW S
  PROVE  /\ IsLibrary(Put(f, n, a))
         /\ DOMAIN Put(f, n, a) = DOMAIN f \cup {n}
         /\ UsesAre(f, S) /\ a.uses \subseteq S => UsesAre(Put(f, n, a), S)
         /\ CallsLead(f) /\ (\A s \in a.calls : s[1] \in DOMAIN f \cup {n}) => CallsLead(Put(f, n, a))
  BY DEF IsLibrary, Put, UsesAre, CallsLead

LEMMA WithoutKeeps ==
  ASSUME NEW f, IsLibrary(f), NEW n, NEW S
  PROVE  /\ IsLibrary(Without(f, n))
         /\ DOMAIN Without(f, n) = DOMAIN f \ {n}
         /\ UsesAre(f, S) => UsesAre(Without(f, n), S)
         /\ CallsLead(f) /\ ~CalledByOthers(f, n) => CallsLead(Without(f, n))
  BY DEF IsLibrary, Without, UsesAre, CallsLead, CalledByOthers

\* A rename takes the callers along.
LEMMA RepointedFields ==
  ASSUME NEW a \in AnyAutomation, NEW old, NEW new \in Names
  PROVE  /\ Repointed(a, old, new) \in AnyAutomation
         /\ Repointed(a, old, new).uses = a.uses
         /\ Repointed(a, old, new).calls = {IF s[1] = old THEN <<new, s[2]>> ELSE s : s \in a.calls}
<1> DEFINE moved == {IF s[1] = old THEN <<new, s[2]>> ELSE s : s \in a.calls}
<1>1. moved \subseteq Names \X BOOLEAN
  <2>1. \A s \in a.calls : s \in Names \X BOOLEAN
    BY DEF AnyAutomation
  <2>2. QED
    BY <2>1
<1> HIDE DEF moved
<1>2. Repointed(a, old, new) = [a EXCEPT !.calls = moved]
  BY DEF Repointed, moved
<1>3. QED
  BY <1>1, <1>2 DEF AnyAutomation, moved

LEMMA UpsertKeeps ==
  ASSUME NEW f, IsLibrary(f), NEW name \in Names, NEW a \in AnyAutomation, NEW previous, NEW S,
         UsesAre(f, S) => a.uses \subseteq S,
         CallsLead(f) => \A s \in a.calls : s[1] \in {name} \cup
           (IF previous \in {NoName, name} THEN DOMAIN f ELSE DOMAIN f \ {previous})
  PROVE  /\ IsLibrary(Upsert(f, name, a, previous))
         /\ UsesAre(f, S) => UsesAre(Upsert(f, name, a, previous), S)
         /\ CallsLead(f) => CallsLead(Upsert(f, name, a, previous))
<1>1. CASE previous \in {NoName, name}
  BY <1>1, PutKeeps DEF Upsert
<1>2. CASE previous \notin {NoName, name}
  <2> DEFINE after == Put(Without(f, previous), name, a)
             g == [n \in DOMAIN after |-> Repointed(after[n], previous, name)]
  <2>1. Upsert(f, name, a, previous) = g
    BY <1>2 DEF Upsert
  <2>2. /\ IsLibrary(after) /\ DOMAIN after = (DOMAIN f \ {previous}) \cup {name}
        /\ UsesAre(f, S) => UsesAre(after, S)
    <3>1. /\ IsLibrary(Without(f, previous)) /\ DOMAIN Without(f, previous) = DOMAIN f \ {previous}
          /\ UsesAre(f, S) => UsesAre(Without(f, previous), S)
      BY WithoutKeeps
    <3>2. QED
      BY <3>1, PutKeeps
  <2>3. ASSUME CallsLead(f), NEW n \in DOMAIN after, NEW s \in after[n].calls
        PROVE  s[1] = previous \/ s[1] \in DOMAIN after
    <3>1. CASE n = name
      BY <1>2, <2>2, <2>3, <3>1 DEF Put
    <3>2. CASE n # name
      <4>1. n \in DOMAIN f /\ after[n] = f[n]
        BY <2>2, <3>2 DEF Put, Without
      <4>2. QED
        BY <2>2, <2>3, <4>1 DEF CallsLead
    <3>3. QED
      BY <3>1, <3>2
  <2> HIDE DEF after
  <2>4. \A n \in DOMAIN after : after[n] \in AnyAutomation
    BY <2>2 DEF IsLibrary
  <2>5. IsLibrary(g)
    BY <2>4, RepointedFields DEF IsLibrary
  <2>6. UsesAre(f, S) => UsesAre(g, S)
    BY <2>2, <2>4, RepointedFields DEF UsesAre
  <2>7. ASSUME CallsLead(f), NEW n \in DOMAIN g, NEW s \in g[n].calls PROVE s[1] \in DOMAIN g
    <3>1. n \in DOMAIN after /\ g[n] = Repointed(after[n], previous, name) /\ DOMAIN g = DOMAIN after
      OBVIOUS
    <3>2. PICK r \in after[n].calls : s = IF r[1] = previous THEN <<name, r[2]>> ELSE r
      BY <2>4, <2>7, <3>1, RepointedFields
    <3>3. r[1] = previous \/ r[1] \in DOMAIN after
      BY <2>3, <2>7, <3>1
    <3>4. QED
      BY <2>2, <3>1, <3>2, <3>3
  <2> HIDE DEF g
  <2>8. QED
    BY <2>1, <2>5, <2>6, <2>7 DEF CallsLead
<1>3. QED
  BY <1>1, <1>2

\* What a bundle holds.
LEMMA BundleHolds ==
  ASSUME NEW b \in Bundles
  PROVE  /\ b = [snippets |-> b.snippets, automations |-> b.automations]
         /\ IsLibrary(b.automations)
         /\ UsesAre(b.automations, b.snippets)
<1>1. CASE b = [snippets |-> {TheirId}, automations |-> <<>>]
  BY <1>1 DEF IsLibrary, UsesAre
<1>2. ASSUME NEW f, f \in [DOMAIN f -> Theirs], b = BundleOf(f)
      PROVE  /\ b = [snippets |-> b.snippets, automations |-> b.automations]
             /\ IsLibrary(b.automations)
             /\ UsesAre(b.automations, b.snippets)
  <2>1. Theirs \subseteq AnyAutomation
    <3>1. TheirId \in Ids
      BY LibraryAssumptions DEF TheirId
    <3>2. QED
      BY <3>1, NamesTyped DEF Theirs, AutomationsOf, AnyAutomation
  <2>2. b.automations = f /\ b.snippets = UNION {f[n].uses : n \in DOMAIN f}
        /\ b = [snippets |-> b.snippets, automations |-> b.automations]
    BY <1>2 DEF BundleOf
  <2>3. QED
    BY <1>2, <2>1, <2>2 DEF IsLibrary, UsesAre
<1>3. ASSUME b # [snippets |-> {TheirId}, automations |-> <<>>]
      PROVE  \E f : f \in [DOMAIN f -> Theirs] /\ b = BundleOf(f)
  BY <1>3 DEF Bundles
<1>4. QED
  BY <1>1, <1>2, <1>3

LEMMA MergedKeeps ==
  ASSUME NEW b \in Bundles, NEW fresh \in [b.snippets -> Ids], NEW f, IsLibrary(f), NEW S
  PROVE  LET merged == Merged(b, fresh, f)
         IN /\ IsLibrary(merged)
            /\ UsesAre(f, S) => UsesAre(merged, S \cup {fresh[i] : i \in b.snippets})
            /\ CallsLead(f) /\ (\A n \in DOMAIN b.automations : b.automations[n].calls = {})
                 => CallsLead(merged)
<1> DEFINE names == DOMAIN b.automations
           named == [n \in names |-> UniqueName(n, DOMAIN f)]
           moved(a) == [a EXCEPT !.uses = {fresh[i] : i \in a.uses}]
           brought == {named[n] : n \in names}
           T == {fresh[i] : i \in b.snippets}
           merged == Merged(b, fresh, f)
<1>1. /\ DOMAIN merged = brought \cup DOMAIN f
      /\ \A m \in brought : merged[m] = moved(b.automations[CHOOSE n \in names : named[n] = m])
      /\ \A m \in DOMAIN f \ brought : merged[m] = f[m]
      /\ merged = [m \in DOMAIN merged |-> merged[m]]
  BY DEF Merged
<1>2. ASSUME NEW m \in brought
      PROVE  \E n \in names : merged[m] = moved(b.automations[n])
  <2>1. \E n \in names : named[n] = m
    BY <1>2
  <2> HIDE DEF named, names, merged, moved
  <2>2. (CHOOSE n \in names : named[n] = m) \in names
    BY <2>1
  <2>3. QED
    BY <1>1, <2>2
<1>3. ASSUME NEW n \in names
      PROVE  LET a == moved(b.automations[n])
             IN /\ a \in AnyAutomation /\ a.uses \subseteq T /\ a.calls = b.automations[n].calls
  <2>1. b.automations[n] \in AnyAutomation /\ b.automations[n].uses \subseteq b.snippets
    BY BundleHolds DEF IsLibrary, UsesAre
  <2> DEFINE a == b.automations[n]
             U == {fresh[i] : i \in a.uses}
  <2>2. U \subseteq T /\ T \subseteq Ids
    BY <2>1
  <2>3. moved(a) = [a EXCEPT !.uses = U]
    OBVIOUS
  <2> HIDE DEF a, U, T
  <2>4. moved(a) \in AnyAutomation /\ moved(a).uses = U /\ moved(a).calls = a.calls
    <3>1. a \in AnyAutomation
      BY <2>1 DEF a
    <3>2. QED
      BY <2>2, <2>3, <3>1 DEF AnyAutomation
  <2>5. QED
    BY <2>2, <2>4 DEF a
<1> HIDE DEF moved, names, named, brought, T, merged
<1>4. IsLibrary(merged)
  BY <1>1, <1>2, <1>3 DEF IsLibrary
<1>5. UsesAre(f, S) => UsesAre(merged, S \cup T)
  BY <1>1, <1>2, <1>3 DEF UsesAre
<1>6. ASSUME CallsLead(f), \A n \in names : b.automations[n].calls = {} PROVE CallsLead(merged)
  BY <1>1, <1>2, <1>3, <1>6 DEF CallsLead
<1>7. QED
  BY <1>4, <1>5, <1>6 DEF merged, T, names

-----------------------------------------------------------------------------
(* The commands *)

LEMMA FirstLibraryInv ==
  ASSUME LibraryInit
  PROVE  LibraryInv
<1>1. /\ library = [snippets |-> library.snippets, automations |-> library.automations]
      /\ library.automations \in [DOMAIN library.automations -> AutomationsOf(library.snippets, Names)]
      /\ library.snippets \subseteq Ids
  BY LibraryAssumptions DEF LibraryInit
<1>2. HasFields(library, Files)
  BY <1>1 DEF HasFields, Files
<1>3. IsLibrary(library.automations) /\ UsesAre(library.automations, library.snippets)
  BY <1>1 DEF IsLibrary, UsesAre, AutomationsOf, AnyAutomation
<1>4. /\ call = [c \in Calls |-> call[c]]
      /\ \A c \in Calls : HasFields(call[c], {"at", "req", "got"}) /\ call[c].at = "idle"
                          /\ WellAsked(call[c].req)
  BY DEF LibraryInit, Idle, HasFields, WellAsked
<1>5. ~overlapped /\ overlapped \in BOOLEAN /\ foreign = ~CallsLead(library.automations)
  BY DEF LibraryInit
<1>6. Alone
  BY <1>4 DEF Alone
<1>7. QED
  BY <1>2, <1>3, <1>4, <1>5, <1>6 DEF LibraryInv

LEMMA AsksKeep ==
  ASSUME LibraryInv, NEW c \in Calls, NEW req, WellAsked(req), Asks(c, req)
  PROVE  LibraryInv'
<1>1. /\ call' = [call EXCEPT ![c] = [at |-> "loading", req |-> req, got |-> <<>>]]
      /\ call[c] = Idle /\ UNCHANGED <<library, foreign>>
      /\ overlapped' = (overlapped \/ \E d \in Calls : call[d] # Idle)
  BY DEF Asks
<1>2. /\ call' = [d \in Calls |-> call'[d]]
      /\ call'[c] = [at |-> "loading", req |-> req, got |-> <<>>]
      /\ \A d \in Calls \ {c} : call'[d] = call[d]
  BY <1>1 DEF LibraryInv
<1>3. HasFields(call'[c], {"at", "req", "got"}) /\ call'[c].at = "loading"
      /\ call'[c].req = req /\ call'[c].got = <<>> /\ DOMAIN call'[c].got = {}
  BY <1>2 DEF HasFields
<1>4. overlapped' \in BOOLEAN
  BY <1>1 DEF LibraryInv
<1>5. ASSUME ~overlapped'
      PROVE  ~overlapped /\ \A d \in Calls : call[d] = Idle
  BY <1>1, <1>5
<1>6. \A d \in Calls : call[d] = Idle => call[d].at = "idle"
  BY DEF Idle
<1>7. ~overlapped' => Alone'
  BY <1>2, <1>5, <1>6 DEF Alone
<1>8. QED
  BY <1>1, <1>2, <1>3, <1>4, <1>5, <1>6, <1>7 DEF LibraryInv

\* A call that is idle again, or done: with the files as they were or as it leaves them.
LEMMA EndsKeep ==
  ASSUME LibraryInv, NEW c \in Calls, call[c].at # "idle", NEW r, call' = [call EXCEPT ![c] = r],
         HasFields(r, {"at", "req", "got"}), WellAsked(r.req), r.at \in {"idle", "done"},
         HasFields(library', Files), IsLibrary(library'.automations),
         overlapped' = overlapped, foreign' \in BOOLEAN,
         ~overlapped => /\ UsesAre(library'.automations, library'.snippets)
                        /\ ~foreign' => CallsLead(library'.automations)
  PROVE  LibraryInv'
<1>1. /\ call' = [d \in Calls |-> call'[d]] /\ call'[c] = r
      /\ \A d \in Calls \ {c} : call'[d] = call[d]
  BY DEF LibraryInv
<1>2. ASSUME ~overlapped, NEW d \in Calls PROVE call'[d].at \notin {"loading", "saving"}
  BY <1>1, <1>2 DEF LibraryInv, Alone
<1>3. ~overlapped => Alone'
  BY <1>1 DEF LibraryInv, Alone
<1>4. QED
  BY <1>1, <1>2, <1>3 DEF LibraryInv

\* What a command decides on: what is there, as long as no other is under way.
LEMMA DecidesOnWhatIsThere ==
  ASSUME LibraryInv, NEW c \in Calls, NEW op, Decides(c, op)
  PROVE  /\ call[c].at = "loading" /\ call[c].req.op = op /\ WellAsked(call[c].req)
         /\ DOMAIN call[c].got = Reads(call[c].req)
         /\ "automations" \in Reads(call[c].req) => IsLibrary(call[c].got["automations"])
         /\ ~overlapped => \A f \in Reads(call[c].req) : call[c].got[f] = library[f]
         /\ library = [f \in Files |-> library[f]] /\ IsLibrary(library.automations)
         /\ foreign \in BOOLEAN /\ overlapped' = overlapped
         /\ ~overlapped => /\ UsesAre(library.automations, library.snippets)
                           /\ ~foreign => CallsLead(library.automations)
  BY DEF LibraryInv, Decides, HasFields

LEMMA DoneEnds ==
  ASSUME LibraryInv, NEW c \in Calls
  PROVE  /\ Done(c) => \E r : /\ call' = [call EXCEPT ![c] = r] /\ HasFields(r, {"at", "req", "got"})
                              /\ WellAsked(r.req) /\ r.at \in {"idle", "done"}
         /\ call' = [call EXCEPT ![c] = Idle] =>
              \E r : /\ call' = [call EXCEPT ![c] = r] /\ HasFields(r, {"at", "req", "got"})
                     /\ WellAsked(r.req) /\ r.at \in {"idle", "done"}
<1>1. ASSUME Done(c)
      PROVE  \E r : /\ call' = [call EXCEPT ![c] = r] /\ HasFields(r, {"at", "req", "got"})
                    /\ WellAsked(r.req) /\ r.at \in {"idle", "done"}
  <2> DEFINE r == [call[c] EXCEPT !.at = "done", !.got = <<>>]
  <2>1. HasFields(r, {"at", "req", "got"}) /\ r.req = call[c].req /\ r.at = "done"
    BY DEF LibraryInv, HasFields
  <2>2. call' = [call EXCEPT ![c] = r]
    BY <1>1 DEF Done, LibraryInv
  <2> HIDE DEF r
  <2>3. WellAsked(r.req)
    BY <2>1 DEF LibraryInv
  <2>4. QED
    BY <2>1, <2>2, <2>3
<1>2. HasFields(Idle, {"at", "req", "got"}) /\ WellAsked(Idle.req) /\ Idle.at = "idle"
  BY DEF Idle, HasFields, WellAsked
<1>3. QED
  BY <1>1, <1>2

\* One command through to its save.
LEMMA CommandKeeps ==
  ASSUME LibraryInv, NEW c \in Calls, NEW op, Decides(c, op), Done(c) \/ call' = [call EXCEPT ![c] = Idle],
         HasFields(library', Files), IsLibrary(library'.automations), foreign' \in BOOLEAN,
         ~overlapped => /\ UsesAre(library'.automations, library'.snippets)
                        /\ ~foreign' => CallsLead(library'.automations)
  PROVE  LibraryInv'
<1>1. PICK r : /\ call' = [call EXCEPT ![c] = r] /\ HasFields(r, {"at", "req", "got"})
               /\ WellAsked(r.req) /\ r.at \in {"idle", "done"}
  BY DoneEnds
<1>2. call[c].at # "idle" /\ overlapped' = overlapped
  BY DecidesOnWhatIsThere
<1>3. QED
  BY <1>1, <1>2, EndsKeep

LEMMA RefuseKeeps ==
  ASSUME LibraryInv, NEW c \in Calls, NEW op, Decides(c, op), Refuse(c)
  PROVE  LibraryInv'
<1>1. UNCHANGED <<library, foreign>> /\ call' = [call EXCEPT ![c] = Idle]
  BY DEF Refuse
<1>2. QED
  BY <1>1, CommandKeeps DEF LibraryInv

LEMMA SavesFile ==
  ASSUME LibraryInv, NEW v
  PROVE  /\ SavesSnippets(v) => /\ HasFields(library', Files) /\ library'.snippets = v
                                /\ library'.automations = library.automations
         /\ SavesAutomations(v) => /\ HasFields(library', Files) /\ library'.automations = v
                                   /\ library'.snippets = library.snippets
  BY DEF LibraryInv, SavesSnippets, SavesAutomations, HasFields, Files

LEMMA SaveSnippetKeeps ==
  ASSUME LibraryInv, NEW c \in Calls, SaveSnippet(c)
  PROVE  LibraryInv'
<1>1. Decides(c, "saveSnippet") /\ Done(c) /\ foreign' = foreign
      /\ SavesSnippets(call[c].got["snippets"] \cup {call[c].req.id})
  BY DEF SaveSnippet
<1>2. /\ HasFields(library', Files) /\ library'.automations = library.automations
      /\ library'.snippets = call[c].got["snippets"] \cup {call[c].req.id}
  BY <1>1, SavesFile
<1>3. ~overlapped => library.snippets \subseteq library'.snippets
  BY <1>1, <1>2, DecidesOnWhatIsThere DEF Reads
<1>4. QED
  BY <1>1, <1>2, <1>3, CommandKeeps DEF LibraryInv, UsesAre

LEMMA DeleteSnippetKeeps ==
  ASSUME LibraryInv, NEW c \in Calls, DeleteSnippet(c)
  PROVE  LibraryInv'
<1>1. Decides(c, "deleteSnippet")
  BY DEF DeleteSnippet
<1>2. CASE Referenced(call[c].got["automations"], call[c].req.id)
  BY <1>1, <1>2, RefuseKeeps DEF DeleteSnippet
<1>3. CASE ~Referenced(call[c].got["automations"], call[c].req.id)
  <2>1. Done(c) /\ SavesSnippets(call[c].got["snippets"] \ {call[c].req.id}) /\ foreign' = foreign
    BY <1>3 DEF DeleteSnippet
  <2>2. /\ HasFields(library', Files) /\ library'.automations = library.automations
        /\ library'.snippets = call[c].got["snippets"] \ {call[c].req.id}
    BY <2>1, SavesFile
  <2>3. ~overlapped => UsesAre(library'.automations, library'.snippets)
    <3> SUFFICES ASSUME ~overlapped PROVE UsesAre(library.automations, library'.snippets)
      BY <2>2
    <3>1. call[c].got["automations"] = library.automations /\ call[c].got["snippets"] = library.snippets
      BY <1>1, DecidesOnWhatIsThere DEF Reads, Files
    <3>2. QED
      BY <1>3, <2>2, <3>1, <1>1, DecidesOnWhatIsThere DEF Referenced, UsesAre
  <2>4. QED
    BY <1>1, <2>1, <2>2, <2>3, CommandKeeps DEF LibraryInv
<1>4. QED
  BY <1>2, <1>3

LEMMA SaveAutomationKeeps ==
  ASSUME LibraryInv, NEW c \in Calls, SaveAutomation(c)
  PROVE  LibraryInv'
<1> DEFINE req == call[c].req
           automations == call[c].got["automations"]
           others == IF req.previous \in {NoName, req.name} THEN automations
                     ELSE Without(automations, req.previous)
           byName == Put(others, req.name, req.draft)
           after == Upsert(automations, req.name, req.draft, req.previous)
<1>1. Decides(c, "saveAutomation")
  BY DEF SaveAutomation
<1>2. PICK sound \in BOOLEAN :
        \/ Refuse(c)
        \/ /\ Valid(req.name, req.draft, sound, call[c].got["snippets"], byName)
           /\ Done(c) /\ SavesAutomations(after) /\ foreign' = foreign
  BY DEF SaveAutomation
<1>3. /\ req.draft \in AnyAutomation /\ req.name \in Names /\ IsLibrary(automations)
      /\ ~overlapped => automations = library.automations /\ call[c].got["snippets"] = library.snippets
  BY <1>1, DecidesOnWhatIsThere DEF Reads, Files, WellAsked
<1>4. CASE Refuse(c)
  BY <1>1, <1>4, RefuseKeeps
<1>5. CASE /\ Valid(req.name, req.draft, sound, call[c].got["snippets"], byName)
           /\ Done(c) /\ SavesAutomations(after) /\ foreign' = foreign
  <2>1. DOMAIN byName = {req.name} \cup (IF req.previous \in {NoName, req.name} THEN DOMAIN automations
                                         ELSE DOMAIN automations \ {req.previous})
    BY DEF Put, Without
  <2>2. /\ req.draft.uses \subseteq call[c].got["snippets"]
        /\ \A s \in req.draft.calls : s[1] \in DOMAIN byName
    BY <1>5 DEF Valid, CallProblem
  <2> HIDE DEF byName, others
  <2>3. /\ IsLibrary(after)
        /\ UsesAre(automations, call[c].got["snippets"]) => UsesAre(after, call[c].got["snippets"])
        /\ CallsLead(automations) => CallsLead(after)
    BY <1>3, <2>1, <2>2, UpsertKeeps
  <2> HIDE DEF after
  <2>4. /\ HasFields(library', Files) /\ library'.automations = after
        /\ library'.snippets = library.snippets
    BY <1>5, SavesFile
  <2>5. ~overlapped => /\ UsesAre(library'.automations, library'.snippets)
                       /\ ~foreign' => CallsLead(library'.automations)
    BY <1>1, <1>3, <1>5, <2>3, <2>4, DecidesOnWhatIsThere
  <2>6. QED
    BY <1>1, <1>5, <2>3, <2>4, <2>5, CommandKeeps DEF LibraryInv
<1>6. QED
  BY <1>2, <1>4, <1>5

LEMMA DeleteAutomationKeeps ==
  ASSUME LibraryInv, NEW c \in Calls, DeleteAutomation(c)
  PROVE  LibraryInv'
<1> DEFINE name == call[c].req.name
           automations == call[c].got["automations"]
<1>1. Decides(c, "deleteAutomation")
  BY DEF DeleteAutomation
<1>2. IsLibrary(automations) /\ (~overlapped => automations = library.automations)
  BY <1>1, DecidesOnWhatIsThere DEF Reads
<1>3. CASE CalledByOthers(automations, name)
  BY <1>1, <1>3, RefuseKeeps DEF DeleteAutomation
<1>4. CASE ~CalledByOthers(automations, name)
  <2>1. Done(c) /\ SavesAutomations(Without(automations, name)) /\ foreign' = foreign
    BY <1>4 DEF DeleteAutomation
  <2>2. /\ HasFields(library', Files) /\ library'.automations = Without(automations, name)
        /\ library'.snippets = library.snippets
    BY <2>1, SavesFile
  <2>3. /\ IsLibrary(library'.automations)
        /\ UsesAre(automations, library.snippets) => UsesAre(library'.automations, library'.snippets)
        /\ CallsLead(automations) => CallsLead(library'.automations)
    <3> HIDE DEF automations, name
    <3>1. /\ IsLibrary(Without(automations, name))
          /\ UsesAre(automations, library.snippets) => UsesAre(Without(automations, name), library.snippets)
          /\ CallsLead(automations) => CallsLead(Without(automations, name))
      BY <1>2, <1>4, WithoutKeeps
    <3>2. QED
      BY <2>2, <3>1
  <2>4. QED
    BY <1>1, <1>2, <2>1, <2>2, <2>3, CommandKeeps, DecidesOnWhatIsThere
<1>5. QED
  BY <1>3, <1>4

LEMMA ImportSnippetsKeeps ==
  ASSUME LibraryInv, NEW c \in Calls, ImportSnippets(c)
  PROVE  LibraryInv'
<1> DEFINE b == call[c].req.bundle
           got == call[c].got
<1>1. Decides(c, "import")
  BY DEF ImportSnippets
<1>2. /\ b \in Bundles /\ IsLibrary(got["automations"]) /\ foreign \in BOOLEAN
      /\ ~overlapped => got["automations"] = library.automations /\ got["snippets"] = library.snippets
  BY <1>1, DecidesOnWhatIsThere DEF WellAsked, Reads, Files
<1>3. PICK fresh \in [b.snippets -> Ids] :
        /\ SavesSnippets(got["snippets"] \cup {fresh[i] : i \in b.snippets})
        /\ \/ Done(c)
           \/ call' = [call EXCEPT ![c].at = "saving",
                         ![c].got = [f \in {"automations"} |-> Merged(b, fresh, got["automations"])]]
        /\ foreign' = (foreign \/ \E n \in DOMAIN b.automations : b.automations[n].calls # {})
  BY DEF ImportSnippets
<1> DEFINE T == {fresh[i] : i \in b.snippets}
           merged == Merged(b, fresh, got["automations"])
<1>4. /\ IsLibrary(merged)
      /\ UsesAre(got["automations"], got["snippets"]) => UsesAre(merged, got["snippets"] \cup T)
      /\ CallsLead(got["automations"]) /\ (\A n \in DOMAIN b.automations : b.automations[n].calls = {})
           => CallsLead(merged)
  BY <1>2, MergedKeeps
<1> HIDE DEF merged
<1>5. /\ HasFields(library', Files) /\ library'.automations = library.automations
      /\ library'.snippets = got["snippets"] \cup T
  BY <1>3, SavesFile
<1> HIDE DEF T
<1>6. /\ foreign' \in BOOLEAN
      /\ ~foreign' => ~foreign /\ \A n \in DOMAIN b.automations : b.automations[n].calls = {}
  BY <1>2, <1>3
<1>7. ~overlapped => /\ UsesAre(library'.automations, library'.snippets)
                     /\ ~foreign' => CallsLead(library'.automations)
  BY <1>1, <1>2, <1>5, <1>6, DecidesOnWhatIsThere DEF UsesAre
<1>8. CASE Done(c)
  BY <1>1, <1>5, <1>6, <1>7, <1>8, CommandKeeps DEF LibraryInv
<1>9. CASE call' = [call EXCEPT ![c].at = "saving", ![c].got = [f \in {"automations"} |-> merged]]
  <2>1. /\ call' = [d \in Calls |-> call'[d]]
        /\ \A d \in Calls \ {c} : call'[d] = call[d]
        /\ call'[c] = [call[c] EXCEPT !.at = "saving", !.got = [f \in {"automations"} |-> merged]]
    BY <1>9 DEF LibraryInv
  <2>2. /\ HasFields(call'[c], {"at", "req", "got"}) /\ call'[c].at = "saving"
        /\ call'[c].req = call[c].req /\ call'[c].got["automations"] = merged
    <3> DEFINE g == [f \in {"automations"} |-> merged]
    <3>1. g["automations"] = merged
      OBVIOUS
    <3> HIDE DEF g
    <3>2. HasFields(call[c], {"at", "req", "got"})
      BY DEF LibraryInv
    <3>3. call'[c] = [call[c] EXCEPT !.at = "saving", !.got = g]
      BY <2>1 DEF g
    <3>4. /\ HasFields(call'[c], {"at", "req", "got"}) /\ call'[c].at = "saving"
          /\ call'[c].req = call[c].req /\ call'[c].got = g
      BY <3>2, <3>3 DEF HasFields
    <3>5. QED
      BY <3>1, <3>4
  <2>3. ~overlapped => UsesAre(merged, library'.snippets) /\ (~foreign' => CallsLead(merged))
    BY <1>1, <1>2, <1>4, <1>5, <1>6, DecidesOnWhatIsThere
  <2>4. call[c].at = "loading" /\ overlapped' = overlapped
    BY <1>1, DecidesOnWhatIsThere
  <2>5. ~overlapped => Alone' /\ \A d \in Calls \ {c} : call'[d].at = "idle" \/ call[d].at \notin {"loading", "saving"}
    BY <2>1, <2>2, <2>4 DEF LibraryInv, Alone
  <2>6. QED
    <3>1. ASSUME NEW d \in Calls
          PROVE  /\ HasFields(call'[d], {"at", "req", "got"}) /\ WellAsked(call'[d].req)
                 /\ call'[d].at = "saving" => IsLibrary(call'[d].got["automations"])
                 /\ call'[d].at = "loading" => \A f \in DOMAIN call'[d].got :
                      f \in Files /\ (f = "automations" => IsLibrary(call'[d].got[f]))
      <4>1. CASE d = c
        BY <1>4, <2>2, <4>1 DEF LibraryInv
      <4>2. CASE d # c
        BY <2>1, <4>2 DEF LibraryInv
      <4>3. QED
        BY <4>1, <4>2
    <3>2. ASSUME ~overlapped, NEW d \in Calls
          PROVE  /\ call'[d].at # "loading"
                 /\ call'[d].at = "saving" =>
                      /\ UsesAre(call'[d].got["automations"], library'.snippets)
                      /\ ~foreign' => CallsLead(call'[d].got["automations"])
      BY <2>1, <2>2, <2>3, <2>5, <3>2
    <3>3. HasFields(library', Files) /\ IsLibrary(library'.automations) /\ overlapped' \in BOOLEAN
      BY <1>5, <2>4 DEF LibraryInv
    <3>4. QED
      BY <1>6, <1>7, <2>1, <2>4, <2>5, <3>1, <3>2, <3>3 DEF LibraryInv
<1>10. QED
  BY <1>3, <1>8, <1>9 DEF merged

LEMMA ImportAutomationsKeeps ==
  ASSUME LibraryInv, NEW c \in Calls, ImportAutomations(c)
  PROVE  LibraryInv'
<1>1. /\ call[c].at = "saving" /\ Done(c) /\ SavesAutomations(call[c].got["automations"])
      /\ UNCHANGED <<overlapped, foreign>>
  BY DEF ImportAutomations
<1>2. PICK r : /\ call' = [call EXCEPT ![c] = r] /\ HasFields(r, {"at", "req", "got"})
               /\ WellAsked(r.req) /\ r.at \in {"idle", "done"}
  BY <1>1, DoneEnds
<1>3. /\ HasFields(library', Files) /\ library'.automations = call[c].got["automations"]
      /\ library'.snippets = library.snippets
  BY <1>1, SavesFile
<1>4. /\ IsLibrary(library'.automations) /\ foreign' \in BOOLEAN
      /\ ~overlapped => /\ UsesAre(library'.automations, library'.snippets)
                        /\ ~foreign' => CallsLead(library'.automations)
  BY <1>1, <1>3 DEF LibraryInv
<1>5. QED
  BY <1>1, <1>2, <1>3, <1>4, EndsKeep

LEMMA EndKeeps ==
  ASSUME LibraryInv, NEW c \in Calls, Relist(c) \/ SaveFails(c)
  PROVE  LibraryInv'
<1>1. /\ call[c].at # "idle" /\ call' = [call EXCEPT ![c] = Idle]
      /\ UNCHANGED <<library, overlapped, foreign>>
  BY DEF Relist, SaveFails
<1>2. PICK r : /\ call' = [call EXCEPT ![c] = r] /\ HasFields(r, {"at", "req", "got"})
               /\ WellAsked(r.req) /\ r.at \in {"idle", "done"}
  BY <1>1, DoneEnds
<1>3. QED
  BY <1>1, <1>2, EndsKeep DEF LibraryInv

LEMMA LoadKeeps ==
  ASSUME LibraryInv, NEW c \in Calls, NEW file \in Files, Load(c, file)
  PROVE  LibraryInv'
<1> DEFINE g == Put(call[c].got, file, library[file])
<1>1. /\ call[c].at = "loading" /\ call' = [call EXCEPT ![c].got = g]
      /\ UNCHANGED <<library, overlapped, foreign>>
  BY DEF Load, LibraryInv
<1>2. /\ DOMAIN g = DOMAIN call[c].got \cup {file}
      /\ \A f \in DOMAIN g : g[f] = IF f = file THEN library[file] ELSE call[c].got[f]
  BY DEF Put
<1> HIDE DEF g
<1>3. /\ call' = [d \in Calls |-> call'[d]]
      /\ \A d \in Calls \ {c} : call'[d] = call[d]
      /\ call'[c] = [call[c] EXCEPT !.got = g]
  BY <1>1 DEF LibraryInv
<1>4. /\ HasFields(call'[c], {"at", "req", "got"}) /\ call'[c].at = "loading"
      /\ call'[c].req = call[c].req /\ call'[c].got = g
  BY <1>1, <1>3 DEF LibraryInv, HasFields
<1>5. library["automations"] = library.automations /\ IsLibrary(library.automations)
  BY DEF LibraryInv
<1>6. \A f \in DOMAIN g : f \in Files /\ (f = "automations" => IsLibrary(g[f]))
  BY <1>1, <1>2, <1>5 DEF LibraryInv
<1>7. ~overlapped => \A f \in DOMAIN g : g[f] = library[f]
  BY <1>1, <1>2 DEF LibraryInv
<1>8. ASSUME NEW d \in Calls
      PROVE  /\ HasFields(call'[d], {"at", "req", "got"}) /\ WellAsked(call'[d].req)
             /\ call'[d].at = "saving" => IsLibrary(call'[d].got["automations"])
             /\ call'[d].at = "loading" => \A f \in DOMAIN call'[d].got :
                  f \in Files /\ (f = "automations" => IsLibrary(call'[d].got[f]))
  BY <1>3, <1>4, <1>6 DEF LibraryInv
<1>9. ~overlapped => Alone'
  BY <1>1, <1>3, <1>4 DEF LibraryInv, Alone
<1>10. ASSUME ~overlapped, NEW d \in Calls
       PROVE  /\ call'[d].at = "loading" =>
                   \A f \in DOMAIN call'[d].got : call'[d].got[f] = library'[f]
              /\ call'[d].at = "saving" =>
                   /\ UsesAre(call'[d].got["automations"], library'.snippets)
                   /\ ~foreign' => CallsLead(call'[d].got["automations"])
  <2>1. CASE d = c
    BY <1>1, <1>4, <1>7, <1>10, <2>1
  <2>2. CASE d # c
    BY <1>1, <1>3, <1>10, <2>2 DEF LibraryInv
  <2>3. QED
    BY <2>1, <2>2
<1>11. QED
  BY <1>1, <1>3, <1>8, <1>9, <1>10 DEF LibraryInv

LEMMA CrashKeeps ==
  ASSUME LibraryInv, Crash
  PROVE  LibraryInv'
<1>1. call' = [c \in Calls |-> Idle] /\ UNCHANGED <<library, overlapped, foreign>>
  BY DEF Crash
<1>2. HasFields(Idle, {"at", "req", "got"}) /\ WellAsked(Idle.req) /\ Idle.at = "idle"
  BY DEF Idle, HasFields, WellAsked
<1>3. \A c \in Calls : call'[c] = Idle
  BY <1>1
<1>4. QED
  BY <1>1, <1>2, <1>3 DEF LibraryInv, Alone

LEMMA AskedKeeps ==
  ASSUME LibraryInv, NEW c \in Calls,
         \/ AskToSaveSnippet(c) \/ AskToDeleteSnippet(c) \/ AskToSaveAutomation(c)
         \/ AskToDeleteAutomation(c) \/ AskToImport(c)
  PROVE  LibraryInv'
<1>1. \E req : WellAsked(req) /\ Asks(c, req)
  <2>1. ASSUME AskToSaveSnippet(c) PROVE \E req : WellAsked(req) /\ Asks(c, req)
    <3>1. PICK i : Asks(c, [op |-> "saveSnippet", id |-> i])
      BY <2>1 DEF AskToSaveSnippet
    <3>2. WellAsked([op |-> "saveSnippet", id |-> i])
      BY DEF WellAsked
    <3>3. QED
      BY <3>1, <3>2
  <2>2. ASSUME AskToDeleteSnippet(c) PROVE \E req : WellAsked(req) /\ Asks(c, req)
    <3>1. PICK i : Asks(c, [op |-> "deleteSnippet", id |-> i])
      BY <2>2 DEF AskToDeleteSnippet
    <3>2. WellAsked([op |-> "deleteSnippet", id |-> i])
      BY DEF WellAsked
    <3>3. QED
      BY <3>1, <3>2
  <2>3. ASSUME AskToSaveAutomation(c) PROVE \E req : WellAsked(req) /\ Asks(c, req)
    <3>1. PICK n \in Typed, a \in Drafts, p \in {NoName} \cup DOMAIN shown.automations :
            Asks(c, [op |-> "saveAutomation", name |-> n, draft |-> a, previous |-> p])
      BY <2>3 DEF AskToSaveAutomation
    <3>2. a \in AnyAutomation /\ n \in Names
      BY NamesTyped DEF Drafts, AutomationsOf, AnyAutomation
    <3>3. WellAsked([op |-> "saveAutomation", name |-> n, draft |-> a, previous |-> p])
      BY <3>2 DEF WellAsked
    <3>4. QED
      BY <3>1, <3>3
  <2>4. ASSUME AskToDeleteAutomation(c) PROVE \E req : WellAsked(req) /\ Asks(c, req)
    <3>1. PICK n : Asks(c, [op |-> "deleteAutomation", name |-> n])
      BY <2>4 DEF AskToDeleteAutomation
    <3>2. WellAsked([op |-> "deleteAutomation", name |-> n])
      BY DEF WellAsked
    <3>3. QED
      BY <3>1, <3>2
  <2>5. ASSUME AskToImport(c) PROVE \E req : WellAsked(req) /\ Asks(c, req)
    <3>1. PICK b \in Bundles : Asks(c, [op |-> "import", bundle |-> b])
      BY <2>5 DEF AskToImport
    <3>2. WellAsked([op |-> "import", bundle |-> b])
      BY DEF WellAsked
    <3>3. QED
      BY <3>1, <3>2
  <2>6. QED
    BY <2>1, <2>2, <2>3, <2>4, <2>5
<1>2. QED
  BY <1>1, AsksKeep

\* The library's invariant holds whatever the commands read and save in whatever order.
THEOREM LibraryInvariance == LibrarySpec => []LibraryInv
<1>1. LibraryInit => LibraryInv
  BY FirstLibraryInv
<1>2. LibraryInv /\ [LibraryNext]_libraryVars => LibraryInv'
  <2> SUFFICES ASSUME LibraryInv, [LibraryNext]_libraryVars PROVE LibraryInv'
    OBVIOUS
  <2>1. CASE UNCHANGED libraryVars
    BY <2>1 DEF libraryVars, LibraryInv, Alone
  <2>2. ASSUME NEW c \in Calls, LoadSnippets(c) \/ LoadAutomations(c) PROVE LibraryInv'
    BY <2>2, LoadKeeps DEF LoadSnippets, LoadAutomations, Files
  <2>3. QED
    BY <2>1, <2>2, AskedKeeps, SaveSnippetKeeps, DeleteSnippetKeeps, SaveAutomationKeeps,
       DeleteAutomationKeeps, ImportSnippetsKeeps, ImportAutomationsKeeps, EndKeeps, CrashKeeps
    DEF LibraryNext
<1>3. QED
  BY <1>1, <1>2, PTL DEF LibrarySpec

\* "save_automation always validates this first so an automation reached through normal
\* use can't be in that state" (bundle.ts:51-54), for any number of snippets, automations
\* and commands: a saved step names a snippet that is there.
THEOREM StepsAlwaysFindTheirSnippet == LibrarySpec => []StepsResolve
<1>1. LibraryInv => StepsResolve
  BY DEF LibraryInv, StepsResolve, UsesAre
<1>2. QED
  BY <1>1, LibraryInvariance, PTL

\* A rename takes its callers along and a delete waits for them (ipc/automations.ts:63-90).
THEOREM CallsAlwaysLead == LibrarySpec => []CallsResolve
<1>1. LibraryInv => CallsResolve
  BY DEF LibraryInv, CallsResolve
<1>2. QED
  BY <1>1, LibraryInvariance, PTL

-----------------------------------------------------------------------------
(* The cards *)

Called == [to : {"run", "stop"}, of : Automations, start : Nat]
News == [kind : {"started", "step", "completed", "failed"}, of : Automations]

\* What follows the first element.
LEMMA TailOf ==
  ASSUME NEW E, NEW s \in Seq(E), s # <<>>
  PROVE  /\ Tail(s) \in Seq(E) /\ Head(s) \in E /\ Len(Tail(s)) = Len(s) - 1 /\ Len(s) \in Nat
         /\ Len(s) >= 1 /\ s[1] = Head(s)
         /\ \A i \in 1 .. Len(Tail(s)) : Tail(s)[i] = s[i + 1]
  BY HeadTailProperties, EmptySeq, LenProperties

Has(s, S) == \E i \in 1 .. Len(s) : s[i] \in S

\* A queue has what is put at its end, and keeps what its head is not.
LEMMA HasAppend ==
  ASSUME NEW E, NEW s \in Seq(E), NEW x \in E, NEW S
  PROVE  /\ Append(s, x) \in Seq(E)
         /\ Has(s, S) \/ x \in S => Has(Append(s, x), S)
<1> DEFINE t == Append(s, x)
<1>1. /\ t \in Seq(E) /\ Len(t) = Len(s) + 1 /\ Len(s) \in Nat /\ t[Len(s) + 1] = x
      /\ \A i \in 1 .. Len(s) : t[i] = s[i]
  BY AppendProperties, LenProperties
<1> HIDE DEF t
<1>2. QED
  BY <1>1 DEF Has, t

LEMMA HasTail ==
  ASSUME NEW E, NEW s \in Seq(E), s # <<>>, NEW S, Has(s, S), Head(s) \notin S
  PROVE  Has(Tail(s), S)
<1>1. PICK i \in 1 .. Len(s) : s[i] \in S
  BY DEF Has
<1>2. i # 1
  BY <1>1, TailOf
<1>3. i - 1 \in 1 .. Len(Tail(s)) /\ Tail(s)[i - 1] = s[i]
  BY <1>2, TailOf
<1>4. QED
  BY <1>1, <1>3 DEF Has

RunOf(a) == {x \in Called : x.to = "run" /\ x.of = a}
OutcomeOf(a) == {x \in News : x.kind \in {"completed", "failed"} /\ x.of = a}
Refused(a) == \E r \in answers : r.of = a /\ ~r.ok

ToCome(a) == runs[a] # "none" \/ Has(calls, RunOf(a)) \/ Has(events, OutcomeOf(a))

LEMMA ToComeIsUnderway ==
  ASSUME calls \in Seq(Called), events \in Seq(News), NEW a
  PROVE  Cards!Underway(a) <=> ToCome(a)
<1>1. /\ \A i \in 1 .. Len(calls) : calls[i] \in Called
      /\ \A i \in 1 .. Len(events) : events[i] \in News
  BY ElementOfSeq
<1>2. QED
  BY <1>1 DEF Cards!Underway, ToCome, Has, RunOf, OutcomeOf

PanelFields == {"of", "phase", "steps", "stopping"}

LEMMA PanelIs ==
  ASSUME NEW a, NEW phase
  PROVE  LET p == Cards!Panel(a, phase)
         IN p.of = a /\ p.phase = phase /\ HasFields(p, PanelFields)
  BY DEF Cards!Panel, Cards!NoPanel, HasFields, PanelFields

CardsShape ==
  /\ runs \in [Automations -> {"none", "loading", "going"}]
  /\ calls \in Seq(Called) /\ events \in Seq(News)
  /\ cards \in [Automations -> {"run", "stop", "stopping"}]
  /\ dialog \in Automations \cup {None} /\ starts \in Nat
  /\ HasFields(panel, PanelFields) /\ (panel.phase = "running" => panel.of \in Automations)

NoneStuck ==
  \A a \in Automations :
    /\ cards[a] # "run" => ToCome(a) \/ Refused(a)
    /\ panel.of = a /\ panel.phase = "running" => ToCome(a)

LEMMA NoneStuckIs ==
  ASSUME CardsShape
  PROVE  NothingLooksStuck <=> NoneStuck
  BY ToComeIsUnderway DEF CardsShape, NoneStuck, NothingLooksStuck, Cards!NothingLooksStuck, Refused

\* An automation is started: its call is on its way.
LEMMA RunNowKeeps ==
  ASSUME CardsShape, NoneStuck, NEW a \in Automations, Cards!RunNow(a), dialog' \in Automations \cup {None}
  PROVE  CardsShape' /\ NoneStuck'
<1> DEFINE x == [to |-> "run", of |-> a, start |-> starts + 1]
<1>1. x \in Called /\ x \in RunOf(a)
  BY DEF CardsShape, Called, RunOf
<1>2. calls' = Append(calls, x) /\ cards' = [cards EXCEPT ![a] = "stop"]
      /\ starts' = starts + 1 /\ UNCHANGED <<runs, events, answers>>
      /\ panel' = Cards!Panel(a, "running")
  BY DEF Cards!RunNow
<1> HIDE DEF x
<1>3. calls' \in Seq(Called) /\ Has(calls', RunOf(a))
      /\ \A b : Has(calls, RunOf(b)) => Has(calls', RunOf(b))
  BY <1>1, <1>2, HasAppend DEF CardsShape
<1>4. panel'.of = a /\ panel'.phase = "running" /\ HasFields(panel', PanelFields)
  BY <1>2, PanelIs
<1>5. CardsShape'
  BY <1>2, <1>3, <1>4 DEF CardsShape
<1>6. NoneStuck'
  BY <1>2, <1>3, <1>4 DEF CardsShape, NoneStuck, ToCome, Refused
<1>7. QED
  BY <1>5, <1>6

LEMMA StopKeeps ==
  ASSUME CardsShape, NoneStuck, NEW a \in Automations, Cards!Stop(a)
  PROVE  CardsShape' /\ NoneStuck'
<1> DEFINE x == [to |-> "stop", of |-> a, start |-> 0]
<1>1. x \in Called
  BY DEF Called
<1>2. calls' = Append(calls, x) /\ UNCHANGED <<runs, events, answers, dialog, starts>>
  BY DEF Cards!Stop
<1> HIDE DEF x
<1>3. calls' \in Seq(Called) /\ \A b : Has(calls, RunOf(b)) => Has(calls', RunOf(b))
  BY <1>1, <1>2, HasAppend DEF CardsShape
<1>4. panel'.of = panel.of /\ panel'.phase = panel.phase /\ HasFields(panel', PanelFields)
  BY DEF Cards!Stop, CardsShape, HasFields, PanelFields
<1>5. /\ cards' \in [Automations -> {"run", "stop", "stopping"}]
      /\ \A b \in Automations : cards'[b] # "run" => cards[b] # "run"
  <2>1. CASE cards[a] = "run"
    BY <2>1 DEF Cards!Stop, CardsShape
  <2>2. CASE cards[a] # "run"
    BY <2>2 DEF Cards!Stop, CardsShape
  <2>3. QED
    BY <2>1, <2>2
<1>6. CardsShape'
  BY <1>2, <1>3, <1>4, <1>5 DEF CardsShape
<1>7. NoneStuck'
  BY <1>2, <1>3, <1>4, <1>5 DEF CardsShape, NoneStuck, ToCome, Refused
<1>8. QED
  BY <1>6, <1>7

\* What the window does without a word to the main process.
LEMMA WindowKeeps ==
  ASSUME CardsShape, NoneStuck, UNCHANGED <<runs, calls, events, answers, cards, starts>>,
         dialog' \in Automations \cup {None},
         UNCHANGED panel \/ panel' = Cards!NoPanel
  PROVE  CardsShape' /\ NoneStuck'
<1>1. /\ HasFields(panel', PanelFields)
      /\ panel'.phase = "running" => panel'.phase = panel.phase /\ panel'.of = panel.of
  BY DEF Cards!NoPanel, HasFields, PanelFields, CardsShape
<1>2. QED
  BY <1>1 DEF CardsShape, NoneStuck, ToCome, Refused

LEMMA AnsweredKeeps ==
  ASSUME CardsShape, NoneStuck, NEW r \in answers, Cards!Answered(r)
  PROVE  CardsShape' /\ NoneStuck'
<1>1. /\ answers' = answers \ {r} /\ UNCHANGED <<runs, calls, events, panel, dialog, starts>>
      /\ cards' = IF r.ok THEN cards ELSE [cards EXCEPT ![r.of] = "run"]
  BY DEF Cards!Answered
<1>2. CardsShape'
  BY <1>1 DEF CardsShape
<1>3. ASSUME NEW a \in Automations, cards'[a] # "run" PROVE cards[a] # "run" /\ (Refused(a) => Refused(a)')
  BY <1>1, <1>3 DEF CardsShape, Refused
<1>4. QED
  BY <1>1, <1>2, <1>3 DEF NoneStuck, ToCome

LEMMA NewsKeeps ==
  ASSUME CardsShape, NoneStuck, Cards!Progress \/ Cards!Outcome
  PROVE  CardsShape' /\ NoneStuck'
<1>1. /\ events # <<>> /\ events' = Tail(events) /\ UNCHANGED <<runs, calls, answers, dialog, starts>>
  BY DEF Cards!Progress, Cards!Outcome, Cards!Takes
<1>2. Head(events) \in News /\ events' \in Seq(News)
  BY <1>1, TailOf DEF CardsShape
<1>3. CASE Cards!Progress
  <2>1. /\ Head(events).kind \in {"started", "step"} /\ UNCHANGED cards
        /\ panel'.of = panel.of /\ panel'.phase = panel.phase /\ HasFields(panel', PanelFields)
    BY <1>3 DEF Cards!Progress, Cards!Takes, CardsShape, HasFields, PanelFields
  <2>2. \A a : Has(events, OutcomeOf(a)) => Has(events', OutcomeOf(a))
    <3>1. \A a : Head(events) \notin OutcomeOf(a)
      BY <2>1 DEF OutcomeOf
    <3>2. QED
      BY <1>1, <3>1, HasTail DEF CardsShape
  <2>3. QED
    BY <1>1, <1>2, <2>1, <2>2 DEF CardsShape, NoneStuck, ToCome, Refused
<1>4. CASE Cards!Outcome
  <2> DEFINE b == Head(events).of
  <2>1. /\ Head(events).kind \in {"completed", "failed"}
        /\ cards' = [cards EXCEPT ![b] = "run"] /\ panel' = Cards!Panel(b, Head(events).kind)
    BY <1>4 DEF Cards!Outcome, Cards!Takes
  <2>2. panel'.phase # "running" /\ HasFields(panel', PanelFields)
    BY <2>1, PanelIs
  <2>3. \A a : a # b /\ Has(events, OutcomeOf(a)) => Has(events', OutcomeOf(a))
    <3>1. \A a : a # b => Head(events) \notin OutcomeOf(a)
      BY DEF OutcomeOf
    <3>2. QED
      BY <1>1, <3>1, HasTail DEF CardsShape
  <2>4. b \in Automations
    BY <1>2 DEF News
  <2> HIDE DEF b
  <2>5. CardsShape'
    BY <1>1, <1>2, <2>1, <2>2, <2>4 DEF CardsShape
  <2>6. NoneStuck'
    BY <1>1, <2>1, <2>2, <2>3, <2>4 DEF CardsShape, NoneStuck, ToCome, Refused
  <2>7. QED
    BY <2>5, <2>6
<1>5. QED
  BY <1>3, <1>4

LEMMA TakeKeeps ==
  ASSUME CardsShape, NoneStuck, Cards!TakeRun \/ Cards!TakeStop
  PROVE  CardsShape' /\ NoneStuck'
<1>1. calls # <<>> /\ calls' = Tail(calls) /\ UNCHANGED <<events, cards, panel, dialog, starts>>
  BY DEF Cards!TakeRun, Cards!TakeStop
<1>2. Head(calls) \in Called /\ calls' \in Seq(Called)
  BY <1>1, TailOf DEF CardsShape
<1> DEFINE b == Head(calls).of
<1>3. b \in Automations
  BY <1>2 DEF Called
<1>4. \A a : Has(calls, RunOf(a)) => Has(calls', RunOf(a)) \/ (a = b /\ Head(calls).to = "run")
  <2>1. \A a : Head(calls) \in RunOf(a) => a = b /\ Head(calls).to = "run"
    BY DEF RunOf
  <2>2. QED
    BY <1>1, <2>1, HasTail DEF CardsShape
<1> HIDE DEF b
<1>5. /\ runs' \in [Automations -> {"none", "loading", "going"}] /\ answers \subseteq answers'
      /\ \A a \in Automations : runs[a] # "none" => runs'[a] # "none"
      /\ Head(calls).to = "run" => runs'[b] # "none"
  <2>1. CASE Cards!TakeRun
    <3>1. runs' = IF runs[b] = "none" THEN [runs EXCEPT ![b] = "loading"] ELSE runs
      BY <2>1 DEF Cards!TakeRun, b
    <3>2. answers \subseteq answers'
      BY <2>1 DEF Cards!TakeRun
    <3>3. QED
      BY <1>3, <3>1, <3>2 DEF CardsShape
  <2>2. CASE Cards!TakeStop
    BY <2>2 DEF Cards!TakeStop, CardsShape
  <2>3. QED
    BY <2>1, <2>2
<1>6. CardsShape'
  BY <1>1, <1>2, <1>5 DEF CardsShape
<1>7. NoneStuck'
  BY <1>1, <1>4, <1>5 DEF NoneStuck, ToCome, Refused
<1>8. QED
  BY <1>6, <1>7

LEMMA RunKeeps ==
  ASSUME CardsShape, NoneStuck, NEW a \in Automations,
         \/ Cards!RunFailsToStart(a) \/ Cards!RunStarts(a) \/ Cards!StepEnds(a) \/ Cards!RunEnds(a)
  PROVE  CardsShape' /\ NoneStuck'
<1>1. PICK kind \in {"started", "step", "completed", "failed"} :
        /\ Cards!Emits(a, kind) /\ UNCHANGED <<calls, answers, cards, panel, dialog, starts>>
        /\ \/ runs' = [runs EXCEPT ![a] = "none"] /\ kind \in {"completed", "failed"}
           \/ runs' = [runs EXCEPT ![a] = "going"]
           \/ runs' = runs
  <2>1. CASE Cards!RunFailsToStart(a) \/ Cards!RunEnds(a)
    BY <2>1 DEF Cards!RunFailsToStart, Cards!RunEnds, Cards!Ends
  <2>2. CASE Cards!RunStarts(a) \/ Cards!StepEnds(a)
    BY <2>2 DEF Cards!RunStarts, Cards!StepEnds
  <2>3. QED
    BY <2>1, <2>2
<1> DEFINE x == [kind |-> kind, of |-> a]
<1>2. x \in News /\ (kind \in {"completed", "failed"} => x \in OutcomeOf(a))
  BY DEF News, OutcomeOf
<1>3. events' = Append(events, x)
  BY <1>1 DEF Cards!Emits
<1> HIDE DEF x
<1>4. /\ events' \in Seq(News) /\ (x \in OutcomeOf(a) => Has(events', OutcomeOf(a)))
      /\ \A b : Has(events, OutcomeOf(b)) => Has(events', OutcomeOf(b))
  BY <1>2, <1>3, HasAppend DEF CardsShape
<1>5. CardsShape'
  BY <1>1, <1>4 DEF CardsShape
<1>6. \A b \in Automations : ToCome(b) => ToCome(b)'
  BY <1>1, <1>2, <1>4 DEF CardsShape, ToCome
<1>7. NoneStuck'
  BY <1>1, <1>6 DEF NoneStuck, Refused
<1>8. QED
  BY <1>5, <1>7

\* Whatever is pressed and however calls, answers and events overtake one another: a
\* card and a panel that say an automation runs have its run, its outcome or its refusal
\* still to come, for any number of runs (stores/automations.ts:45-56,96-111).
THEOREM CardsAreNeverStuck == Cards!CardsSpec => []NothingLooksStuck
<1>1. Cards!CardsInit => CardsShape /\ NoneStuck
  <2> SUFFICES ASSUME Cards!CardsInit PROVE CardsShape /\ NoneStuck
    OBVIOUS
  <2>1. panel.phase = "none" /\ HasFields(panel, PanelFields)
    BY DEF Cards!CardsInit, Cards!NoPanel, HasFields, PanelFields
  <2>2. <<>> \in Seq(Called) /\ <<>> \in Seq(News)
    BY EmptySeq
  <2>3. QED
    BY <2>1, <2>2 DEF Cards!CardsInit, CardsShape, NoneStuck
<1>2. CardsShape /\ NoneStuck /\ [Cards!CardsNext]_(Cards!cardVars) => CardsShape' /\ NoneStuck'
  <2> SUFFICES ASSUME CardsShape, NoneStuck, [Cards!CardsNext]_(Cards!cardVars) PROVE CardsShape' /\ NoneStuck'
    OBVIOUS
  <2>1. ASSUME NEW a \in Automations, Cards!PressRun(a) \/ Cards!PressRunWithFile(a) PROVE CardsShape' /\ NoneStuck'
    <3>1. CASE Cards!RunNow(a) /\ UNCHANGED dialog
      BY <3>1, RunNowKeeps DEF CardsShape
    <3>2. CASE /\ dialog' = a
               /\ UNCHANGED <<asks, runs, canceled, calls, events, answers, cards, panel, starts, stops>>
      BY <3>2, WindowKeeps
    <3>3. QED
      BY <2>1, <3>1, <3>2 DEF Cards!PressRun, Cards!PressRunWithFile
  <2>2. ASSUME NEW a \in Automations, Cards!PressStopOnCard(a) PROVE CardsShape' /\ NoneStuck'
    BY <2>2, StopKeeps DEF Cards!PressStopOnCard
  <2>3. CASE Cards!PressStopOnPanel
    BY <2>3, StopKeeps DEF Cards!PressStopOnPanel, CardsShape
  <2>4. CASE Cards!SubmitDialog
    BY <2>4, RunNowKeeps DEF Cards!SubmitDialog, CardsShape
  <2>5. CASE Cards!CancelDialog \/ Cards!Dismiss
    BY <2>5, WindowKeeps DEF Cards!CancelDialog, Cards!Dismiss, CardsShape
  <2>6. CASE UNCHANGED Cards!cardVars
    BY <2>6, WindowKeeps DEF Cards!cardVars, CardsShape
  <2>7. QED
    BY <2>1, <2>2, <2>3, <2>4, <2>5, <2>6, NewsKeeps, TakeKeeps, RunKeeps, AnsweredKeeps
    DEF Cards!CardsNext
<1>3. CardsShape /\ NoneStuck => NothingLooksStuck
  BY NoneStuckIs
<1>4. QED
  BY <1>1, <1>2, <1>3, PTL DEF Cards!CardsSpec
=============================================================================
