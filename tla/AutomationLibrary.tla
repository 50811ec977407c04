-------------------------- MODULE AutomationLibrary --------------------------
(***************************************************************************)
(* The library a user's automations are built from: snippets.toml and      *)
(* automations.toml, the commands that change them (ipc/automations.ts),   *)
(* and the Automations screen, which lists both anew after each change.    *)
(*                                                                         *)
(* Every command loads the files it needs, one read each, decides, and     *)
(* saves; nothing holds the files meanwhile.  A step of an automation      *)
(* refers to a snippet by id or to another automation by name; what else a *)
(* step holds is left out.  One save is one write here: how the .tmp file  *)
(* under it is shared is ListFile's subject.                               *)
(***************************************************************************)
EXTENDS Integers, FiniteSets

CONSTANTS
    Calls,        \* the commands that may be under way at once
    Bases,        \* the names users type
    Ids,          \* snippet ids, each minted once at a time
    FirstLibraries,  \* what the files may hold at first
    MaxSteps,     \* bound: steps of one automation
    MaxCalls,     \* bound: commands
    MaxCrashes,   \* bound: times the app dies
    NoName        \* previousName: null

VARIABLES
    library,      \* the two files
    call,         \* per command: what it is and what it has read
    shown,        \* the lists the screen shows
    crashes, made,
    overlapped,   \* history: two commands have been under way at once
    foreign       \* history: a call step came in with an import

libraryVars == <<library, call, shown, crashes, made, overlapped, foreign>>

Files == {"snippets", "automations"}

(* A name is what was typed and the number an import put after it. *)
Typed == Bases \X {1}
Names == Bases \X (1 .. MaxCalls + 1)

(* A call step is the automation it runs and whether it gives a value for  *)
(* the one parameter an automation may ask for.                            *)
AutomationsOf(ids, names) ==
    {a \in [uses : SUBSET ids, calls : SUBSET (names \X BOOLEAN), asks : BOOLEAN] :
        Cardinality(a.uses) + Cardinality(a.calls) <= MaxSteps}

Drafts == AutomationsOf(Ids, Typed)

(* The files are the app's own, and "save_automation always validates this *)
(* first" (bundle.ts:51-54): a saved step names a snippet that is there.   *)
(* A call may lead nowhere once an import brought it.                      *)
ASSUME LibraryAssumptions ==
    /\ MaxCalls \in Nat /\ Ids # {}
    /\ \A f \in FirstLibraries :
        /\ f = [snippets |-> f.snippets, automations |-> f.automations]
        /\ f.automations \in [DOMAIN f.automations -> AutomationsOf(f.snippets, Names)]
        /\ f.snippets \subseteq Ids /\ DOMAIN f.automations \subseteq Names

CallsLead(automations) ==
    \A n \in DOMAIN automations : \A s \in automations[n].calls : s[1] \in DOMAIN automations

-----------------------------------------------------------------------------
(* The names an automation runs, through any number of others. *)
Reached(byName, from) ==
    LET reach[k \in 0 .. Cardinality(Names)] ==
            IF k = 0 THEN {from}
            ELSE reach[k - 1] \cup {s[1] : s \in UNION {byName[n].calls : n \in reach[k - 1] \cap DOMAIN byName}}
    IN reach[Cardinality(Names)]

CallProblem(byName, name, step) ==
    \/ step[1] \notin DOMAIN byName
    \/ step[2] # byName[step[1]].asks
    \/ name \in Reached(byName, step[1])

(* What only concerns the automation itself -- its labels, parameters and  *)
(* edges -- is in `sound`.                                                 *)
Valid(name, a, sound, snippets, byName) ==
    /\ sound
    /\ a.uses \subseteq snippets
    /\ \A step \in a.calls : ~CallProblem(byName, name, step)

Without(f, n) == [m \in DOMAIN f \ {n} |-> f[m]]

Put(f, n, x) == [m \in DOMAIN f \cup {n} |-> IF m = n THEN x ELSE f[m]]

Repointed(a, old, new) ==
    [a EXCEPT !.calls = {IF s[1] = old THEN <<new, s[2]>> ELSE s : s \in a.calls}]

(* Mutant: a rename leaves the steps that ran the old name. *)
UpsertAlone(automations, name, a, previous) == Put(Without(automations, previous), name, a)

Upsert(automations, name, a, previous) ==
    IF previous \in {NoName, name} THEN Put(automations, name, a)
    ELSE LET after == Put(Without(automations, previous), name, a)
         IN [n \in DOMAIN after |-> Repointed(after[n], previous, name)]

Referenced(automations, id) == \E n \in DOMAIN automations : id \in automations[n].uses

CalledByOthers(automations, name) ==
    \E n \in DOMAIN automations \ {name} : \E s \in automations[n].calls : s[1] = name

UniqueName(n, taken) ==
    IF n \notin taken THEN n
    ELSE LET free == {k \in 2 .. MaxCalls + 1 : <<n[1], k>> \notin taken}
         IN <<n[1], CHOOSE k \in free : \A j \in free : k <= j>>

-----------------------------------------------------------------------------
(* A file another machine exported: some automations and at least the      *)
(* snippets they use -- exactly those, and one automation, unless it is a  *)
(* whole library -- or one snippet.                                        *)
TheirId == CHOOSE i \in Ids : TRUE

Theirs ==
    {a \in AutomationsOf({TheirId}, Typed) : ~a.asks /\ \A s \in a.calls : ~s[2]}

BundleOf(f) == [snippets |-> UNION {f[n].uses : n \in DOMAIN f}, automations |-> f]

Bundles ==
    LET ofOne == UNION {[{n} -> Theirs] : n \in Typed}
        whole == {f \in [Typed -> Theirs] : \A n \in Typed : \A s \in f[n].calls : n \notin Reached(f, s[1])}
    IN {[snippets |-> {TheirId}, automations |-> <<>>]} \cup {BundleOf(f) : f \in ofOne \cup whole}

(* Each bundled snippet comes in under a fresh id, the steps with it; a    *)
(* call step keeps the name it calls.                                      *)
Merged(bundle, fresh, automations) ==
    LET names == DOMAIN bundle.automations
        named == [n \in names |-> UniqueName(n, DOMAIN automations)]
        moved(a) == [a EXCEPT !.uses = {fresh[i] : i \in a.uses}]
        brought == {named[n] : n \in names}
    IN [m \in brought \cup DOMAIN automations |->
            IF m \in brought THEN moved(bundle.automations[CHOOSE n \in names : named[n] = m])
            ELSE automations[m]]

-----------------------------------------------------------------------------
Idle == [at |-> "idle", req |-> [op |-> "none"], got |-> <<>>]

LibraryInit ==
    /\ library \in FirstLibraries
    /\ call = [c \in Calls |-> Idle]
    /\ shown = library
    /\ crashes = 0 /\ made = 0
    /\ overlapped = FALSE /\ foreign = ~CallsLead(library.automations)

(* What a command reads, and what the screen lists again once it is done. *)
Reads(req) ==
    CASE req.op = "saveSnippet" -> {"snippets"}
      [] req.op = "deleteAutomation" -> {"automations"}
      [] OTHER -> Files

Lists(req) ==
    CASE req.op \in {"saveSnippet", "deleteSnippet"} -> {"snippets"}
      [] req.op \in {"saveAutomation", "deleteAutomation"} -> {"automations"}
      [] OTHER -> Files

Asks(c, req) ==
    /\ call[c] = Idle /\ made < MaxCalls
    /\ call' = [call EXCEPT ![c] = [at |-> "loading", req |-> req, got |-> <<>>]]
    /\ made' = made + 1
    /\ overlapped' = (overlapped \/ \E d \in Calls : call[d] # Idle)
    /\ UNCHANGED <<library, shown, crashes, foreign>>

(* An id that has never been anyone's: crypto.randomUUID(). *)
Minted(i) ==
    /\ i \notin library.snippets \cup shown.snippets
    /\ ~Referenced(library.automations, i)
    /\ \A c \in Calls : call[c].req.op = "saveSnippet" => call[c].req.id # i

AskToSaveSnippet(c) ==
    \E i \in Ids : (i \in shown.snippets \/ Minted(i)) /\ Asks(c, [op |-> "saveSnippet", id |-> i])

AskToDeleteSnippet(c) == \E i \in shown.snippets : Asks(c, [op |-> "deleteSnippet", id |-> i])

(* From the editor: a new automation, or one opened under its name.  The   *)
(* draft may hold steps that are gone by now.                              *)
AskToSaveAutomation(c) ==
    \E n \in Typed, a \in Drafts, p \in {NoName} \cup DOMAIN shown.automations :
        Asks(c, [op |-> "saveAutomation", name |-> n, draft |-> a, previous |-> p])

AskToDeleteAutomation(c) ==
    \E n \in DOMAIN shown.automations : Asks(c, [op |-> "deleteAutomation", name |-> n])

AskToImport(c) == \E b \in Bundles : Asks(c, [op |-> "import", bundle |-> b])

Load(c, file) ==
    /\ call[c].at = "loading" /\ file \in Reads(call[c].req) \ DOMAIN call[c].got
    /\ call' = [call EXCEPT ![c].got = Put(@, file, library[file])]
    /\ UNCHANGED <<library, shown, crashes, made, overlapped, foreign>>

LoadSnippets(c) == Load(c, "snippets")
LoadAutomations(c) == Load(c, "automations")

SavesSnippets(snippets) == library' = [library EXCEPT !.snippets = snippets]
SavesAutomations(automations) == library' = [library EXCEPT !.automations = automations]

Decides(c, op) ==
    /\ call[c].at = "loading" /\ call[c].req.op = op
    /\ DOMAIN call[c].got = Reads(call[c].req)
    /\ UNCHANGED <<shown, crashes, made, overlapped>>

Done(c) == call' = [call EXCEPT ![c].at = "done", ![c].got = <<>>]
Refuse(c) == call' = [call EXCEPT ![c] = Idle] /\ UNCHANGED <<library, foreign>>

SaveSnippet(c) ==
    /\ Decides(c, "saveSnippet") /\ Done(c)
    /\ SavesSnippets(call[c].got["snippets"] \cup {call[c].req.id})
    /\ UNCHANGED foreign

(* Mutant: a snippet goes whoever uses it. *)
DeleteUsedSnippet(c) ==
    /\ Decides(c, "deleteSnippet") /\ Done(c)
    /\ SavesSnippets(call[c].got["snippets"] \ {call[c].req.id})
    /\ UNCHANGED foreign

DeleteSnippet(c) ==
    LET id == call[c].req.id
        got == call[c].got
    IN /\ Decides(c, "deleteSnippet")
       /\ IF Referenced(got["automations"], id) THEN Refuse(c)
          ELSE /\ Done(c)
               /\ SavesSnippets(got["snippets"] \ {id})
               /\ UNCHANGED foreign

SaveAutomation(c) ==
    LET req == call[c].req
        automations == call[c].got["automations"]
        others == IF req.previous \in {NoName, req.name} THEN automations ELSE Without(automations, req.previous)
        byName == Put(others, req.name, req.draft)
        taken == req.name # req.previous /\ req.name \in DOMAIN automations
    IN \E sound \in BOOLEAN :
       /\ Decides(c, "saveAutomation")
       /\ IF taken \/ ~Valid(req.name, req.draft, sound, call[c].got["snippets"], byName) THEN Refuse(c)
          ELSE /\ Done(c)
               /\ SavesAutomations(Upsert(automations, req.name, req.draft, req.previous))
               /\ UNCHANGED foreign

DeleteAutomation(c) ==
    LET name == call[c].req.name
        automations == call[c].got["automations"]
    IN /\ Decides(c, "deleteAutomation")
       /\ IF CalledByOthers(automations, name) THEN Refuse(c)
          ELSE /\ Done(c)
               /\ SavesAutomations(Without(automations, name))
               /\ UNCHANGED foreign

(* The snippets are saved first, then the automations; a snippet's own     *)
(* bundle has none.                                                        *)
ImportSnippets(c) ==
    LET bundle == call[c].req.bundle
        got == call[c].got
    IN /\ Decides(c, "import")
       /\ \E fresh \in [bundle.snippets -> Ids] :
             LET merged == Merged(bundle, fresh, got["automations"])
             IN /\ \A i, j \in bundle.snippets : i # j => fresh[i] # fresh[j]
                /\ \A i \in bundle.snippets : Minted(fresh[i])
                /\ SavesSnippets(got["snippets"] \cup {fresh[i] : i \in bundle.snippets})
                /\ IF bundle.automations = <<>> THEN Done(c)
                   ELSE call' = [call EXCEPT ![c].at = "saving", ![c].got = [f \in {"automations"} |-> merged]]
                /\ foreign' = (foreign \/ \E n \in DOMAIN bundle.automations : bundle.automations[n].calls # {})

ImportAutomations(c) ==
    /\ call[c].at = "saving" /\ Done(c)
    /\ SavesAutomations(call[c].got["automations"])
    /\ UNCHANGED <<shown, crashes, made, overlapped, foreign>>

(* The screen lists the files again. *)
Relist(c) ==
    /\ call[c].at = "done"
    /\ shown' = [f \in Files |-> IF f \in Lists(call[c].req) THEN library[f] ELSE shown[f]]
    /\ call' = [call EXCEPT ![c] = Idle]
    /\ UNCHANGED <<library, crashes, made, overlapped, foreign>>

(* A save fails -- a full disk, a file another program holds -- before     *)
(* anything is replaced; what an import saved before stays.                *)
SaveFails(c) ==
    /\ call[c].at = "saving"
    /\ call' = [call EXCEPT ![c] = Idle]
    /\ UNCHANGED <<library, shown, crashes, made, overlapped, foreign>>

(* The app dies; its next start lists what is on disk. *)
Crash ==
    /\ crashes < MaxCrashes
    /\ crashes' = crashes + 1
    /\ call' = [c \in Calls |-> Idle] /\ shown' = library
    /\ UNCHANGED <<library, made, overlapped, foreign>>

LibraryNext ==
    \/ \E c \in Calls :
          \/ AskToSaveSnippet(c) \/ AskToDeleteSnippet(c) \/ AskToSaveAutomation(c)
          \/ AskToDeleteAutomation(c) \/ AskToImport(c)
          \/ LoadSnippets(c) \/ LoadAutomations(c)
          \/ SaveSnippet(c) \/ DeleteSnippet(c) \/ SaveAutomation(c) \/ DeleteAutomation(c)
          \/ ImportSnippets(c) \/ ImportAutomations(c) \/ Relist(c) \/ SaveFails(c)
    \/ Crash

LibrarySpec == LibraryInit /\ [][LibraryNext]_libraryVars

-----------------------------------------------------------------------------
LibraryTypeOK ==
    /\ library.snippets \subseteq Ids /\ DOMAIN library.automations \subseteq Names
    /\ \A n \in DOMAIN library.automations : library.automations[n] \in AutomationsOf(Ids, Names)
    /\ \A c \in Calls : call[c].at \in {"idle", "loading", "saving", "done"}
    /\ crashes \in 0..MaxCrashes /\ made \in 0..MaxCalls

(* "save_automation always validates this first so an automation reached   *)
(* through normal use can't be in that state" (bundle.ts:51-54): whatever  *)
(* is saved, deleted, renamed or imported, and wherever an import stops,   *)
(* every snippet a saved step names is there -- as long as one command is  *)
(* through before the next.                                                *)
StepsResolve ==
    ~overlapped => \A n \in DOMAIN library.automations : library.automations[n].uses \subseteq library.snippets

(* The automation a saved step runs exists: a rename takes its callers     *)
(* along, a delete waits for them (upsertAutomation, removeAutomation).    *)
(* An import brings its calls as they are.                                 *)
CallsResolve == ~overlapped /\ ~foreign => CallsLead(library.automations)

(* "CRUD orchestration refreshes both stores from disk after every         *)
(* mutation so they never drift" (Automations.svelte:4-6).                 *)
ScreenFollowsTheFiles ==
    ~overlapped /\ (\A c \in Calls : call[c] = Idle) => shown = library

(* An automation is "checked against the others as they'll be once this    *)
(* one is saved" (ipc/automations.ts:144): none runs itself, through any   *)
(* number of others.                                                       *)
NoneRunsItself ==
    ~overlapped /\ ~foreign =>
        \A n \in DOMAIN library.automations : \A s \in library.automations[n].calls :
            n \notin Reached(library.automations, s[1])

(* The same, whatever comes between a command's reads and its save. *)
StepsAlwaysResolve ==
    \A n \in DOMAIN library.automations : library.automations[n].uses \subseteq library.snippets
=============================================================================
