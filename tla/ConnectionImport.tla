-------------------------- MODULE ConnectionImport --------------------------
(* Importing SSH hosts or remote desktop profiles from a file. The preview   *)
(* reads the file and keeps it in the main process under a token; the dialog *)
(* asks what to do with each name that is taken; applying reads the saved    *)
(* lists again, checks both merges and writes the two lists one by one. The  *)
(* lists may be saved by others meanwhile.                                   *)
EXTENDS Naturals

CONSTANTS
    FileHosts,      \* the hosts an import file carries
    Jump,           \* the one each of them connects through, or NoLink
    Via,            \* the one the file's profile tunnels through
    Profile,        \* that profile's name
    Config,         \* the names ~/.ssh/config defines
    NewNames,       \* what a rename may choose
    NoLink, Nobody,
    Applies,        \* the calls of apply_connection_import
    MaxPreviews, MaxOthers, MaxFailures

ASSUME JumpIsOfTheFile == Jump \in [FileHosts -> FileHosts \cup {NoLink}] /\ Via \in FileHosts

VARIABLES
    hostList,   \* hosts.toml
    rdpList,    \* remote-desktop.toml
    preview,    \* the previews under way or answered
    pending,    \* the token the main process holds a file for
    question,   \* the dialog
    apply,
    others, failures,
    mixed       \* history: another save, or another apply, has come into an apply

importVars == <<hostList, rdpList, preview, pending, question, apply, others, failures, mixed>>

Host(n, to, secret, by) == [name |-> n, to |-> to, secret |-> secret, by |-> by]
NoApply == [at |-> "idle", token |-> 0, kind |-> "none", choice |-> <<>>,
            manual |-> {}, all |-> {}, read |-> {}, final |-> <<>>, wrote |-> FALSE]
NoQuestion == [token |-> 0, kind |-> "none", taken |-> {}, busy |-> FALSE]

ImportInit ==
    /\ hostList \in SUBSET {Host(n, NoLink, TRUE, Nobody) : n \in FileHosts}
    /\ rdpList \in SUBSET {Host(Profile, NoLink, TRUE, Nobody)}
    /\ preview = [p \in 1..MaxPreviews |-> [at |-> "none", kind |-> "none", taken |-> {}]]
    /\ pending = 0 /\ question = NoQuestion
    /\ apply = [a \in Applies |-> NoApply]
    /\ others = 0 /\ failures = 0 /\ mixed = FALSE

NamesIn(list) == {h.name : h \in list}

----------------------------------------------------------------------------
(* The user picks a file for a preview, or cancels.                         *)
StartImport(p, kind) ==
    /\ question = NoQuestion /\ preview[p].at = "none"
    /\ \A q \in 1..MaxPreviews : q < p => preview[q].at # "none"
    /\ preview' = [preview EXCEPT ![p].at = "picking", ![p].kind = kind]
    /\ UNCHANGED <<hostList, rdpList, pending, question, apply, others, failures, mixed>>

PickNothing(p) ==
    /\ preview[p].at = "picking"
    /\ preview' = [preview EXCEPT ![p].at = "gone"]
    /\ UNCHANGED <<hostList, rdpList, pending, question, apply, others, failures, mixed>>

(* The file is kept under a new token, in place of any before it. *)
Previewed(p) ==
    /\ preview[p].at = "picking"
    /\ LET hosts == FileHosts \cap (NamesIn(hostList) \cup Config)
           profiles == {Profile} \cap NamesIn(rdpList)
       IN preview' = [preview EXCEPT ![p].at = "answer",
                        ![p].taken =
                            hosts \cup IF preview[p].kind = "rdp" THEN profiles ELSE {}]
    /\ pending' = p
    /\ UNCHANGED <<hostList, rdpList, question, apply, others, failures, mixed>>

ShowQuestion(p) ==
    /\ preview[p].at = "answer"
    /\ preview' = [preview EXCEPT ![p].at = "gone"]
    /\ question' = [token |-> p, kind |-> preview[p].kind, taken |-> preview[p].taken, busy |-> FALSE]
    /\ UNCHANGED <<hostList, rdpList, pending, apply, others, failures, mixed>>

(* Closing forgets the file, also while an apply is on its way. *)
CancelImport ==
    /\ question # NoQuestion
    /\ question' = NoQuestion
    /\ pending' = IF pending = question.token THEN 0 ELSE pending
    /\ UNCHANGED <<hostList, rdpList, preview, apply, others, failures, mixed>>

(* A choice for each taken name, to overwrite or to rename; two hosts may    *)
(* not end up under one name.                                                *)
Choices(taken) == [taken -> {"overwrite"} \cup NewNames]
Chosen(choice, n) == IF n \in DOMAIN choice /\ choice[n] # "overwrite" THEN choice[n] ELSE n
NoProblem(choice) ==
    \A m, n \in FileHosts : m # n => Chosen(choice, m) # Chosen(choice, n)

SubmitImport(a) ==
    /\ question # NoQuestion /\ ~question.busy
    /\ apply[a] = NoApply
    /\ \A b \in Applies : b < a => apply[b] # NoApply
    /\ \E choice \in Choices(question.taken) :
          /\ NoProblem(choice)
          /\ apply' = [apply EXCEPT ![a] = [NoApply EXCEPT !.at = "asked", !.token = question.token,
                                               !.kind = question.kind, !.choice = choice]]
    /\ question' = [question EXCEPT !.busy = TRUE]
    /\ UNCHANGED <<hostList, rdpList, preview, pending, others, failures, mixed>>

----------------------------------------------------------------------------
(* The dialog stays open on a refusal, if it is still that apply's.          *)
Refuses(a, at) ==
    /\ apply' = [apply EXCEPT ![a] = [NoApply EXCEPT !.at = at, !.wrote = apply[a].wrote]]
    /\ question' = IF question.token = apply[a].token THEN [question EXCEPT !.busy = FALSE]
                                                     ELSE question

Underway(a) == apply[a].at \notin {"idle", "asked", "refused", "failed", "done"}

TakesFile(a) ==
    /\ apply[a].at = "asked"
    /\ IF pending = apply[a].token
       THEN apply' = [apply EXCEPT ![a].at = "hosts"] /\ UNCHANGED question
       ELSE Refuses(a, "refused")
    /\ mixed' = (mixed \/ \E b \in Applies \ {a} : Underway(b))
    /\ UNCHANGED <<hostList, rdpList, preview, pending, others, failures>>

(* hosts.toml is read twice, side by side: alone, and merged with            *)
(* ~/.ssh/config.                                                            *)
ReadsHosts(a) ==
    /\ apply[a].at = "hosts"
    /\ \/ /\ "manual" \notin apply[a].read
          /\ apply' = [apply EXCEPT ![a].manual = hostList, ![a].read = @ \cup {"manual"}]
       \/ /\ "all" \notin apply[a].read
          /\ apply' = [apply EXCEPT ![a].all = NamesIn(hostList) \cup Config, ![a].read = @ \cup {"all"}]
    /\ UNCHANGED <<hostList, rdpList, preview, pending, question, others, failures, mixed>>

(* Each entry whose name is taken needs a decision, and a rename must pick a *)
(* name nothing here or in the file has.                                     *)
Resolves(entries, taken, choice) ==
    LET settled(n) == n \notin taken \/ n \in DOMAIN choice
        renamed(n) == n \in taken /\ n \in DOMAIN choice /\ choice[n] # "overwrite"
        kept == {n \in entries : ~renamed(n)}
    IN /\ \A n \in entries : settled(n)
       /\ \A n \in entries : renamed(n) =>
             choice[n] \notin taken \cup kept
             /\ \A m \in entries \ {n} : renamed(m) => choice[m] # choice[n]

FinalName(n, taken, choice) == IF n \in taken THEN Chosen(choice, n) ELSE n

(* Mutant: a ProxyJump is taken as the file has it. *)
MergedHostsLiteral(a) ==
    LET k == apply[a]
        final == [n \in FileHosts |-> FinalName(n, k.all, k.choice)]
        overwritten == {n \in FileHosts : n \in k.all /\ final[n] = n}
        old(n) == {h \in k.manual : h.name = n}
        new(n) == Host(final[n], Jump[n], n \in overwritten /\ \E h \in old(n) : h.secret, a)
    IN [final |-> final,
        list |-> (k.manual \ UNION {old(n) : n \in overwritten}) \cup {new(n) : n \in FileHosts}]

(* Overwriting keeps the secrets of the entry here; links follow renames.    *)
MergedHosts(a) ==
    LET k == apply[a]
        final == [n \in FileHosts |-> FinalName(n, k.all, k.choice)]
        overwritten == {n \in FileHosts : n \in k.all /\ final[n] = n}
        old(n) == {h \in k.manual : h.name = n}
        to(n) == IF Jump[n] = NoLink THEN NoLink ELSE final[Jump[n]]
        new(n) == Host(final[n], to(n), n \in overwritten /\ \E h \in old(n) : h.secret, a)
    IN [final |-> final,
        list |-> (k.manual \ UNION {old(n) : n \in overwritten}) \cup {new(n) : n \in FileHosts}]

(* Mutant: the hosts are saved before the profiles have been checked. *)
MergesHostsAndSaves(a) ==
    /\ apply[a].at = "hosts" /\ apply[a].read = {"manual", "all"}
    /\ IF Resolves(FileHosts, apply[a].all, apply[a].choice)
       THEN /\ LET merged == MergedHosts(a)
               IN /\ apply' = [apply EXCEPT ![a].at = IF apply[a].kind = "rdp" THEN "profiles" ELSE "saveHosts",
                                         ![a].manual = merged.list, ![a].final = merged.final, ![a].wrote = TRUE]
                  /\ hostList' = merged.list
            /\ UNCHANGED question
       ELSE Refuses(a, "refused") /\ UNCHANGED hostList
    /\ UNCHANGED <<rdpList, preview, pending, others, failures, mixed>>

MergesHosts(a) ==
    /\ apply[a].at = "hosts" /\ apply[a].read = {"manual", "all"}
    /\ IF Resolves(FileHosts, apply[a].all, apply[a].choice)
       THEN /\ LET merged == MergedHosts(a)
               IN apply' = [apply EXCEPT ![a].at = IF apply[a].kind = "rdp" THEN "profiles" ELSE "saveHosts",
                                         ![a].manual = merged.list, ![a].final = merged.final]
            /\ UNCHANGED question
       ELSE Refuses(a, "refused")
    /\ UNCHANGED <<hostList, rdpList, preview, pending, others, failures, mixed>>

(* The profiles are read and merged; a profile follows its tunnel host.      *)
MergesProfiles(a) ==
    /\ apply[a].at = "profiles"
    /\ IF Resolves({Profile}, NamesIn(rdpList), apply[a].choice)
       THEN LET name == FinalName(Profile, NamesIn(rdpList), apply[a].choice)
                old == {c \in rdpList : c.name = name}
                new == Host(name, apply[a].final[Via], \E c \in old : c.secret, a)
            IN /\ apply' = [apply EXCEPT ![a].at = "saveHosts", ![a].all = (rdpList \ old) \cup {new}]
               /\ UNCHANGED question
       ELSE Refuses(a, "refused")
    /\ UNCHANGED <<hostList, rdpList, preview, pending, others, failures, mixed>>

SavesHosts(a) ==
    /\ apply[a].at = "saveHosts"
    /\ hostList' = apply[a].manual
    /\ apply' = [apply EXCEPT ![a].at = IF apply[a].kind = "rdp" THEN "saveProfiles" ELSE "reload",
                              ![a].wrote = TRUE]
    /\ UNCHANGED <<rdpList, preview, pending, question, others, failures, mixed>>

SavesProfiles(a) ==
    /\ apply[a].at = "saveProfiles"
    /\ rdpList' = apply[a].all
    /\ apply' = [apply EXCEPT ![a].at = "reload"]
    /\ UNCHANGED <<hostList, preview, pending, question, others, failures, mixed>>

CannotSave(a) ==
    /\ apply[a].at \in {"saveHosts", "saveProfiles"} /\ failures < MaxFailures
    /\ failures' = failures + 1
    /\ Refuses(a, "failed")
    /\ UNCHANGED <<hostList, rdpList, preview, pending, others, mixed>>

(* The file is forgotten and the lists are reloaded.                         *)
Applied(a) ==
    /\ apply[a].at = "reload"
    /\ pending' = IF pending = apply[a].token THEN 0 ELSE pending
    /\ apply' = [apply EXCEPT ![a] = [NoApply EXCEPT !.at = "answer", !.wrote = TRUE]]
    /\ UNCHANGED <<hostList, rdpList, preview, question, others, failures, mixed>>

(* The screen closes the dialog that is open by now.                         *)
ImportDone(a) ==
    /\ apply[a].at = "answer"
    /\ apply' = [apply EXCEPT ![a].at = "done"]
    /\ question' = NoQuestion
    /\ UNCHANGED <<hostList, rdpList, preview, pending, others, failures, mixed>>

(* Another handler, asked before the dialog was opened, saves one of the     *)
(* lists: an entry is added or deleted.                                      *)
OtherSaves ==
    /\ others < MaxOthers
    /\ others' = others + 1
    /\ \/ /\ \/ \E n \in FileHosts \ NamesIn(hostList) :
                    hostList' = hostList \cup {Host(n, NoLink, TRUE, Nobody)}
             \/ \E h \in hostList : hostList' = hostList \ {h}
          /\ UNCHANGED rdpList
       \/ /\ rdpList' = IF rdpList = {} THEN {Host(Profile, NoLink, TRUE, Nobody)} ELSE {}
          /\ UNCHANGED hostList
    /\ mixed' = (mixed \/ \E a \in Applies : Underway(a))
    /\ UNCHANGED <<preview, pending, question, apply, failures>>

ImportNext ==
    \/ CancelImport \/ OtherSaves
    \/ \E p \in 1..MaxPreviews :
          \/ \E kind \in {"ssh", "rdp"} : StartImport(p, kind)
          \/ PickNothing(p) \/ Previewed(p) \/ ShowQuestion(p)
    \/ \E a \in Applies :
          \/ SubmitImport(a) \/ TakesFile(a) \/ ReadsHosts(a) \/ MergesHosts(a) \/ MergesProfiles(a)
          \/ SavesHosts(a) \/ SavesProfiles(a) \/ CannotSave(a) \/ Applied(a) \/ ImportDone(a)

ImportTypeOK ==
    /\ pending \in 0..MaxPreviews /\ question.token \in 0..MaxPreviews
    /\ \A a \in Applies : apply[a].at \in {"idle", "asked", "hosts", "profiles", "saveHosts",
                                           "saveProfiles", "reload", "answer", "refused", "failed", "done"}

(* "both merges are checked before anything is written, so a bad decision    *)
(* changes nothing", whatever was saved or previewed since it was asked for. *)
RefusedImportChangesNothing ==
    \A a \in Applies : apply[a].at = "refused" => ~apply[a].wrote

(* "a profile's tunnel host and a host's ProxyJump follow whatever the hosts *)
(* were renamed to": once they are saved, what an import wrote leads to the  *)
(* host that came with it.                                                   *)
ImportedLinksLead ==
    [][~mixed' => \A a \in Applies, e \in (hostList' \ hostList) \cup (rdpList' \ rdpList) :
         e.by = a /\ e.to # NoLink => \E h \in hostList' : h.name = e.to /\ h.by = a]_importVars

(* Overwriting keeps what only this machine knows: the stored password.      *)
OverwritingKeepsSecrets ==
    [][~mixed' =>
         /\ \A old \in hostList, new \in hostList' :
               old.name = new.name /\ old.secret => new.secret
         /\ \A old \in rdpList, new \in rdpList' : old.name = new.name /\ old.secret => new.secret]_importVars

(* No two hosts of hosts.toml share a name, "so an import never silently     *)
(* takes a name something already has".                                      *)
NamesStayApart == \A g, h \in hostList : g.name = h.name => g = h

(* "Kept until it succeeds: after a refused decision the dialog stays open   *)
(* to fix it": as long as the dialog is there, the file is.                  *)
OpenDialogHasItsFile ==
    question # NoQuestion => pending = question.token
=============================================================================
