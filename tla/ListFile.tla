------------------------------ MODULE ListFile ------------------------------
(* How a list is kept in a file of the configuration directory. The four    *)
(* files (hosts, remote desktops, snippets, automations) are read whole and  *)
(* written whole by the same lines: into `<file>.tmp`, which is then renamed *)
(* over the file. Every writer uses that one name, so what a writer holds    *)
(* open, what lies under the name and what the file is are kept apart here.  *)
EXTENDS Naturals

CONSTANTS
    Files,      \* the files
    Calls,      \* the calls that may write one, each at most once per file
    None,
    Garbled,    \* content that does not parse
    FirstLists  \* what each file holds to begin with

ASSUME CallsAreNumbers == Calls \subseteq Nat \ {0}
ASSUME NoneIsNoCall == None \notin Calls \cup {0}

VARIABLES
    inode,      \* the content written under each number; 0 is the first file's
    disk,       \* what the file's name leads to
    tmp,        \* what the .tmp name leads to
    held        \* what each call has open for writing

fileState == <<inode, disk, tmp, held>>

FilesInit ==
    /\ inode = [f \in Files |-> [i \in Calls \cup {0} |-> IF i = 0 THEN FirstLists[f] ELSE {}]]
    /\ disk = [f \in Files |-> 0]
    /\ tmp = [f \in Files |-> None]
    /\ held = [f \in Files |-> [c \in Calls |-> None]]

(* What a reader gets: a file that holds nothing yet is an empty list.      *)
OnDisk(f) == inode[f][disk[f]]
Readable(f) == OnDisk(f) # Garbled

(* Mutant: the file itself is written, not a copy beside it. *)
OpensInPlace(f, c) ==
    /\ inode' = [inode EXCEPT ![f][disk[f]] = {}]
    /\ held' = [held EXCEPT ![f][c] = disk[f]]
    /\ UNCHANGED disk
    /\ tmp' = [tmp EXCEPT ![f] = disk[f]]

(* writeFile opens the .tmp, truncating what another writer may have left   *)
(* there or still be writing.                                               *)
Opens(f, c) ==
    LET i == IF tmp[f] = None THEN c ELSE tmp[f] IN
    /\ tmp' = [tmp EXCEPT ![f] = i]
    /\ inode' = [inode EXCEPT ![f][i] = {}]
    /\ held' = [held EXCEPT ![f][c] = i]
    /\ UNCHANGED disk

(* The content goes to what was opened, wherever that has been renamed to;  *)
(* over another writer's content, a longer tail of it may remain.           *)
Writes(f, c, list) ==
    LET i == held[f][c] IN
    /\ \E content \in {list} \cup IF inode[f][i] \in {{}, list} THEN {} ELSE {Garbled} :
          inode' = [inode EXCEPT ![f][i] = content]
    /\ held' = [held EXCEPT ![f][c] = None]
    /\ UNCHANGED <<disk, tmp>>

Renames(f) ==
    /\ tmp[f] # None
    /\ disk' = [disk EXCEPT ![f] = tmp[f]]
    /\ tmp' = [tmp EXCEPT ![f] = None]
    /\ UNCHANGED <<inode, held>>

(* The name is gone (another writer renamed it) or the rename is refused:   *)
(* whatever lies under the .tmp is removed.                                 *)
RenameFails(f) ==
    /\ tmp' = [tmp EXCEPT ![f] = None]
    /\ UNCHANGED <<inode, disk, held>>

(* The process ends: files stay as they are, a .tmp included.               *)
FilesCrash ==
    /\ held' = [f \in Files |-> [c \in Calls |-> None]]
    /\ UNCHANGED <<inode, disk, tmp>>

FilesTypeOK ==
    /\ disk \in [Files -> Calls \cup {0}]
    /\ tmp \in [Files -> Calls \cup {0, None}]
    /\ held \in [Files -> [Calls -> Calls \cup {0, None}]]
=============================================================================
