-------------------------- MODULE SavedFilesProofs --------------------------
(***************************************************************************)
(* Proofs about what the app keeps in its configuration directory, for any *)
(* number of calls, crashes, refused writes, imports and moves and any set *)
(* of names, cards and folders: a save of hosts is all or nothing, what an *)
(* import writes leads to hosts it brought, and no folder is lost.         *)
(***************************************************************************)
EXTENDS MCSavedFiles, SequenceTheorems, TLAPS

\* A record with these fields and no others, whatever they hold.
HasFields(r, fields) == r = [f \in fields |-> r[f]]

partsVars == <<part, hostVars, importVars, profileVars, folderVars>>

-----------------------------------------------------------------------------
(* The files *)

FilesShape ==
  /\ FilesTypeOK
  /\ inode = [f \in Files |-> [i \in Calls \cup {0} |-> inode[f][i]]]

\* What a step of another file leaves as it is.
HostsFileKept ==
  /\ disk'["hosts"] = disk["hosts"] /\ tmp'["hosts"] = tmp["hosts"]
  /\ held'["hosts"] = held["hosts"] /\ inode'["hosts"] = inode["hosts"]

\* What each operation on the .tmp does to a file, and to the others.
LEMMA OpensOne ==
  ASSUME FilesShape, NEW f \in Files, NEW c \in Calls, Opens(f, c)
  PROVE  /\ FilesShape'
         /\ f # "hosts" => HostsFileKept
         /\ f = "hosts" =>
              /\ disk'[f] = disk[f] /\ tmp'[f] = (IF tmp[f] = None THEN c ELSE tmp[f])
              /\ held'[f] = [held[f] EXCEPT ![c] = tmp'[f]]
              /\ inode'[f] = [inode[f] EXCEPT ![tmp'[f]] = {}]
<1> DEFINE i == IF tmp[f] = None THEN c ELSE tmp[f]
<1>1. /\ tmp' = [tmp EXCEPT ![f] = i] /\ inode' = [inode EXCEPT ![f][i] = {}]
      /\ held' = [held EXCEPT ![f][c] = i] /\ UNCHANGED disk
  BY DEF Opens
<1>2. i \in Calls \cup {0}
  BY DEF FilesShape, FilesTypeOK
<1> HIDE DEF i
<1>3. /\ inode' = [g \in Files |-> IF g = f THEN [inode[f] EXCEPT ![i] = {}] ELSE inode[g]]
      /\ held' = [g \in Files |-> IF g = f THEN [held[f] EXCEPT ![c] = i] ELSE held[g]]
      /\ tmp' = [g \in Files |-> IF g = f THEN i ELSE tmp[g]]
  BY <1>1 DEF FilesShape, FilesTypeOK
<1>4. FilesShape'
  <2>1. FilesTypeOK'
    BY <1>1, <1>2, <1>3 DEF FilesShape, FilesTypeOK
  <2>2. \A g \in Files : inode'[g] = [k \in Calls \cup {0} |-> inode'[g][k]]
    BY <1>3 DEF FilesShape
  <2>3. QED
    BY <1>3, <2>1, <2>2 DEF FilesShape
<1>5. f # "hosts" => HostsFileKept
  BY <1>1, <1>3, HostsAreAFile DEF HostsFileKept
<1>6. QED
  BY <1>1, <1>3, <1>4, <1>5 DEF i

LEMMA WritesOne ==
  ASSUME FilesShape, NEW f \in Files, NEW c \in Calls, NEW list, Writes(f, c, list)
  PROVE  /\ FilesShape'
         /\ f # "hosts" => HostsFileKept
         /\ disk'[f] = disk[f] /\ tmp'[f] = tmp[f]
         /\ \A k \in Calls \cup {0} :
              /\ k # held[f][c] => inode'[f][k] = inode[f][k]
              /\ k = held[f][c] /\ inode[f][k] = {} => inode'[f][k] = list
<1> DEFINE i == held[f][c]
<1>1. PICK content \in {list} \cup IF inode[f][i] \in {{}, list} THEN {} ELSE {Garbled} :
         inode' = [inode EXCEPT ![f][i] = content]
  BY DEF Writes
<1>2. held' = [held EXCEPT ![f][c] = None] /\ UNCHANGED <<disk, tmp>>
  BY DEF Writes
<1>3. inode[f][i] = {} => content = list
  BY <1>1
<1> HIDE DEF i
<1>4. /\ inode' = [g \in Files |-> IF g = f THEN [inode[f] EXCEPT ![i] = content] ELSE inode[g]]
      /\ held' = [g \in Files |-> IF g = f THEN [held[f] EXCEPT ![c] = None] ELSE held[g]]
  BY <1>1, <1>2 DEF FilesShape, FilesTypeOK
<1>5. FilesShape'
  <2>1. FilesTypeOK'
    BY <1>2, <1>4 DEF FilesShape, FilesTypeOK
  <2>2. \A g \in Files : inode'[g] = [k \in Calls \cup {0} |-> inode'[g][k]]
    BY <1>4 DEF FilesShape
  <2>3. QED
    BY <1>4, <2>1, <2>2 DEF FilesShape
<1>6. f # "hosts" => HostsFileKept
  BY <1>2, <1>4, HostsAreAFile DEF HostsFileKept
<1>7. /\ disk'[f] = disk[f] /\ tmp'[f] = tmp[f]
      /\ \A k \in Calls \cup {0} :
           /\ k # i => inode'[f][k] = inode[f][k]
           /\ k = i /\ inode[f][k] = {} => inode'[f][k] = list
  BY <1>2, <1>3, <1>4 DEF FilesShape
<1>8. QED
  BY <1>5, <1>6, <1>7 DEF i

LEMMA RenamesOne ==
  ASSUME FilesShape, NEW f \in Files, Renames(f)
  PROVE  /\ FilesShape'
         /\ f # "hosts" => HostsFileKept
         /\ f = "hosts" => /\ tmp[f] # None /\ disk'[f] = tmp[f] /\ tmp'[f] = None
                           /\ inode'[f] = inode[f] /\ held'[f] = held[f]
<1>1. /\ tmp[f] # None /\ disk' = [disk EXCEPT ![f] = tmp[f]] /\ tmp' = [tmp EXCEPT ![f] = None]
      /\ UNCHANGED <<inode, held>>
  BY DEF Renames
<1>2. FilesShape'
  BY <1>1 DEF FilesShape, FilesTypeOK
<1>3. QED
  BY <1>1, <1>2, HostsAreAFile DEF FilesShape, FilesTypeOK, HostsFileKept

LEMMA RenameFailsOne ==
  ASSUME FilesShape, NEW f \in Files, RenameFails(f)
  PROVE  /\ FilesShape'
         /\ f # "hosts" => HostsFileKept
         /\ f = "hosts" => /\ disk'[f] = disk[f] /\ tmp'[f] = None
                           /\ inode'[f] = inode[f] /\ held'[f] = held[f]
<1>1. tmp' = [tmp EXCEPT ![f] = None] /\ UNCHANGED <<inode, disk, held>>
  BY DEF RenameFails
<1>2. FilesShape'
  BY <1>1 DEF FilesShape, FilesTypeOK
<1>3. QED
  BY <1>1, <1>2, HostsAreAFile DEF FilesShape, FilesTypeOK, HostsFileKept

-----------------------------------------------------------------------------
(* A save of hosts.toml *)

CallFields == {"op", "at", "name", "pw", "from", "imported", "list"}

CallShape ==
  /\ call = [c \in Calls |-> call[c]]
  /\ \A c \in Calls : HasFields(call[c], CallFields)

\* A call is at it from its load to its answer; until it opens the .tmp, nothing
\* has been written under its number.
AtIt == {"load", "open", "write", "rename", "reload", "publish", "answer"}
Before == {"idle", "setup", "asked", "load", "open"}

\* As long as no two have been at it at once, what is renamed over hosts.toml is
\* what its writer wrote to the end.
OneAtATime == \A c, d \in Calls : call[c].at \in AtIt /\ call[d].at \in AtIt => c = d
NumbersAreFresh ==
  /\ tmp["hosts"] # disk["hosts"]
  /\ \A c \in Calls : call[c].at \in Before => disk["hosts"] # c /\ tmp["hosts"] # c
WritesItsOwn ==
  \A c \in Calls : call[c].at = "write" =>
    tmp["hosts"] # None /\ held["hosts"][c] = tmp["hosts"] /\ inode["hosts"][tmp["hosts"]] = {}
RenamesItsOwn ==
  \A c \in Calls : call[c].at = "rename" /\ tmp["hosts"] # None =>
    inode["hosts"][tmp["hosts"]] = call[c].list

Unraced == OneAtATime /\ NumbersAreFresh /\ WritesItsOwn /\ RenamesItsOwn

SavesInv == FilesShape /\ CallShape /\ raced \in BOOLEAN /\ (raced \/ Unraced)

LEMMA NoCallIsWhole == HasFields(NoCall, CallFields) /\ NoCall.at = "idle"
BY DEF NoCall, HasFields, CallFields

LEMMA DoneIsWhole == \A c \in Calls : HasFields(Done(c), CallFields) /\ Done(c).at = "done"
BY DEF Done, NoCall, HasFields, CallFields

LEMMA SavesInit == HostsInit => SavesInv
<1> SUFFICES ASSUME HostsInit PROVE SavesInv
  OBVIOUS
<1>1. FilesInit /\ call = [c \in Calls |-> NoCall] /\ raced = FALSE
  BY DEF HostsInit
<1>2. FilesShape
  BY <1>1 DEF FilesInit, FilesShape, FilesTypeOK
<1>3. CallShape /\ \A c \in Calls : call[c].at = "idle"
  BY <1>1, NoCallIsWhole DEF CallShape
<1>4. disk["hosts"] = 0 /\ tmp["hosts"] = None /\ None # 0 /\ \A c \in Calls : c # 0 /\ c # None
  BY <1>1, HostsAreAFile, NoneIsNoCall, CallsAreNumbers DEF FilesInit
<1>5. Unraced
  BY <1>3, <1>4 DEF Unraced, OneAtATime, NumbersAreFresh, WritesItsOwn, RenamesItsOwn, AtIt
<1>6. QED
  BY <1>1, <1>2, <1>3, <1>5 DEF SavesInv

\* A step that leaves hosts.toml and its .tmp alone and moves one call.
LEMMA CallMoves ==
  ASSUME SavesInv, NEW c \in Calls, NEW r, call' = [call EXCEPT ![c] = r],
         HasFields(r, CallFields), UNCHANGED fileState, raced' \in BOOLEAN, raced => raced',
         r.at \in Before => call[c].at \in Before,
         r.at \in AtIt => \/ call[c].at \in AtIt
                          \/ raced' \/ \A d \in Calls \ {c} : call[d].at \notin AtIt,
         r.at \notin {"write", "rename"}
  PROVE  SavesInv' /\ OnDisk("hosts")' = OnDisk("hosts")
<1>1. call' = [d \in Calls |-> IF d = c THEN r ELSE call[d]]
  BY DEF SavesInv, CallShape
<1>2. CallShape'
  BY <1>1 DEF SavesInv, CallShape
<1>3. UNCHANGED <<inode, disk, tmp, held>> /\ FilesShape'
  BY DEF fileState, SavesInv, FilesShape, FilesTypeOK
<1>4. ASSUME ~raced', Unraced PROVE Unraced'
  <2>1. OneAtATime'
    BY <1>1, <1>4 DEF Unraced, OneAtATime
  <2>2. NumbersAreFresh'
    BY <1>1, <1>3, <1>4 DEF Unraced, NumbersAreFresh
  <2>3. WritesItsOwn' /\ RenamesItsOwn'
    BY <1>1, <1>3, <1>4 DEF Unraced, WritesItsOwn, RenamesItsOwn
  <2>4. QED
    BY <2>1, <2>2, <2>3 DEF Unraced
<1>5. QED
  BY <1>2, <1>3, <1>4 DEF SavesInv, OnDisk

\* One that leaves the calls alone too.
LEMMA NothingMoves ==
  ASSUME SavesInv, UNCHANGED call, FilesShape', HostsFileKept, UNCHANGED raced
  PROVE  SavesInv' /\ OnDisk("hosts")' = OnDisk("hosts")
BY DEF SavesInv, HostsFileKept, CallShape, Unraced, OneAtATime, NumbersAreFresh, WritesItsOwn,
   RenamesItsOwn, OnDisk

LEMMA FilesStay ==
  ASSUME FilesShape, UNCHANGED <<inode, disk, tmp, held>>
  PROVE  FilesShape' /\ HostsFileKept
BY DEF FilesShape, FilesTypeOK, HostsFileKept

LEMMA AsksMoves ==
  ASSUME SavesInv, NEW c \in Calls, NEW op, NEW n, NEW pw, NEW from, Asks(c, op, n, pw, from),
         UNCHANGED <<inode, disk, tmp, held, raced>>
  PROVE  SavesInv' /\ OnDisk("hosts")' = OnDisk("hosts")
<1> DEFINE r == [NoCall EXCEPT !.op = op, !.name = n, !.pw = pw, !.from = from,
                               !.at = IF op = "key" THEN "setup" ELSE "asked"]
<1>1. call[c] = NoCall /\ call' = [call EXCEPT ![c] = r]
  BY DEF Asks
<1>2. HasFields(r, CallFields) /\ r.at \in {"setup", "asked"}
  BY DEF NoCall, HasFields, CallFields
<1>3. UNCHANGED fileState /\ call[c].at \in Before
  BY <1>1, NoCallIsWhole DEF fileState, Before
<1>4. raced' \in BOOLEAN /\ (raced => raced')
  BY DEF SavesInv
<1> HIDE DEF r
<1>5. QED
  BY <1>1, <1>2, <1>3, <1>4, CallMoves DEF Before, AtIt

\* A call goes on: its record changes and stays whole.
GoesOn(c, r) ==
  /\ call' = [call EXCEPT ![c] = r] /\ HasFields(r, CallFields)

LEMMA AtMoves ==
  ASSUME CallShape, NEW c \in Calls, NEW at, Goes(c, at)
  PROVE  GoesOn(c, [call[c] EXCEPT !.at = at])
<1> DEFINE r == [call[c] EXCEPT !.at = at]
<1>1. call' = [call EXCEPT ![c] = r]
  BY DEF Goes
<1>2. HasFields(r, CallFields)
  BY DEF CallShape, HasFields, CallFields
<1>3. QED
  BY <1>1, <1>2 DEF GoesOn

LEMMA ListMoves ==
  ASSUME CallShape, NEW c \in Calls, NEW at, NEW list,
         call' = [call EXCEPT ![c].at = at, ![c].list = list]
  PROVE  GoesOn(c, [call[c] EXCEPT !.at = at, !.list = list])
<1> DEFINE r == [call[c] EXCEPT !.at = at, !.list = list]
<1>1. call' = [call EXCEPT ![c] = r]
  BY DEF CallShape
<1>2. HasFields(r, CallFields)
  BY DEF CallShape, HasFields, CallFields
<1>3. QED
  BY <1>1, <1>2 DEF GoesOn

LEMMA FieldsOf ==
  ASSUME CallShape, NEW c \in Calls, NEW at, NEW list
  PROVE  /\ [call[c] EXCEPT !.at = at].at = at /\ [call[c] EXCEPT !.at = at].list = call[c].list
         /\ [call[c] EXCEPT !.at = at, !.list = list].at = at
         /\ [call[c] EXCEPT !.at = at, !.list = list].list = list
BY DEF CallShape, HasFields, CallFields

\* The steps of a call that write nothing.
LEMMA QuietCall ==
  ASSUME SavesInv, NEW c \in Calls,
         \/ KeySetUp(c) \/ Starts(c) \/ Loads(c) \/ CannotRead(c)
         \/ Reloads(c) \/ Publishes(c) \/ Answers(c)
  PROVE  SavesInv' /\ OnDisk("hosts")' = OnDisk("hosts")
<1>0. CallShape /\ raced \in BOOLEAN /\ (UNCHANGED raced => raced' \in BOOLEAN /\ (raced => raced'))
  BY DEF SavesInv
<1>1. CASE KeySetUp(c)
  <2>1. PICK k : call' = [call EXCEPT ![c] = k] /\ k \in {[call[c] EXCEPT !.at = "asked"], Done(c)}
    BY <1>1 DEF KeySetUp
  <2>2. HasFields(k, CallFields) /\ k.at \in {"asked", "done"}
    <3>1. CASE k = [call[c] EXCEPT !.at = "asked"]
      BY <1>0, <3>1 DEF CallShape, HasFields, CallFields
    <3>2. CASE k = Done(c)
      BY <3>2, DoneIsWhole
    <3>3. QED
      BY <2>1, <3>1, <3>2
  <2>3. call[c].at \in Before /\ UNCHANGED fileState /\ UNCHANGED raced
    BY <1>1 DEF KeySetUp, Untouched, fileState, Before
  <2>4. QED
    BY <1>0, <2>1, <2>2, <2>3, CallMoves DEF Before, AtIt
<1>2. CASE Starts(c)
  <2> DEFINE b == \E h \in Named(call[c].name) : h.src = "config"
             r == [call[c] EXCEPT !.at = "load", !.imported = b]
  <2>1. call' = [call EXCEPT ![c].at = "load", ![c].imported = b]
    BY <1>2 DEF Starts
  <2> HIDE DEF b
  <2>2. call' = [call EXCEPT ![c] = r] /\ HasFields(r, CallFields) /\ r.at = "load"
    BY <1>0, <2>1 DEF CallShape, HasFields, CallFields
  <2>3. /\ call[c].at \in Before /\ UNCHANGED fileState
        /\ raced' = (raced \/ \E d \in Calls \ {c} :
                        call[d].at \notin {"idle", "done", "setup", "asked"})
    BY <1>2 DEF Starts, Before
  <2>4. raced' \in BOOLEAN /\ (raced => raced')
    BY <1>0, <2>3
  <2>5. raced' \/ \A d \in Calls \ {c} : call[d].at \notin AtIt
    BY <2>3 DEF AtIt
  <2> HIDE DEF r
  <2>6. QED
    BY <2>2, <2>3, <2>4, <2>5, CallMoves DEF Before, AtIt
<1>3. CASE Loads(c)
  <2>1. PICK at, list : /\ call' = [call EXCEPT ![c].at = at, ![c].list = list]
                        /\ at \in {"reload", "open"}
    BY <1>3 DEF Loads
  <2>2. call[c].at = "load" /\ UNCHANGED fileState /\ UNCHANGED raced
    BY <1>3 DEF Loads
  <2>3. PICK r : GoesOn(c, r) /\ r.at = at
    <3>1. GoesOn(c, [call[c] EXCEPT !.at = at, !.list = list])
      BY <1>0, <2>1, ListMoves
    <3>2. [call[c] EXCEPT !.at = at, !.list = list].at = at
      BY <1>0, FieldsOf
    <3>3. QED
      BY <3>1, <3>2
  <2>4. QED
    BY <1>0, <2>1, <2>2, <2>3, CallMoves DEF Before, AtIt, GoesOn
<1>4. CASE CannotRead(c)
  <2>1. call' = [call EXCEPT ![c] = Done(c)] /\ UNCHANGED fileState /\ UNCHANGED raced
    BY <1>4 DEF CannotRead, Fails
  <2>2. QED
    BY <1>0, <2>1, DoneIsWhole, CallMoves DEF Before, AtIt
<1>5. CASE Reloads(c) \/ Publishes(c)
  <2>1. PICK at, list : /\ call' = [call EXCEPT ![c].at = at, ![c].list = list]
                        /\ at \in {"publish", "answer"}
    BY <1>5 DEF Reloads, Publishes
  <2>2. call[c].at \in AtIt /\ UNCHANGED fileState /\ UNCHANGED raced
    BY <1>5 DEF Reloads, Publishes, AtIt
  <2>3. PICK r : GoesOn(c, r) /\ r.at = at
    <3>1. GoesOn(c, [call[c] EXCEPT !.at = at, !.list = list])
      BY <1>0, <2>1, ListMoves
    <3>2. [call[c] EXCEPT !.at = at, !.list = list].at = at
      BY <1>0, FieldsOf
    <3>3. QED
      BY <3>1, <3>2
  <2>4. QED
    BY <1>0, <2>1, <2>2, <2>3, CallMoves DEF Before, AtIt, GoesOn
<1>6. CASE Answers(c)
  <2>1. call' = [call EXCEPT ![c] = Done(c)] /\ UNCHANGED fileState /\ UNCHANGED raced
    BY <1>6 DEF Answers
  <2>2. QED
    BY <1>0, <2>1, DoneIsWhole, CallMoves DEF Before, AtIt
<1>7. QED
  BY <1>1, <1>2, <1>3, <1>4, <1>5, <1>6

LEMMA OpensTmpSaves ==
  ASSUME SavesInv, NEW c \in Calls, OpensTmp(c)
  PROVE  SavesInv' /\ (~raced => OnDisk("hosts")' = OnDisk("hosts"))
<1>0. FilesShape /\ CallShape /\ raced' = raced /\ raced \in BOOLEAN
  BY DEF SavesInv, OpensTmp
<1> DEFINE r == [call[c] EXCEPT !.at = "write"]
           f == "hosts"
           i == tmp'[f]
<1>1. /\ FilesShape' /\ disk'[f] = disk[f] /\ i = (IF tmp[f] = None THEN c ELSE tmp[f])
      /\ held'[f] = [held[f] EXCEPT ![c] = i] /\ inode'[f] = [inode[f] EXCEPT ![i] = {}]
  BY <1>0, OpensOne, HostsAreAFile DEF OpensTmp
<1>2. call[c].at = "open" /\ call' = [call EXCEPT ![c] = r] /\ HasFields(r, CallFields) /\ r.at = "write"
  BY <1>0, AtMoves, FieldsOf DEF OpensTmp, GoesOn
<1> HIDE DEF r
<1>3. call' = [d \in Calls |-> IF d = c THEN r ELSE call[d]] /\ CallShape'
  BY <1>0, <1>2 DEF CallShape
<1>4. /\ i \in Calls \cup {0} /\ i # None /\ held'[f][c] = i /\ inode'[f][i] = {}
      /\ \A k \in Calls \cup {0} : k # i => inode'[f][k] = inode[f][k]
      /\ disk[f] \in Calls \cup {0}
  BY <1>0, <1>1, HostsAreAFile, NoneIsNoCall DEF FilesShape, FilesTypeOK
<1>5. ASSUME ~raced PROVE Unraced' /\ i # disk[f]
  <2>1. Unraced
    BY <1>5 DEF SavesInv
  <2>2. \A d \in Calls : d # c => call[d].at \notin AtIt
    BY <1>2, <2>1 DEF Unraced, OneAtATime, AtIt
  <2>3. tmp[f] # disk[f] /\ disk[f] # c /\ i # disk[f]
    BY <1>1, <1>2, <2>1 DEF Unraced, NumbersAreFresh, Before
  <2>4. OneAtATime'
    BY <1>3, <2>2 DEF OneAtATime
  <2>5. NumbersAreFresh'
    BY <1>1, <1>2, <1>3, <2>1, <2>3 DEF Unraced, NumbersAreFresh, Before
  <2>6. WritesItsOwn'
    BY <1>3, <1>4, <2>2 DEF WritesItsOwn, AtIt
  <2>7. RenamesItsOwn'
    BY <1>2, <1>3, <2>2 DEF RenamesItsOwn, AtIt
  <2>8. QED
    BY <2>3, <2>4, <2>5, <2>6, <2>7 DEF Unraced
<1>6. QED
  BY <1>0, <1>1, <1>3, <1>4, <1>5 DEF SavesInv, OnDisk

LEMMA WritesTmpSaves ==
  ASSUME SavesInv, NEW c \in Calls, WritesTmp(c)
  PROVE  SavesInv' /\ (~raced => OnDisk("hosts")' = OnDisk("hosts"))
<1>0. FilesShape /\ CallShape /\ raced' = raced /\ raced \in BOOLEAN
  BY DEF SavesInv, WritesTmp
<1> DEFINE r == [call[c] EXCEPT !.at = "rename"]
           f == "hosts"
           i == held[f][c]
<1>1. FilesShape' /\ disk'[f] = disk[f] /\ tmp'[f] = tmp[f]
  BY <1>0, WritesOne, HostsAreAFile DEF WritesTmp
<1>2. \A k \in Calls \cup {0} :
        /\ k # i => inode'[f][k] = inode[f][k]
        /\ k = i /\ inode[f][k] = {} => inode'[f][k] = call[c].list
  BY <1>0, WritesOne, HostsAreAFile DEF WritesTmp
<1>3. /\ call[c].at = "write" /\ call' = [call EXCEPT ![c] = r] /\ HasFields(r, CallFields)
      /\ r.at = "rename" /\ r.list = call[c].list
  BY <1>0, AtMoves, FieldsOf DEF WritesTmp, GoesOn
<1> HIDE DEF r
<1>4. call' = [d \in Calls |-> IF d = c THEN r ELSE call[d]] /\ CallShape'
  BY <1>0, <1>3 DEF CallShape
<1>5. ASSUME ~raced PROVE Unraced' /\ i # disk[f]
  <2>1. Unraced
    BY <1>5 DEF SavesInv
  <2>2. \A d \in Calls : d # c => call[d].at \notin AtIt
    BY <1>3, <2>1 DEF Unraced, OneAtATime, AtIt
  <2>3. tmp[f] # None /\ i = tmp[f] /\ inode[f][i] = {} /\ i # disk[f]
    BY <1>3, <2>1 DEF Unraced, NumbersAreFresh, WritesItsOwn
  <2>4. inode'[f][i] = r.list
    <3>1. i \in Calls \cup {0}
      BY <1>0, <2>3, HostsAreAFile DEF FilesShape, FilesTypeOK
    <3>2. QED
      BY <1>2, <1>3, <2>3, <3>1
  <2>5. OneAtATime'
    BY <1>4, <2>2 DEF OneAtATime
  <2>6. NumbersAreFresh'
    BY <1>1, <1>3, <1>4, <2>1 DEF Unraced, NumbersAreFresh, Before
  <2>7. WritesItsOwn'
    BY <1>3, <1>4, <2>2 DEF WritesItsOwn, AtIt
  <2>8. RenamesItsOwn'
    BY <1>1, <1>4, <2>2, <2>3, <2>4 DEF RenamesItsOwn, AtIt
  <2>9. QED
    BY <2>3, <2>5, <2>6, <2>7, <2>8 DEF Unraced
<1>6. i # disk[f] => inode'[f][disk[f]] = inode[f][disk[f]]
  <2>1. disk[f] \in Calls \cup {0}
    BY <1>0, HostsAreAFile DEF FilesShape, FilesTypeOK
  <2>2. QED
    BY <1>2, <2>1
<1>7. QED
  BY <1>0, <1>1, <1>4, <1>5, <1>6 DEF SavesInv, OnDisk

\* What hosts.toml becomes is what the call that renames was to save.
LEMMA ReplacesSaves ==
  ASSUME SavesInv, NEW c \in Calls, Replaces(c)
  PROVE  /\ SavesInv' /\ call[c].at = "rename" /\ call'[c].at = "reload"
         /\ ~raced => OnDisk("hosts")' = call[c].list
<1>0. FilesShape /\ CallShape /\ raced' = raced /\ raced \in BOOLEAN
  BY DEF SavesInv, Replaces
<1> DEFINE r == [call[c] EXCEPT !.at = "reload", !.list = {}]
           f == "hosts"
<1>1. /\ FilesShape' /\ tmp[f] # None /\ disk'[f] = tmp[f] /\ tmp'[f] = None
      /\ inode'[f] = inode[f]
  BY <1>0, RenamesOne, HostsAreAFile DEF Replaces
<1>2. call[c].at = "rename" /\ call' = [call EXCEPT ![c] = r] /\ HasFields(r, CallFields) /\ r.at = "reload"
  <2>1. call' = [call EXCEPT ![c].at = "reload", ![c].list = {}] /\ call[c].at = "rename"
    BY DEF Replaces
  <2>2. GoesOn(c, r)
    BY <1>0, <2>1, ListMoves
  <2>3. r.at = "reload"
    BY <1>0, FieldsOf
  <2>4. QED
    BY <2>1, <2>2, <2>3 DEF GoesOn
<1> HIDE DEF r
<1>3. call' = [d \in Calls |-> IF d = c THEN r ELSE call[d]] /\ CallShape'
  BY <1>0, <1>2 DEF CallShape
<1>4. ASSUME ~raced PROVE Unraced' /\ inode[f][tmp[f]] = call[c].list
  <2>1. Unraced
    BY <1>4 DEF SavesInv
  <2>2. \A d \in Calls : d # c => call[d].at \notin AtIt
    BY <1>2, <2>1 DEF Unraced, OneAtATime, AtIt
  <2>3. inode[f][tmp[f]] = call[c].list
    BY <1>1, <1>2, <2>1 DEF Unraced, RenamesItsOwn
  <2>4. OneAtATime'
    BY <1>3, <2>2 DEF OneAtATime
  <2>5. NumbersAreFresh'
    <3>1. \A d \in Calls : d # None /\ None \notin Calls \cup {0}
      BY NoneIsNoCall
    <3>2. QED
      BY <1>1, <1>2, <1>3, <2>1, <3>1 DEF Unraced, NumbersAreFresh, Before
  <2>6. WritesItsOwn' /\ RenamesItsOwn'
    BY <1>2, <1>3, <2>2 DEF WritesItsOwn, RenamesItsOwn, AtIt
  <2>7. QED
    BY <2>3, <2>4, <2>5, <2>6 DEF Unraced
<1>5. QED
  BY <1>0, <1>1, <1>2, <1>3, <1>4 DEF SavesInv, OnDisk

LEMMA CannotReplaceSaves ==
  ASSUME SavesInv, NEW c \in Calls, CannotReplace(c)
  PROVE  SavesInv' /\ OnDisk("hosts")' = OnDisk("hosts")
<1>0. FilesShape /\ CallShape /\ raced' = raced /\ raced \in BOOLEAN
  BY DEF SavesInv, CannotReplace
<1> DEFINE f == "hosts"
<1>1. FilesShape' /\ disk'[f] = disk[f] /\ tmp'[f] = None /\ inode'[f] = inode[f]
  BY <1>0, RenameFailsOne, HostsAreAFile DEF CannotReplace
<1>2. call[c].at = "rename" /\ call' = [call EXCEPT ![c] = Done(c)]
  BY DEF CannotReplace, Fails
<1>3. call' = [d \in Calls |-> IF d = c THEN Done(c) ELSE call[d]] /\ CallShape'
  BY <1>0, <1>2, DoneIsWhole DEF CallShape
<1>4. ASSUME ~raced PROVE Unraced'
  <2>1. Unraced
    BY <1>4 DEF SavesInv
  <2>2. \A d \in Calls : d # c => call[d].at \notin AtIt
    BY <1>2, <2>1 DEF Unraced, OneAtATime, AtIt
  <2>3. OneAtATime'
    BY <1>3, <2>2 DEF OneAtATime
  <2>4. NumbersAreFresh'
    <3>1. None \notin Calls \cup {0} /\ disk[f] \in Calls \cup {0}
      BY <1>0, NoneIsNoCall, HostsAreAFile DEF FilesShape, FilesTypeOK
    <3>2. QED
      BY <1>1, <1>3, <2>1, <3>1, DoneIsWhole DEF Unraced, NumbersAreFresh, Before
  <2>5. WritesItsOwn' /\ RenamesItsOwn'
    BY <1>3, <2>2, DoneIsWhole DEF WritesItsOwn, RenamesItsOwn, AtIt
  <2>6. QED
    BY <2>3, <2>4, <2>5 DEF Unraced
<1>5. QED
  BY <1>0, <1>1, <1>3, <1>4 DEF SavesInv, OnDisk

\* The process ends: nobody is at it, and what was written stays.
LEMMA CrashSaves ==
  ASSUME SavesInv, Crash
  PROVE  SavesInv' /\ OnDisk("hosts")' = OnDisk("hosts")
<1>0. FilesShape /\ CallShape /\ raced' = raced /\ raced \in BOOLEAN
  BY DEF SavesInv, Crash
<1>1. /\ held' = [f \in Files |-> [c \in Calls |-> None]] /\ UNCHANGED <<inode, disk, tmp>>
      /\ call' = [c \in Calls |-> IF Busy(c) THEN Done(c) ELSE call[c]]
  BY DEF Crash, FilesCrash
<1>2. FilesShape'
  BY <1>0, <1>1 DEF FilesShape, FilesTypeOK
<1>3. CallShape'
  BY <1>0, <1>1, DoneIsWhole DEF CallShape
<1>4. \A c \in Calls : call'[c].at \in {"idle", "done"} /\ (call'[c].at = "idle" => call[c].at = "idle")
  BY <1>1, DoneIsWhole DEF Busy
<1>5. ASSUME Unraced PROVE Unraced'
  <2>1. OneAtATime' /\ WritesItsOwn' /\ RenamesItsOwn'
    BY <1>4 DEF OneAtATime, WritesItsOwn, RenamesItsOwn, AtIt
  <2>2. NumbersAreFresh'
    BY <1>1, <1>4, <1>5 DEF Unraced, NumbersAreFresh, Before
  <2>3. QED
    BY <2>1, <2>2 DEF Unraced
<1>6. QED
  BY <1>0, <1>1, <1>2, <1>3, <1>5 DEF SavesInv, OnDisk

\* A step of hosts.toml's part: the file changes only as a save is completed.
SavesWhole ==
  OnDisk("hosts")' # OnDisk("hosts") /\ ~raced =>
    \E c \in Calls : call[c].at = "rename" /\ call'[c].at = "reload"
                     /\ OnDisk("hosts")' = call[c].list

LEMMA HostsNextSaves == ASSUME SavesInv, HostsNext PROVE SavesInv' /\ SavesWhole
<1>1. CASE OpenDialog \/ OpenDelete \/ Type \/ RequestClose \/ KeepEditing \/ Cancel
  <2>1. UNCHANGED <<inode, disk, tmp, held, raced, call>>
    BY <1>1 DEF OpenDialog, OpenDelete, Type, RequestClose, KeepEditing, Cancel, Untouched
  <2>2. FilesShape' /\ HostsFileKept
    BY <2>1, FilesStay DEF SavesInv
  <2>3. QED
    BY <2>1, <2>2, NothingMoves DEF SavesWhole
<1>2. CASE Crash
  BY <1>2, CrashSaves DEF SavesWhole
<1>3. ASSUME NEW c \in Calls, Submit(c) \/ ConfirmDelete(c) \/ Drop(c) \/ ConfirmKey(c)
      PROVE  SavesInv' /\ SavesWhole
  <2>1. UNCHANGED <<inode, disk, tmp, held, raced>>
    BY <1>3 DEF Submit, ConfirmDelete, Drop, ConfirmKey, Untouched
  <2>2. PICK op, n, pw, from : Asks(c, op, n, pw, from)
    BY <1>3 DEF Submit, ConfirmDelete, Drop, ConfirmKey
  <2>3. QED
    BY <2>1, <2>2, AsksMoves DEF SavesWhole
<1>4. ASSUME NEW c \in Calls,
             \/ KeySetUp(c) \/ Starts(c) \/ Loads(c) \/ CannotRead(c)
             \/ Reloads(c) \/ Publishes(c) \/ Answers(c)
      PROVE  SavesInv' /\ SavesWhole
  BY <1>4, QuietCall DEF SavesWhole
<1>5. ASSUME NEW c \in Calls, OpensTmp(c) \/ WritesTmp(c) \/ Replaces(c) \/ CannotReplace(c)
      PROVE  SavesInv' /\ SavesWhole
  BY <1>5, OpensTmpSaves, WritesTmpSaves, ReplacesSaves, CannotReplaceSaves DEF SavesWhole
<1>6. QED
  BY <1>1, <1>2, <1>3, <1>4, <1>5 DEF HostsNext

\* The profiles are in another file.
LEMMA DesktopsNextSaves ==
  ASSUME SavesInv, Desktops!DesktopsNext, UNCHANGED manualVars
  PROVE  SavesInv' /\ SavesWhole
<1>0. FilesShape /\ UNCHANGED <<call, raced>>
  BY DEF SavesInv, manualVars
<1>1. FilesShape' /\ HostsFileKept
  <2>1. CASE UNCHANGED <<inode, disk, tmp, held>>
    BY <1>0, <2>1, FilesStay
  <2>2. ASSUME NEW c \in Calls, Opens("desktops", c)
        PROVE  FilesShape' /\ HostsFileKept
    BY <1>0, <2>2, OpensOne, DesktopsAreAFile
  <2>3. ASSUME NEW c \in Calls, NEW list, Writes("desktops", c, list)
        PROVE  FilesShape' /\ HostsFileKept
    BY <1>0, <2>3, WritesOne, DesktopsAreAFile
  <2>4. CASE Renames("desktops") \/ RenameFails("desktops")
    BY <1>0, <2>4, RenamesOne, RenameFailsOne, DesktopsAreAFile
  <2>5. ASSUME NEW c \in Calls, \/ Desktops!Refresh(c) \/ Desktops!SubmitEditor(c)
                               \/ Desktops!Delete(c) \/ Desktops!DropTile(c)
        PROVE  UNCHANGED <<inode, disk, tmp, held>>
    BY <2>5 DEF Desktops!Refresh, Desktops!SubmitEditor, Desktops!Delete, Desktops!DropTile,
       Desktops!Requests, Desktops!fileState
  <2>6. CASE Desktops!OpenEditor \/ Desktops!AskToDelete \/ Desktops!TypeInEditor \/ Desktops!CloseEditor
    BY <2>1, <2>6 DEF Desktops!OpenEditor, Desktops!AskToDelete, Desktops!TypeInEditor,
       Desktops!CloseEditor, Desktops!fileState
  <2>7. ASSUME NEW c \in Calls, \/ Desktops!LoadsDesktops(c) \/ Desktops!ListsDesktops(c)
                               \/ Desktops!ShowsDesktops(c)
        PROVE  UNCHANGED <<inode, disk, tmp, held>>
    BY <2>7 DEF Desktops!LoadsDesktops, Desktops!ListsDesktops, Desktops!ShowsDesktops,
       Desktops!fileState
  <2>8. ASSUME NEW c \in Calls, Desktops!WritesDesktops(c)
        PROVE  \/ Opens("desktops", c) \/ (\E list : Writes("desktops", c, list))
               \/ Renames("desktops")
    BY <2>8 DEF Desktops!WritesDesktops, Desktops!Opens, Desktops!Writes, Desktops!Renames,
       Opens, Writes, Renames
  <2>9. ASSUME NEW c \in Calls, Desktops!RefusesDesktops(c)
        PROVE  RenameFails("desktops") \/ UNCHANGED <<inode, disk, tmp, held>>
    BY <2>9 DEF Desktops!RefusesDesktops, Desktops!RenameFails, Desktops!fileState, RenameFails
  <2>10. QED
    BY <2>1, <2>2, <2>3, <2>4, <2>5, <2>6, <2>7, <2>8, <2>9 DEF Desktops!DesktopsNext
<1>2. QED
  BY <1>0, <1>1, NothingMoves DEF SavesWhole

LEMMA PartsNextSaves == SavesInv /\ [PartsNext]_partsVars => SavesInv' /\ SavesWhole
<1> SUFFICES ASSUME SavesInv, [PartsNext]_partsVars PROVE SavesInv' /\ SavesWhole
  OBVIOUS
<1>1. CASE HostsNext
  BY <1>1, HostsNextSaves
<1>2. CASE Desktops!DesktopsNext /\ UNCHANGED manualVars
  BY <1>2, DesktopsNextSaves
<1>3. CASE UNCHANGED hostVars
  <2>1. UNCHANGED <<inode, disk, tmp, held, raced, call>>
    BY <1>3 DEF hostVars
  <2>2. FilesShape' /\ HostsFileKept
    BY <2>1, FilesStay DEF SavesInv
  <2>3. QED
    BY <2>1, <2>2, NothingMoves DEF SavesWhole
<1>4. QED
  BY <1>1, <1>2, <1>3 DEF PartsNext, partsVars

\* While no two have been at it at once, what is renamed over hosts.toml has been
\* written to the end by the one that renames it.
THEOREM SavesInvariance == PartsSpec => []SavesInv
<1>1. PartsInit => SavesInv
  BY SavesInit DEF PartsInit
<1>2. SavesInv /\ [PartsNext]_partsVars => SavesInv'
  BY PartsNextSaves
<1>3. QED
  BY <1>1, <1>2, PTL DEF PartsSpec, partsVars

\* hosts.toml changes only as a save is completed, and to all that it was to save,
\* whatever crash, refused write or left-over .tmp interrupts the saves, for any
\* number of them (core/config/hosts.ts:54-64).
THEOREM SavesAreAllOrNothing == PartsSpec => SaveIsAllOrNothing
<1>1. SavesInv /\ [PartsNext]_partsVars => [SavesWhole]_hostVars
  BY PartsNextSaves
<1>2. QED
  BY <1>1, SavesInvariance, PTL DEF PartsSpec, partsVars, SaveIsAllOrNothing, SavesWhole

-----------------------------------------------------------------------------
(* An import into both lists *)

ApplyFields == {"at", "token", "kind", "choice", "manual", "all", "read", "final", "wrote"}

ApplyShape ==
  /\ apply = [a \in Applies |-> apply[a]]
  /\ \A a \in Applies : HasFields(apply[a], ApplyFields)

NoneIsReadYet == \A a \in Applies : apply[a].at \in {"idle", "asked"} => apply[a].read = {}

\* As long as nothing has come into an apply, there is one at a time, ...
OneUnderway == \A a, b \in Applies : Underway(a) /\ Underway(b) => a = b

\* ... the list it read is the list, ...
ReadIsSo ==
  \A a \in Applies : apply[a].at = "hosts" /\ "manual" \in apply[a].read => apply[a].manual = hostList

\* ... what it adds to the hosts leads to hosts it adds, the file's tunnel host is
\* one of them, ...
Came(list, n, a) == \E h \in list : h.name = n /\ h.by = a
LeadsWithin(list, old, a) ==
  \A e \in list \ old : e.by = a /\ (e.to # NoLink => Came(list, e.to, a))
HostsLead ==
  \A a \in Applies : apply[a].at \in {"profiles", "saveHosts"} =>
    LeadsWithin(apply[a].manual, hostList, a)
ViaCame ==
  \A a \in Applies : apply[a].at = "profiles" => Came(apply[a].manual, apply[a].final[Via], a)

\* ... and what it adds to the profiles leads to one of those hosts, which are
\* saved first.
ProfileLeads(k, old, a) == \A e \in k.all \ old : e.by = a /\ Came(k.manual, e.to, a)
ProfilesLead ==
  \A a \in Applies :
    /\ apply[a].at = "saveHosts" /\ apply[a].kind = "rdp" => ProfileLeads(apply[a], rdpList, a)
    /\ apply[a].at = "saveProfiles" => /\ ProfileLeads(apply[a], rdpList, a)
                                       /\ hostList = apply[a].manual

Unmixed == OneUnderway /\ ReadIsSo /\ HostsLead /\ ViaCame /\ ProfilesLead
LinksInv == ApplyShape /\ NoneIsReadYet /\ mixed \in BOOLEAN /\ (mixed \/ Unmixed)

\* The step's new entries lead where ImportedLinksLead says.
NewOnesLead ==
  ~mixed' => \A a \in Applies, e \in (hostList' \ hostList) \cup (rdpList' \ rdpList) :
    e.by = a /\ e.to # NoLink => \E h \in hostList' : h.name = e.to /\ h.by = a

LEMMA NoApplyIsWhole ==
  HasFields(NoApply, ApplyFields) /\ NoApply.at = "idle" /\ NoApply.read = {}
BY DEF NoApply, HasFields, ApplyFields

LEMMA LinksInit == ImportInit => LinksInv
<1> SUFFICES ASSUME ImportInit PROVE LinksInv
  OBVIOUS
<1>1. apply = [a \in Applies |-> NoApply] /\ mixed = FALSE
  BY DEF ImportInit
<1>2. ApplyShape /\ \A a \in Applies : apply[a].at = "idle" /\ apply[a].read = {}
  BY <1>1, NoApplyIsWhole DEF ApplyShape
<1>3. Unmixed /\ NoneIsReadYet
  BY <1>2 DEF Unmixed, OneUnderway, Underway, ReadIsSo, HostsLead, ViaCame, ProfilesLead, NoneIsReadYet
<1>4. QED
  BY <1>1, <1>2, <1>3 DEF LinksInv

\* What one apply needs of itself.
GoodApply(k, a, hosts, profiles) ==
  /\ k.at = "hosts" /\ "manual" \in k.read => k.manual = hosts
  /\ k.at \in {"profiles", "saveHosts"} => LeadsWithin(k.manual, hosts, a)
  /\ k.at = "profiles" => Came(k.manual, k.final[Via], a)
  /\ k.at = "saveHosts" /\ k.kind = "rdp" => ProfileLeads(k, profiles, a)
  /\ k.at = "saveProfiles" => ProfileLeads(k, profiles, a) /\ hosts = k.manual

LEMMA GoodOnes ==
  /\ Unmixed <=> OneUnderway /\ \A a \in Applies : GoodApply(apply[a], a, hostList, rdpList)
BY DEF Unmixed, ReadIsSo, HostsLead, ViaCame, ProfilesLead, GoodApply

AtRest(k) == k.at \in {"idle", "asked", "refused", "failed", "done"}

LEMMA RestIsGood ==
  ASSUME NEW k, NEW a, NEW hosts, NEW profiles, AtRest(k) \/ k.at \in {"reload", "answer"}
  PROVE  GoodApply(k, a, hosts, profiles)
BY DEF GoodApply, AtRest

\* One apply goes on, and whatever it changes of the lists is its own.
LEMMA ApplyMoves ==
  ASSUME LinksInv, NEW a \in Applies, NEW k, apply' = [apply EXCEPT ![a] = k],
         HasFields(k, ApplyFields), k.at \in {"idle", "asked"} => k.read = {},
         mixed' \in BOOLEAN, mixed => mixed',
         ~mixed' => /\ Unmixed => GoodApply(k, a, hostList', rdpList')
                    /\ AtRest(k) \/ \A b \in Applies \ {a} : AtRest(apply[b]),
         UNCHANGED <<hostList, rdpList>> \/ Underway(a)
  PROVE  LinksInv'
<1>1. apply' = [b \in Applies |-> IF b = a THEN k ELSE apply[b]]
  BY DEF LinksInv, ApplyShape
<1>2. ApplyShape' /\ NoneIsReadYet'
  BY <1>1 DEF LinksInv, ApplyShape, NoneIsReadYet
<1>3. ASSUME ~mixed' PROVE Unmixed'
  <2>1. Unmixed
    BY <1>3 DEF LinksInv
  <2>2. OneUnderway'
    BY <1>1, <1>3, <2>1 DEF Unmixed, OneUnderway, Underway, AtRest
  <2>3. GoodApply(apply'[a], a, hostList', rdpList')
    BY <1>1, <1>3, <2>1
  <2>4. ASSUME NEW b \in Applies, b # a
        PROVE  GoodApply(apply'[b], b, hostList', rdpList')
    <3>1. apply'[b] = apply[b] /\ GoodApply(apply[b], b, hostList, rdpList)
      BY <1>1, <2>1, <2>4, GoodOnes
    <3>2. CASE UNCHANGED <<hostList, rdpList>>
      BY <3>1, <3>2
    <3>3. CASE Underway(a)
      <4>1. AtRest(apply[b])
        BY <2>1, <2>4, <3>3 DEF Unmixed, OneUnderway, Underway, AtRest
      <4>2. QED
        BY <3>1, <4>1, RestIsGood
    <3>4. QED
      BY <3>2, <3>3
  <2>5. \A b \in Applies : GoodApply(apply'[b], b, hostList', rdpList')
    BY <2>3, <2>4
  <2>6. QED
    BY <2>2, <2>5 DEF Unmixed, ReadIsSo, HostsLead, ViaCame, ProfilesLead, GoodApply
<1>4. QED
  BY <1>2, <1>3 DEF LinksInv

LEMMA ListsStay == UNCHANGED <<hostList, rdpList>> => NewOnesLead
BY DEF NewOnesLead

LEMMA NoApplyMoves ==
  ASSUME LinksInv, UNCHANGED <<apply, mixed, hostList, rdpList>>
  PROVE  LinksInv' /\ NewOnesLead
BY ListsStay DEF LinksInv, ApplyShape, NoneIsReadYet, Unmixed, OneUnderway, Underway, ReadIsSo,
   HostsLead, ViaCame, ProfilesLead

\* One that is refused or over rests.
LEMMA RestsThen ==
  ASSUME LinksInv, NEW a \in Applies, NEW k, apply' = [apply EXCEPT ![a] = k],
         HasFields(k, ApplyFields), k.read = {} \/ k.at \notin {"idle", "asked"}, AtRest(k),
         UNCHANGED <<mixed, hostList, rdpList>>
  PROVE  LinksInv' /\ NewOnesLead
<1>1. GoodApply(k, a, hostList', rdpList')
  BY RestIsGood
<1>2. LinksInv'
  BY <1>1, ApplyMoves DEF LinksInv
<1>3. QED
  BY <1>2, ListsStay

LEMMA RefusesRests ==
  ASSUME LinksInv, NEW a \in Applies, NEW at \in {"refused", "failed"}, Refuses(a, at),
         UNCHANGED <<hostList, rdpList>>, mixed' \in BOOLEAN, mixed => mixed'
  PROVE  LinksInv' /\ NewOnesLead
<1> DEFINE k == [NoApply EXCEPT !.at = at, !.wrote = apply[a].wrote]
<1>1. apply' = [apply EXCEPT ![a] = k]
  BY DEF Refuses
<1>2. HasFields(k, ApplyFields) /\ k.at = at
  BY DEF NoApply, HasFields, ApplyFields
<1> HIDE DEF k
<1>3. AtRest(k) /\ k.at \notin {"idle", "asked"}
  BY <1>2 DEF AtRest
<1>4. GoodApply(k, a, hostList', rdpList')
  BY <1>3, RestIsGood
<1>5. LinksInv'
  BY <1>1, <1>2, <1>3, <1>4, ApplyMoves
<1>6. QED
  BY <1>5, ListsStay

LEMMA SubmitLinks ==
  ASSUME LinksInv, NEW a \in Applies, SubmitImport(a)
  PROVE  LinksInv' /\ NewOnesLead
<1>1. PICK choice :
        apply' = [apply EXCEPT ![a] = [NoApply EXCEPT !.at = "asked", !.token = question.token,
                                                      !.kind = question.kind, !.choice = choice]]
  BY DEF SubmitImport
<1> DEFINE k == [NoApply EXCEPT !.at = "asked", !.token = question.token,
                                !.kind = question.kind, !.choice = choice]
<1>2. HasFields(k, ApplyFields) /\ k.at = "asked" /\ k.read = {}
  BY DEF NoApply, HasFields, ApplyFields
<1>3. apply' = [apply EXCEPT ![a] = k] /\ UNCHANGED <<mixed, hostList, rdpList>>
  BY <1>1 DEF SubmitImport
<1> HIDE DEF k
<1>4. QED
  BY <1>2, <1>3, RestsThen DEF AtRest

LEMMA TakesFileLinks ==
  ASSUME LinksInv, NEW a \in Applies, TakesFile(a)
  PROVE  LinksInv' /\ NewOnesLead
<1>1. /\ apply[a].at = "asked" /\ UNCHANGED <<hostList, rdpList>>
      /\ mixed' = (mixed \/ \E b \in Applies \ {a} : Underway(b))
  BY DEF TakesFile
<1>2. mixed' \in BOOLEAN /\ (mixed => mixed')
  BY <1>1 DEF LinksInv
<1>3. CASE pending = apply[a].token
  <2> DEFINE k == [apply[a] EXCEPT !.at = "hosts"]
  <2>1. apply' = [apply EXCEPT ![a] = k]
    BY <1>3 DEF TakesFile
  <2>2. HasFields(k, ApplyFields) /\ k.at = "hosts" /\ k.read = {}
    BY <1>1 DEF LinksInv, ApplyShape, NoneIsReadYet, HasFields, ApplyFields
  <2> HIDE DEF k
  <2>3. GoodApply(k, a, hostList', rdpList')
    BY <2>2 DEF GoodApply
  <2>4. ~mixed' => \A b \in Applies \ {a} : AtRest(apply[b])
    BY <1>1 DEF Underway, AtRest
  <2>5. LinksInv'
    BY <1>1, <1>2, <2>1, <2>2, <2>3, <2>4, ApplyMoves
  <2>6. QED
    BY <1>1, <2>5, ListsStay
<1>4. CASE pending # apply[a].token
  BY <1>1, <1>2, <1>4, RefusesRests DEF TakesFile
<1>5. QED
  BY <1>3, <1>4

\* Others rest while this one is under way and nothing has come into it.
LEMMA OthersRest ==
  ASSUME LinksInv, NEW a \in Applies, Underway(a), ~mixed
  PROVE  /\ \A b \in Applies \ {a} : AtRest(apply[b])
         /\ GoodApply(apply[a], a, hostList, rdpList)
<1>1. OneUnderway /\ GoodApply(apply[a], a, hostList, rdpList)
  BY GoodOnes DEF LinksInv
<1>2. QED
  BY <1>1 DEF OneUnderway, Underway, AtRest

\* An apply that is under way and goes on.
LEMMA GoesOnLinks ==
  ASSUME LinksInv, NEW a \in Applies, Underway(a), NEW k, apply' = [apply EXCEPT ![a] = k],
         HasFields(k, ApplyFields), k.at \notin {"idle", "asked"}, UNCHANGED mixed,
         ~mixed /\ GoodApply(apply[a], a, hostList, rdpList) => GoodApply(k, a, hostList', rdpList')
  PROVE  LinksInv'
<1>1. ~mixed => /\ \A b \in Applies \ {a} : AtRest(apply[b])
                /\ GoodApply(apply[a], a, hostList, rdpList)
  BY OthersRest
<1>2. mixed' \in BOOLEAN /\ (mixed => mixed') /\ (~mixed' => ~mixed)
  BY DEF LinksInv
<1>3. QED
  BY <1>1, <1>2, ApplyMoves

LEMMA ReadsHostsLinks ==
  ASSUME LinksInv, NEW a \in Applies, ReadsHosts(a)
  PROVE  LinksInv' /\ NewOnesLead
<1>1. apply[a].at = "hosts" /\ Underway(a) /\ UNCHANGED <<hostList, rdpList, mixed>>
  BY DEF ReadsHosts, Underway
<1>2. CASE apply' = [apply EXCEPT ![a].manual = hostList, ![a].read = @ \cup {"manual"}]
  <2> DEFINE k == [apply[a] EXCEPT !.manual = hostList, !.read = @ \cup {"manual"}]
  <2>1. apply' = [apply EXCEPT ![a] = k]
    BY <1>2 DEF LinksInv, ApplyShape
  <2>2. HasFields(k, ApplyFields) /\ k.at = "hosts" /\ k.manual = hostList
    BY <1>1 DEF LinksInv, ApplyShape, HasFields, ApplyFields
  <2> HIDE DEF k
  <2>3. GoodApply(k, a, hostList', rdpList')
    BY <1>1, <2>2 DEF GoodApply
  <2>4. QED
    BY <1>1, <2>1, <2>2, <2>3, GoesOnLinks, ListsStay
<1>3. CASE apply' = [apply EXCEPT ![a].all = NamesIn(hostList) \cup Config, ![a].read = @ \cup {"all"}]
  <2> DEFINE names == NamesIn(hostList) \cup Config
             k == [apply[a] EXCEPT !.all = names, !.read = @ \cup {"all"}]
  <2> HIDE DEF names
  <2>1. apply' = [apply EXCEPT ![a] = k]
    BY <1>3 DEF LinksInv, ApplyShape, names
  <2>2. /\ HasFields(k, ApplyFields) /\ k.at = "hosts" /\ k.manual = apply[a].manual
        /\ "manual" \in k.read => "manual" \in apply[a].read
    BY <1>1 DEF LinksInv, ApplyShape, HasFields, ApplyFields
  <2> HIDE DEF k
  <2>3. GoodApply(apply[a], a, hostList, rdpList) => GoodApply(k, a, hostList', rdpList')
    BY <1>1, <2>2 DEF GoodApply
  <2>4. QED
    BY <1>1, <2>1, <2>2, <2>3, GoesOnLinks, ListsStay
<1>4. QED
  BY <1>2, <1>3 DEF ReadsHosts

\* What the merge yields: entries of the list it read, and one for each host of the
\* file, which leads where that host's bastion went.
LEMMA MergedIs ==
  ASSUME NEW a \in Applies
  PROVE  LET merged == MergedHosts(a) IN
         /\ \A e \in merged.list \ apply[a].manual :
              \E n \in FileHosts : /\ e.by = a
                                   /\ e.to = IF Jump[n] = NoLink THEN NoLink ELSE merged.final[Jump[n]]
         /\ \A n \in FileHosts : Came(merged.list, merged.final[n], a)
<1> DEFINE k == apply[a]
           final == [n \in FileHosts |-> FinalName(n, k.all, k.choice)]
           overwritten == {n \in FileHosts : n \in k.all /\ final[n] = n}
           old(n) == {h \in k.manual : h.name = n}
           to(n) == IF Jump[n] = NoLink THEN NoLink ELSE final[Jump[n]]
           keeps(n) == n \in overwritten /\ \E h \in old(n) : h.secret
           new(n) == Host(final[n], to(n), keeps(n), a)
           list == (k.manual \ UNION {old(n) : n \in overwritten}) \cup {new(n) : n \in FileHosts}
<1>1. MergedHosts(a) = [final |-> final, list |-> list]
  BY DEF MergedHosts
<1>2. MergedHosts(a).final = final /\ MergedHosts(a).list = list
  BY <1>1
<1>3. \A n \in FileHosts : new(n).name = final[n] /\ new(n).to = to(n) /\ new(n).by = a
  BY DEF Host
<1>4. \A e \in list \ k.manual : \E n \in FileHosts : e = new(n)
  OBVIOUS
<1>5. \A n \in FileHosts : new(n) \in list
  OBVIOUS
<1> HIDE DEF list, final, new
<1>6. \A n \in FileHosts : Came(list, final[n], a)
  BY <1>3, <1>5 DEF Came
<1>7. QED
  BY <1>2, <1>3, <1>4, <1>6

LEMMA MergesHostsLinks ==
  ASSUME LinksInv, NEW a \in Applies, MergesHosts(a)
  PROVE  LinksInv' /\ NewOnesLead
<1>1. /\ apply[a].at = "hosts" /\ apply[a].read = {"manual", "all"} /\ Underway(a)
      /\ UNCHANGED <<hostList, rdpList, mixed>>
  BY DEF MergesHosts, Underway
<1>2. CASE Resolves(FileHosts, apply[a].all, apply[a].choice)
  <2>1. PICK merged : merged = MergedHosts(a)
    OBVIOUS
  <2> DEFINE at == IF apply[a].kind = "rdp" THEN "profiles" ELSE "saveHosts"
             k == [apply[a] EXCEPT !.at = at, !.manual = merged.list, !.final = merged.final]
  <2>2. apply' = [apply EXCEPT ![a].at = at, ![a].manual = merged.list, ![a].final = merged.final]
    BY <1>2, <2>1 DEF MergesHosts
  <2> HIDE DEF at
  <2>3. apply' = [apply EXCEPT ![a] = k]
    BY <2>2 DEF LinksInv, ApplyShape
  <2>4. /\ HasFields(k, ApplyFields) /\ k.at = at /\ k.manual = merged.list
        /\ k.final = merged.final /\ k.kind = apply[a].kind
    BY DEF LinksInv, ApplyShape, HasFields, ApplyFields
  <2> HIDE DEF k
  <2>5. /\ at \in {"profiles", "saveHosts"} /\ (at = "saveHosts" => k.kind # "rdp")
    BY <2>4 DEF at
  <2>6. ASSUME apply[a].manual = hostList
        PROVE  LeadsWithin(k.manual, hostList', a) /\ Came(k.manual, k.final[Via], a)
    <3>1. /\ \A e \in merged.list \ apply[a].manual :
               \E n \in FileHosts : /\ e.by = a
                                    /\ e.to = IF Jump[n] = NoLink THEN NoLink ELSE merged.final[Jump[n]]
          /\ \A n \in FileHosts : Came(merged.list, merged.final[n], a)
      BY <2>1, MergedIs
    <3>2. Via \in FileHosts /\ \A n \in FileHosts : Jump[n] # NoLink => Jump[n] \in FileHosts
      BY JumpIsOfTheFile
    <3>3. LeadsWithin(merged.list, apply[a].manual, a)
      BY <3>1, <3>2 DEF LeadsWithin
    <3>4. QED
      BY <1>1, <2>4, <2>6, <3>1, <3>2, <3>3
  <2>7. GoodApply(apply[a], a, hostList, rdpList) => apply[a].manual = hostList
    BY <1>1 DEF GoodApply
  <2>8. GoodApply(apply[a], a, hostList, rdpList) => GoodApply(k, a, hostList', rdpList')
    BY <2>4, <2>5, <2>6, <2>7 DEF GoodApply
  <2>9. QED
    BY <1>1, <2>3, <2>4, <2>5, <2>8, GoesOnLinks, ListsStay
<1>3. CASE ~Resolves(FileHosts, apply[a].all, apply[a].choice)
  <2>1. Refuses(a, "refused") /\ mixed' \in BOOLEAN /\ (mixed => mixed')
    BY <1>1, <1>3 DEF MergesHosts, LinksInv
  <2>2. QED
    BY <1>1, <2>1, RefusesRests
<1>4. QED
  BY <1>2, <1>3

LEMMA MergesProfilesLinks ==
  ASSUME LinksInv, NEW a \in Applies, MergesProfiles(a)
  PROVE  LinksInv' /\ NewOnesLead
<1>1. apply[a].at = "profiles" /\ Underway(a) /\ UNCHANGED <<hostList, rdpList, mixed>>
  BY DEF MergesProfiles, Underway
<1>2. CASE Resolves({Profile}, NamesIn(rdpList), apply[a].choice)
  <2> DEFINE name == FinalName(Profile, NamesIn(rdpList), apply[a].choice)
             old == {c \in rdpList : c.name = name}
             new == Host(name, apply[a].final[Via], \E c \in old : c.secret, a)
             all == (rdpList \ old) \cup {new}
             k == [apply[a] EXCEPT !.at = "saveHosts", !.all = all]
  <2>1. apply' = [apply EXCEPT ![a].at = "saveHosts", ![a].all = all]
    BY <1>2 DEF MergesProfiles
  <2>2. new.by = a /\ new.to = apply[a].final[Via]
    BY DEF Host
  <2> HIDE DEF new
  <2>3. \A e \in all \ rdpList : e.by = a /\ e.to = apply[a].final[Via]
    BY <2>2
  <2> HIDE DEF all
  <2>4. apply' = [apply EXCEPT ![a] = k]
    BY <2>1 DEF LinksInv, ApplyShape
  <2>5. /\ HasFields(k, ApplyFields) /\ k.at = "saveHosts" /\ k.manual = apply[a].manual /\ k.all = all
    BY DEF LinksInv, ApplyShape, HasFields, ApplyFields
  <2> HIDE DEF k
  <2>6. GoodApply(apply[a], a, hostList, rdpList) => GoodApply(k, a, hostList', rdpList')
    BY <1>1, <2>3, <2>5 DEF GoodApply, ProfileLeads
  <2>7. QED
    BY <1>1, <2>4, <2>5, <2>6, GoesOnLinks, ListsStay
<1>3. CASE ~Resolves({Profile}, NamesIn(rdpList), apply[a].choice)
  <2>1. Refuses(a, "refused") /\ mixed' \in BOOLEAN /\ (mixed => mixed')
    BY <1>1, <1>3 DEF MergesProfiles, LinksInv
  <2>2. QED
    BY <1>1, <2>1, RefusesRests
<1>4. QED
  BY <1>2, <1>3

LEMMA SavesHostsLinks ==
  ASSUME LinksInv, NEW a \in Applies, SavesHosts(a)
  PROVE  LinksInv' /\ NewOnesLead
<1>1. /\ apply[a].at = "saveHosts" /\ Underway(a) /\ UNCHANGED <<rdpList, mixed>>
      /\ hostList' = apply[a].manual
  BY DEF SavesHosts, Underway
<1> DEFINE at == IF apply[a].kind = "rdp" THEN "saveProfiles" ELSE "reload"
           k == [apply[a] EXCEPT !.at = at, !.wrote = TRUE]
<1>2. apply' = [apply EXCEPT ![a].at = at, ![a].wrote = TRUE]
  BY DEF SavesHosts
<1> HIDE DEF at
<1>3. apply' = [apply EXCEPT ![a] = k]
  BY <1>2 DEF LinksInv, ApplyShape
<1>4. /\ HasFields(k, ApplyFields) /\ k.at = at /\ k.manual = apply[a].manual /\ k.all = apply[a].all
  BY DEF LinksInv, ApplyShape, HasFields, ApplyFields
<1> HIDE DEF k
<1>5. at \in {"saveProfiles", "reload"} /\ (at = "saveProfiles" => apply[a].kind = "rdp")
  BY DEF at
<1>6. GoodApply(apply[a], a, hostList, rdpList) => GoodApply(k, a, hostList', rdpList')
  BY <1>1, <1>4, <1>5 DEF GoodApply, ProfileLeads
<1>7. LinksInv'
  BY <1>1, <1>3, <1>4, <1>5, <1>6, GoesOnLinks
<1>8. ~mixed => LeadsWithin(apply[a].manual, hostList, a)
  BY <1>1, OthersRest DEF GoodApply
<1>9. NewOnesLead
  BY <1>1, <1>8 DEF NewOnesLead, LeadsWithin, Came
<1>10. QED
  BY <1>7, <1>9

LEMMA SavesProfilesLinks ==
  ASSUME LinksInv, NEW a \in Applies, SavesProfiles(a)
  PROVE  LinksInv' /\ NewOnesLead
<1>1. /\ apply[a].at = "saveProfiles" /\ Underway(a) /\ UNCHANGED <<hostList, mixed>>
      /\ rdpList' = apply[a].all
  BY DEF SavesProfiles, Underway
<1> DEFINE k == [apply[a] EXCEPT !.at = "reload"]
<1>2. apply' = [apply EXCEPT ![a] = k]
  BY DEF SavesProfiles
<1>3. HasFields(k, ApplyFields) /\ k.at = "reload"
  BY DEF LinksInv, ApplyShape, HasFields, ApplyFields
<1> HIDE DEF k
<1>4. GoodApply(k, a, hostList', rdpList')
  BY <1>3, RestIsGood
<1>5. LinksInv'
  BY <1>1, <1>2, <1>3, <1>4, GoesOnLinks
<1>6. ~mixed => ProfileLeads(apply[a], rdpList, a) /\ hostList = apply[a].manual
  BY <1>1, OthersRest DEF GoodApply
<1>7. NewOnesLead
  BY <1>1, <1>6 DEF NewOnesLead, ProfileLeads, Came
<1>8. QED
  BY <1>5, <1>7

LEMMA EndsLinks ==
  ASSUME LinksInv, NEW a \in Applies, CannotSave(a) \/ Applied(a) \/ ImportDone(a)
  PROVE  LinksInv' /\ NewOnesLead
<1>1. CASE CannotSave(a)
  <2>1. Refuses(a, "failed") /\ UNCHANGED <<hostList, rdpList, mixed>>
    BY <1>1 DEF CannotSave
  <2>2. mixed' \in BOOLEAN /\ (mixed => mixed')
    BY <2>1 DEF LinksInv
  <2>3. QED
    BY <2>1, <2>2, RefusesRests
<1>2. CASE Applied(a)
  <2> DEFINE k == [NoApply EXCEPT !.at = "answer", !.wrote = TRUE]
  <2>1. /\ apply[a].at = "reload" /\ Underway(a) /\ apply' = [apply EXCEPT ![a] = k]
        /\ UNCHANGED <<hostList, rdpList, mixed>>
    BY <1>2 DEF Applied, Underway
  <2>2. HasFields(k, ApplyFields) /\ k.at = "answer"
    BY DEF NoApply, HasFields, ApplyFields
  <2> HIDE DEF k
  <2>3. GoodApply(k, a, hostList', rdpList')
    BY <2>2, RestIsGood
  <2>4. QED
    BY <2>1, <2>2, <2>3, GoesOnLinks, ListsStay
<1>3. CASE ImportDone(a)
  <2> DEFINE k == [apply[a] EXCEPT !.at = "done"]
  <2>1. apply' = [apply EXCEPT ![a] = k] /\ UNCHANGED <<hostList, rdpList, mixed>>
    BY <1>3 DEF ImportDone
  <2>2. HasFields(k, ApplyFields) /\ k.at = "done"
    BY DEF LinksInv, ApplyShape, HasFields, ApplyFields
  <2> HIDE DEF k
  <2>3. QED
    BY <2>1, <2>2, RestsThen DEF AtRest
<1>4. QED
  BY <1>1, <1>2, <1>3

\* Another handler's entry has no link; if it comes into an apply, `mixed` says so.
LEMMA OtherSavesLinks == ASSUME LinksInv, OtherSaves PROVE LinksInv' /\ NewOnesLead
<1>1. /\ UNCHANGED apply
      /\ mixed' = (mixed \/ \E a \in Applies : Underway(a))
  BY DEF OtherSaves
<1>2. \A e \in (hostList' \ hostList) \cup (rdpList' \ rdpList) : e.to = NoLink
  BY DEF OtherSaves, Host
<1>3. ASSUME ~mixed' PROVE Unmixed'
  <2>1. Unmixed /\ \A a \in Applies : ~Underway(a)
    BY <1>1, <1>3 DEF LinksInv
  <2>2. \A a \in Applies : AtRest(apply[a])
    BY <2>1 DEF Underway, AtRest
  <2>3. \A a \in Applies : apply' = apply /\ GoodApply(apply[a], a, hostList', rdpList')
    BY <1>1, <2>2, RestIsGood
  <2>4. QED
    BY <1>1, <2>1, <2>3 DEF Unmixed, OneUnderway, Underway, ReadIsSo, HostsLead, ViaCame,
       ProfilesLead, GoodApply
<1>4. LinksInv'
  BY <1>1, <1>3 DEF LinksInv, ApplyShape, NoneIsReadYet
<1>5. QED
  BY <1>2, <1>4 DEF NewOnesLead

LEMMA ImportNextLinks == ASSUME LinksInv, ImportNext PROVE LinksInv' /\ NewOnesLead
<1>1. CASE CancelImport
  BY <1>1, NoApplyMoves DEF CancelImport
<1>2. CASE OtherSaves
  BY <1>2, OtherSavesLinks
<1>3. ASSUME NEW p \in 1..MaxPreviews,
             \/ \E kind \in {"ssh", "rdp"} : StartImport(p, kind)
             \/ PickNothing(p) \/ Previewed(p) \/ ShowQuestion(p)
      PROVE  LinksInv' /\ NewOnesLead
  <2>1. UNCHANGED <<apply, mixed, hostList, rdpList>>
    BY <1>3 DEF StartImport, PickNothing, Previewed, ShowQuestion
  <2>2. QED
    BY <2>1, NoApplyMoves
<1>4. ASSUME NEW a \in Applies,
             \/ SubmitImport(a) \/ TakesFile(a) \/ ReadsHosts(a) \/ MergesHosts(a) \/ MergesProfiles(a)
             \/ SavesHosts(a) \/ SavesProfiles(a) \/ CannotSave(a) \/ Applied(a) \/ ImportDone(a)
      PROVE  LinksInv' /\ NewOnesLead
  BY <1>4, SubmitLinks, TakesFileLinks, ReadsHostsLinks, MergesHostsLinks, MergesProfilesLinks,
     SavesHostsLinks, SavesProfilesLinks, EndsLinks
<1>5. QED
  BY <1>1, <1>2, <1>3, <1>4 DEF ImportNext

LEMMA PartsNextLinks == LinksInv /\ [PartsNext]_partsVars => LinksInv' /\ NewOnesLead
<1> SUFFICES ASSUME LinksInv, [PartsNext]_partsVars PROVE LinksInv' /\ NewOnesLead
  OBVIOUS
<1>1. CASE ImportNext
  BY <1>1, ImportNextLinks
<1>2. CASE UNCHANGED importVars
  BY <1>2, NoApplyMoves DEF importVars
<1>3. QED
  BY <1>1, <1>2 DEF PartsNext, partsVars

\* As long as nothing comes into an apply, what it is to write leads to hosts it
\* writes, which it writes first.
THEOREM LinksInvariance == PartsSpec => []LinksInv
<1>1. PartsInit => LinksInv
  BY LinksInit DEF PartsInit
<1>2. LinksInv /\ [PartsNext]_partsVars => LinksInv'
  BY PartsNextLinks
<1>3. QED
  BY <1>1, <1>2, PTL DEF PartsSpec, partsVars

\* "a profile's tunnel host and a host's ProxyJump follow whatever the hosts were
\* renamed to", for any file without dangling links, any lists and any choices
\* (ipc/connectionBundles.ts).
THEOREM LinksLead == PartsSpec => ImportedLinksLead
<1>1. LinksInv /\ [PartsNext]_partsVars => [NewOnesLead]_importVars
  BY PartsNextLinks
<1>2. QED
  BY <1>1, LinksInvariance, PTL DEF PartsSpec, partsVars, ImportedLinksLead, NewOnesLead

-----------------------------------------------------------------------------
(* The kept folders: FoldersIInv is inductive *)

LEMMA FoldersInitIInv == FoldersInit => FoldersIInv
<1> SUFFICES ASSUME FoldersInit PROVE FoldersIInv
  OBVIOUS
<1>1. FoldersTypeOK
  BY EmptySeq DEF FoldersInit, FoldersTypeOK, Failures
<1>2. ListsAgree
  BY DEF FoldersInit, ListsAgree
<1>3. \A f \in wanted : WillBeKept(f)
  BY EmptySeq DEF FoldersInit, WillBeKept, BaseList
<1>4. QED
  BY <1>1, <1>2, <1>3 DEF FoldersIInv

\* A change that waits comes after all that wait already.
LEMMA WaitsLast ==
  ASSUME FoldersTypeOK, NEW change \in FolderChanges, waiting' = Append(waiting, change)
  PROVE  /\ waiting' \in Seq(FolderChanges) /\ waiting' # <<>>
         /\ Len(waiting) \in Nat /\ Len(waiting') = Len(waiting) + 1
         /\ \A i \in 1..Len(waiting) : waiting'[i] = waiting[i]
         /\ waiting'[Len(waiting')] = change
BY AppendProperties, LenProperties DEF FoldersTypeOK

\* A list that is new is sent after all others.
LEMMA SentLast ==
  ASSUME FoldersTypeOK, NEW list \in SUBSET Folders,
         writes' = IF list = kept THEN writes ELSE Append(writes, list)
  PROVE  /\ writes' \in Seq(SUBSET Folders)
         /\ list # kept => writes' # <<>> /\ writes'[Len(writes')] = list
BY AppendProperties, LenProperties DEF FoldersTypeOK

\* A change of the list, made at once or made to wait, keeps the lists in step; it
\* loses no folder but those it removes, and those it keeps are kept.
LEMMA ChangeIInv ==
  ASSUME FoldersTypeOK, ListsAgree, NEW change \in FolderChanges, Changes(change),
         UNCHANGED <<saved, swallowed>>
  PROVE  /\ waiting' \in Seq(FolderChanges) /\ writes' \in Seq(SUBSET Folders)
         /\ kept' \in SUBSET Folders /\ ListsAgree'
         /\ \A f \in Folders :
              /\ WillBeKept(f) /\ (change.do = "keep" \/ f \notin change.names) => WillBeKept(f)'
              /\ change.do = "keep" /\ f \in change.names => WillBeKept(f)'
<1>0. change.do \in {"keep", "remove"} /\ change.names \in SUBSET Folders
  BY DEF FolderChanges
<1>1. CASE loading = "done"
  <2>1. /\ kept' = Updated(kept, change) /\ UNCHANGED <<loading, waiting>>
        /\ writes' = IF kept' = kept THEN writes ELSE Append(writes, kept')
    BY <1>1 DEF Changes
  <2>2. kept' \in SUBSET Folders
    BY <1>0, <2>1 DEF Updated, FoldersTypeOK
  <2>3. /\ writes' \in Seq(SUBSET Folders)
        /\ kept' # kept => writes' # <<>> /\ writes'[Len(writes')] = kept'
        /\ kept' = kept => writes' = writes
    BY <2>1, <2>2, SentLast
  <2>4. ListsAgree'
    BY <1>1, <2>1, <2>3 DEF ListsAgree
  <2>5. waiting = <<>> /\ waiting' = <<>>
    BY <1>1, <2>1 DEF ListsAgree
  <2>6. \A f \in Folders : (WillBeKept(f) => f \in kept) /\ (f \in kept' => WillBeKept(f)')
    BY <1>1, <2>1, <2>5, EmptySeq DEF WillBeKept, BaseList
  <2>7. QED
    BY <1>0, <2>1, <2>2, <2>3, <2>4, <2>6 DEF Updated, FoldersTypeOK
<1>2. CASE loading # "done"
  <2>1. /\ waiting' = Append(waiting, change) /\ UNCHANGED <<kept, writes>>
        /\ loading' = IF loading = "no" THEN "reading" ELSE loading
    BY <1>2 DEF Changes
  <2>2. /\ waiting' \in Seq(FolderChanges) /\ waiting' # <<>>
        /\ Len(waiting) \in Nat /\ Len(waiting') = Len(waiting) + 1
        /\ \A i \in 1..Len(waiting) : waiting'[i] = waiting[i]
        /\ waiting'[Len(waiting')] = change
    BY <2>1, WaitsLast
  <2>3. ListsAgree' /\ BaseList' = BaseList
    BY <1>2, <2>1, <2>2 DEF ListsAgree, BaseList
  <2>4. PICK n \in Nat : n = Len(waiting) + 1
    BY <2>2
  <2>5. \A f : /\ \A i \in 1..Len(waiting) : /\ Removes(i, f)' <=> Removes(i, f)
                                             /\ Keeps(i, f)' <=> Keeps(i, f)
               /\ Removes(n, f)' <=> change.do = "remove" /\ f \in change.names
               /\ Keeps(n, f)' <=> change.do = "keep" /\ f \in change.names
    BY <2>2, <2>4 DEF Removes, Keeps
  <2>6. ASSUME NEW f \in Folders, WillBeKept(f), change.do = "keep" \/ f \notin change.names
        PROVE  WillBeKept(f)'
    <3>1. ~Removes(n, f)'
      BY <1>0, <2>5, <2>6
    <3>2. Len(waiting') = n /\ \A j \in 1..n : j \in 1..Len(waiting) \/ j = n
      BY <2>2, <2>4
    <3>3. CASE f \in BaseList /\ \A j \in 1..Len(waiting) : ~Removes(j, f)
      BY <2>3, <2>5, <3>1, <3>2, <3>3 DEF WillBeKept
    <3>4. CASE \E i \in 1..Len(waiting) : Keeps(i, f) /\ \A j \in i..Len(waiting) : ~Removes(j, f)
      <4>1. PICK i \in 1..Len(waiting) : Keeps(i, f) /\ \A j \in i..Len(waiting) : ~Removes(j, f)
        BY <3>4
      <4>2. i \in 1..n /\ \A j \in i..n : (j \in i..Len(waiting) /\ j \in 1..Len(waiting)) \/ j = n
        BY <2>2, <2>4
      <4>3. QED
        BY <2>5, <3>1, <3>2, <4>1, <4>2 DEF WillBeKept
    <3>5. QED
      BY <2>6, <3>3, <3>4 DEF WillBeKept
  <2>7. ASSUME NEW f \in Folders, change.do = "keep", f \in change.names
        PROVE  WillBeKept(f)'
    <3>1. Keeps(n, f)' /\ ~Removes(n, f)'
      BY <2>5, <2>7
    <3>2. Len(waiting') = n /\ n \in 1..n /\ \A j \in n..n : j = n
      BY <2>2, <2>4
    <3>3. QED
      BY <3>1, <3>2 DEF WillBeKept
  <2>8. QED
    BY <2>1, <2>2, <2>3, <2>6, <2>7 DEF FoldersTypeOK
<1>3. QED
  BY <1>1, <1>2

LEMMA NamesAreFolders ==
  ASSUME FoldersTypeOK, NEW cards \in SUBSET Cards
  PROVE  [do |-> "keep", names |-> FolderNames(cards)] \in FolderChanges
BY DEF FoldersTypeOK, FolderNames, FolderChanges

\* The list is asked for or applied to, while cards stay where they are.
LEMMA KeepAllIInv ==
  ASSUME FoldersIInv, NEW cards \in SUBSET Cards, KeepAll(cards),
         shown' \in SUBSET Cards, UNCHANGED <<saved, folderOf, wanted, swallowed>>
  PROVE  FoldersIInv'
<1>1. PICK change \in FolderChanges : change.do = "keep" /\ Changes(change)
  BY NamesAreFolders DEF KeepAll, FoldersIInv
<1>2. /\ waiting' \in Seq(FolderChanges) /\ writes' \in Seq(SUBSET Folders)
      /\ kept' \in SUBSET Folders /\ ListsAgree'
      /\ \A f \in Folders : WillBeKept(f) => WillBeKept(f)'
  BY <1>1, ChangeIInv DEF FoldersIInv
<1>3. QED
  BY <1>2 DEF FoldersIInv, FoldersTypeOK

LEMMA ReadsSavedIInv == ASSUME FoldersIInv, ReadsSaved PROVE FoldersIInv'
<1>1. /\ loading = "reading" /\ loading' = (IF waiting = <<>> THEN "done" ELSE "read")
      /\ \/ kept' = saved /\ UNCHANGED swallowed
         \/ UNCHANGED kept /\ swallowed' = "lost"
      /\ UNCHANGED <<waiting, writes, saved, shown, folderOf, wanted>>
  BY DEF ReadsSaved
<1>2. FoldersTypeOK'
  BY <1>1 DEF FoldersIInv, FoldersTypeOK, Failures
<1>3. ListsAgree'
  BY <1>1 DEF FoldersIInv, ListsAgree
<1>4. swallowed' # "lost" => BaseList' = BaseList /\ UNCHANGED swallowed
  BY <1>1 DEF BaseList
<1>5. QED
  BY <1>1, <1>2, <1>3, <1>4 DEF FoldersIInv, WillBeKept, Keeps, Removes

\* The first that waits is applied.
LEMMA CatchesIInv == ASSUME FoldersIInv, Catches PROVE FoldersIInv'
<1>1. PICK list : list = Updated(kept, Head(waiting))
  OBVIOUS
<1>2. /\ loading = "read" /\ kept' = list
      /\ writes' = IF list = kept THEN writes ELSE Append(writes, list)
      /\ waiting' = Tail(waiting)
      /\ loading' = IF Len(waiting) = 1 THEN "done" ELSE "read"
      /\ UNCHANGED <<saved, shown, folderOf, wanted, swallowed>>
  BY <1>1 DEF Catches
<1>3. /\ waiting \in Seq(FolderChanges) /\ waiting # <<>> /\ FoldersTypeOK
  BY <1>2 DEF FoldersIInv, FoldersTypeOK, ListsAgree
<1>4. /\ Head(waiting) \in FolderChanges /\ Head(waiting) = waiting[1]
      /\ waiting' \in Seq(FolderChanges) /\ Len(waiting) \in Nat \ {0}
      /\ Len(waiting') = Len(waiting) - 1
      /\ \A i \in 1..Len(waiting') : waiting'[i] = waiting[i + 1]
  BY <1>2, <1>3, HeadTailProperties, EmptySeq
<1>5. list \in SUBSET Folders
  BY <1>1, <1>3, <1>4 DEF Updated, FoldersTypeOK, FolderChanges
<1>6. /\ writes' \in Seq(SUBSET Folders)
      /\ list # kept => writes' # <<>> /\ writes'[Len(writes')] = list
      /\ list = kept => writes' = writes
  BY <1>2, <1>3, <1>5, SentLast
<1>7. FoldersTypeOK'
  BY <1>2, <1>3, <1>4, <1>5, <1>6 DEF FoldersTypeOK
<1>8. ListsAgree'
  <2>1. waiting' = <<>> <=> Len(waiting) = 1
    BY <1>4, EmptySeq
  <2>2. QED
    BY <1>2, <1>6, <2>1 DEF FoldersIInv, ListsAgree
<1>9. ASSUME NEW f \in Folders, WillBeKept(f)
      PROVE  WillBeKept(f)'
  <2>1. /\ \A i \in 1..Len(waiting') : /\ Removes(i, f)' <=> Removes(i + 1, f)
                                       /\ Keeps(i, f)' <=> Keeps(i + 1, f)
        /\ BaseList = kept /\ BaseList' = list
    BY <1>2, <1>4 DEF Removes, Keeps, BaseList
  <2>2. /\ Removes(1, f) \/ (f \in kept => f \in list)
        /\ Keeps(1, f) => f \in list
    BY <1>1, <1>4 DEF Removes, Keeps, Updated, FolderChanges
  <2>3. CASE f \in kept /\ \A j \in 1..Len(waiting) : ~Removes(j, f)
    <3>1. f \in list /\ \A j \in 1..Len(waiting') : ~Removes(j, f)'
      BY <1>4, <2>1, <2>2, <2>3
    <3>2. QED
      BY <2>1, <3>1 DEF WillBeKept
  <2>4. CASE \E i \in 1..Len(waiting) : Keeps(i, f) /\ \A j \in i..Len(waiting) : ~Removes(j, f)
    <3>1. PICK i \in 1..Len(waiting) : Keeps(i, f) /\ \A j \in i..Len(waiting) : ~Removes(j, f)
      BY <2>4
    <3>2. CASE i = 1
      <4>1. f \in list /\ \A j \in 1..Len(waiting') : ~Removes(j, f)'
        BY <1>4, <2>1, <2>2, <3>1, <3>2
      <4>2. QED
        BY <2>1, <4>1 DEF WillBeKept
    <3>3. CASE i # 1
      <4>1. PICK k \in 1..Len(waiting') : k + 1 = i
        <5>1. i - 1 \in 1..Len(waiting') /\ (i - 1) + 1 = i
          BY <1>4, <3>1, <3>3
        <5>2. QED
          BY <5>1
      <4>2. Keeps(k, f)'
        BY <2>1, <3>1, <4>1
      <4>3. ASSUME NEW j \in k..Len(waiting')
            PROVE  ~Removes(j, f)'
        <5>1. j \in 1..Len(waiting') /\ j + 1 \in i..Len(waiting)
          BY <1>4, <3>1, <4>1
        <5>2. QED
          BY <2>1, <3>1, <5>1
      <4>4. QED
        BY <4>2, <4>3 DEF WillBeKept
    <3>4. QED
      BY <3>2, <3>3
  <2>5. QED
    BY <1>9, <2>1, <2>3, <2>4 DEF WillBeKept
<1>10. QED
  BY <1>2, <1>3, <1>7, <1>8, <1>9 DEF FoldersIInv, FoldersTypeOK

\* A write is dealt with, taken or refused.
LEMMA WriteIInv ==
  ASSUME FoldersIInv, writes # <<>>, writes' = Tail(writes), saved' \in SUBSET Folders,
         swallowed' \in Failures, swallowed = "lost" => swallowed' = "lost",
         swallowed' = "nothing" => saved' = Head(writes),
         UNCHANGED <<loading, waiting, kept, shown, folderOf, wanted>>
  PROVE  FoldersIInv'
<1>1. writes \in Seq(SUBSET Folders) /\ FoldersTypeOK /\ ListsAgree
  BY DEF FoldersIInv, FoldersTypeOK
<1>2. /\ writes' \in Seq(SUBSET Folders)
      /\ Head(writes) = writes[1] /\ Len(writes) \in Nat \ {0}
      /\ Len(writes') = Len(writes) - 1
      /\ \A i \in 1..Len(writes') : writes'[i] = writes[i + 1]
  BY <1>1, HeadTailProperties, EmptySeq
<1>3. FoldersTypeOK'
  BY <1>1, <1>2 DEF FoldersTypeOK
<1>4. /\ loading \in {"read", "done"}
      /\ swallowed # "lost" => kept = writes[Len(writes)]
  BY <1>1 DEF ListsAgree
<1>5. ASSUME swallowed' # "lost"
      PROVE  /\ writes' = <<>> /\ swallowed' = "nothing" => kept = saved'
             /\ writes' # <<>> => kept = writes'[Len(writes')]
  <2>1. kept = writes[Len(writes)]
    BY <1>4, <1>5
  <2>2. CASE writes' = <<>>
    <3>0. Len(writes') = 0
      BY <2>2, EmptySeq
    <3>1. Len(writes) = 1
      BY <1>2, <3>0
    <3>2. kept = writes[1]
      BY <2>1, <3>1
    <3>3. swallowed' = "nothing" => saved' = writes[1]
      BY <1>2
    <3>4. QED
      BY <2>2, <3>2, <3>3
  <2>3. CASE writes' # <<>>
    <3>1. Len(writes') \in Nat \ {0}
      BY <1>2, <2>3, EmptySeq
    <3>2. Len(writes') \in 1..Len(writes') /\ Len(writes') + 1 = Len(writes)
      BY <1>2, <3>1
    <3>3. QED
      BY <1>2, <2>1, <2>3, <3>2
  <2>4. QED
    BY <2>2, <2>3
<1>6. ListsAgree' /\ BaseList' = BaseList
  BY <1>1, <1>4, <1>5 DEF ListsAgree, BaseList
<1>7. QED
  BY <1>3, <1>6 DEF FoldersIInv, WillBeKept, Keeps, Removes

LEMMA WriteArrivesIInv == ASSUME FoldersIInv, WriteArrives PROVE FoldersIInv'
<1>1. writes \in Seq(SUBSET Folders) /\ writes # <<>> /\ swallowed \in Failures
  BY DEF FoldersIInv, FoldersTypeOK, WriteArrives
<1>2. saved' \in SUBSET Folders /\ saved' = Head(writes)
  BY <1>1, HeadTailProperties DEF WriteArrives
<1>3. QED
  BY <1>1, <1>2, WriteIInv DEF WriteArrives, Failures

\* A refused write leaves the list as it is, for this run.
LEMMA WriteRefusedIInv == ASSUME FoldersIInv, WriteRefused PROVE FoldersIInv'
<1>1. saved' \in SUBSET Folders /\ swallowed' \in Failures /\ swallowed' # "nothing"
  BY DEF FoldersIInv, FoldersTypeOK, WriteRefused, Failures
<1>2. QED
  BY <1>1, WriteIInv DEF WriteRefused

LEMMA MoveIInv ==
  ASSUME FoldersIInv, NEW c \in Cards, NEW f \in Folders \cup {NoFolder}, Move(c, f)
  PROVE  FoldersIInv'
<1>1. /\ c \in shown /\ folderOf' = [folderOf EXCEPT ![c] = f]
      /\ wanted' = wanted \cup ({f} \ {NoFolder}) /\ UNCHANGED <<saved, shown, swallowed>>
  BY DEF Move
<1>2. PICK change : /\ change = [do |-> "keep", names |-> {folderOf'[d] : d \in shown} \ {NoFolder}]
                    /\ Changes(change)
  BY DEF Move
<1>3. /\ folderOf' \in [Cards -> Folders \cup {NoFolder}] /\ folderOf'[c] = f
      /\ shown \in SUBSET Cards
  BY <1>1 DEF FoldersIInv, FoldersTypeOK
<1>4. /\ change \in FolderChanges /\ change.do = "keep"
      /\ {f} \ {NoFolder} \subseteq change.names
  BY <1>1, <1>2, <1>3 DEF FolderChanges
<1>5. /\ waiting' \in Seq(FolderChanges) /\ writes' \in Seq(SUBSET Folders)
      /\ kept' \in SUBSET Folders /\ ListsAgree'
      /\ \A g \in Folders : (WillBeKept(g) => WillBeKept(g)')
                          /\ (g \in change.names => WillBeKept(g)')
  BY <1>1, <1>2, <1>4, ChangeIInv DEF FoldersIInv
<1>6. wanted' \in SUBSET Folders
  BY <1>1 DEF FoldersIInv, FoldersTypeOK
<1>7. FoldersTypeOK'
  BY <1>1, <1>3, <1>5, <1>6 DEF FoldersIInv, FoldersTypeOK
<1>8. QED
  BY <1>1, <1>4, <1>5, <1>6, <1>7 DEF FoldersIInv

LEMMA CreateFolderIInv ==
  ASSUME FoldersIInv, NEW f \in Folders, CreateFolder(f)
  PROVE  FoldersIInv'
<1>1. PICK change : change = [do |-> "keep", names |-> {f}] /\ Changes(change)
  BY DEF CreateFolder
<1>2. wanted' = wanted \cup {f} /\ UNCHANGED <<saved, shown, folderOf, swallowed>>
  BY DEF CreateFolder
<1>3. change \in FolderChanges /\ change.do = "keep" /\ change.names = {f}
  BY <1>1 DEF FolderChanges
<1>4. /\ waiting' \in Seq(FolderChanges) /\ writes' \in Seq(SUBSET Folders)
      /\ kept' \in SUBSET Folders /\ ListsAgree'
      /\ \A g \in Folders : (WillBeKept(g) => WillBeKept(g)')
                          /\ (g \in change.names => WillBeKept(g)')
  BY <1>1, <1>2, <1>3, ChangeIInv DEF FoldersIInv
<1>5. QED
  BY <1>2, <1>3, <1>4 DEF FoldersIInv, FoldersTypeOK

LEMMA RemoveFolderIInv ==
  ASSUME FoldersIInv, NEW f \in Folders, RemoveFolder(f)
  PROVE  FoldersIInv'
<1>1. PICK change : change = [do |-> "remove", names |-> {f}] /\ Changes(change)
  BY DEF RemoveFolder
<1>2. wanted' = wanted \ {f} /\ UNCHANGED <<saved, shown, folderOf, swallowed>>
  BY DEF RemoveFolder
<1>3. change \in FolderChanges /\ change.names = {f}
  BY <1>1 DEF FolderChanges
<1>4. /\ waiting' \in Seq(FolderChanges) /\ writes' \in Seq(SUBSET Folders)
      /\ kept' \in SUBSET Folders /\ ListsAgree'
      /\ \A g \in Folders : WillBeKept(g) /\ g # f => WillBeKept(g)'
  BY <1>1, <1>2, <1>3, ChangeIInv DEF FoldersIInv
<1>5. QED
  BY <1>2, <1>4 DEF FoldersIInv, FoldersTypeOK

\* The app starts again with what the settings hold.
LEMMA RestartIInv == ASSUME FoldersIInv, Restart PROVE FoldersIInv'
<1>1. /\ loading' = "no" /\ kept' = {} /\ shown' = {} /\ waiting' = <<>> /\ writes' = <<>>
      /\ UNCHANGED <<saved, folderOf, wanted>>
      /\ \/ swallowed' = "lost"
         \/ writes = <<>> /\ waiting = <<>> /\ swallowed = "nothing" /\ swallowed' = "nothing"
  BY DEF Restart
<1>2. FoldersTypeOK'
  BY <1>1, EmptySeq DEF FoldersIInv, FoldersTypeOK, Failures
<1>3. ListsAgree'
  BY <1>1 DEF ListsAgree
<1>4. ASSUME swallowed' # "lost"
      PROVE  BaseList' = BaseList /\ UNCHANGED <<waiting, swallowed>>
  BY <1>1, <1>4 DEF FoldersIInv, ListsAgree, BaseList
<1>5. QED
  BY <1>1, <1>2, <1>3, <1>4 DEF FoldersIInv, WillBeKept, Keeps, Removes

LEMMA FoldersNextIInv == FoldersIInv /\ [FoldersNext]_folderVars => FoldersIInv'
<1> SUFFICES ASSUME FoldersIInv, [FoldersNext]_folderVars PROVE FoldersIInv'
  OBVIOUS
<1>1. CASE Mount \/ ListArrives
  <2>1. PICK cards \in SUBSET Cards : KeepAll(cards) /\ shown' \in SUBSET Cards
    BY <1>1 DEF Mount, ListArrives, FoldersIInv, FoldersTypeOK
  <2>2. UNCHANGED <<saved, folderOf, wanted, swallowed>>
    BY <1>1 DEF Mount, ListArrives
  <2>3. QED
    BY <2>1, <2>2, KeepAllIInv
<1>2. CASE ReadsSaved \/ Catches \/ WriteArrives \/ WriteRefused \/ Restart
  BY <1>2, ReadsSavedIInv, CatchesIInv, WriteArrivesIInv, WriteRefusedIInv, RestartIInv
<1>3. CASE \E f \in Folders : CreateFolder(f) \/ RemoveFolder(f)
  BY <1>3, CreateFolderIInv, RemoveFolderIInv
<1>4. CASE \E c \in Cards, f \in Folders \cup {NoFolder} : Move(c, f)
  BY <1>4, MoveIInv
<1>5. CASE UNCHANGED folderVars
  BY <1>5 DEF folderVars, FoldersIInv, FoldersTypeOK, ListsAgree, BaseList, WillBeKept,
     Keeps, Removes
<1>6. QED
  BY <1>1, <1>2, <1>3, <1>4, <1>5 DEF FoldersNext

\* Every folder the user made or filled and did not remove is in the list that
\* will be saved, or will be put into it by a change that waits, unless a reading
\* failed or the app ended with a list unsaved; a refused write costs the settings
\* a list but not the list itself (dashboardLayout.ts).
THEOREM FoldersInvariance == FoldersSpec => []FoldersIInv
<1>1. FoldersInit => FoldersIInv
  BY FoldersInitIInv
<1>2. FoldersIInv /\ [FoldersNext]_folderVars => FoldersIInv'
  BY FoldersNextIInv
<1>3. QED
  BY <1>1, <1>2, PTL DEF FoldersSpec

\* Once nothing is on its way, the settings hold every folder the user made or
\* filled and did not remove, however early it was changed ("Every change waits
\* for the saved list, so an early one can't overwrite it"); after a refused
\* write the list still does ("Kept for this run only"). Nothing is said of the
\* runs in which a failed reading or an early end has lost a list.
THEOREM FoldersStayKept == FoldersSpec => []FoldersAreKept
<1>1. FoldersIInv => FoldersAreKept
  <2> SUFFICES ASSUME FoldersIInv, loading \in {"no", "done"}, waiting = <<>>, writes = <<>>
               PROVE  /\ swallowed = "nothing" => wanted \subseteq saved
                      /\ swallowed = "write" => wanted \subseteq kept
    BY DEF FoldersAreKept
  <2>1. swallowed # "lost" => \A f \in wanted : f \in BaseList
    BY EmptySeq DEF FoldersIInv, WillBeKept
  <2>2. QED
    BY <2>1 DEF FoldersIInv, ListsAgree, BaseList
<1>2. QED
  BY <1>1, FoldersInvariance, PTL
=============================================================================
