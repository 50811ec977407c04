---------------------------- MODULE MCSavedFiles ----------------------------
(* What the app keeps in its configuration directory, each part explored on *)
(* its own: the manual hosts, the remote desktop profiles, an import into    *)
(* both, and the folders their cards are kept in.                            *)
EXTENDS SavedHosts, ConnectionImport, KeptFolders, TLC

CONSTANTS Ids, Parts

ASSUME DesktopsAreAFile == "desktops" \in Files

VARIABLES part,
          request, tiles, editor, together

manualVars == <<call, listed, locked, dialog, crashes, refusals, raced>>
profileVars == <<request, tiles, editor, together>>

Desktops == INSTANCE SavedDesktops

MCFirstLists ==
    "hosts" :> {[Entry("n", "plain", "manual") EXCEPT !.jump = TRUE]}
    @@ "desktops" :> {[id |-> 1, pw |-> TRUE]}
MCJump == "a" :> "b" @@ "b" :> NoLink

PartsInit ==
    /\ part \in Parts
    /\ HostsInit /\ ImportInit /\ Desktops!DesktopsInit /\ FoldersInit
    /\ part # "hosts" => ~locked
    /\ part # "import" => hostList = {} /\ rdpList = {}
    /\ part # "folders" => saved = {}
    /\ part # "desktops" => tiles = {}

PartsNext ==
    \/ part = "hosts" /\ HostsNext /\ UNCHANGED <<part, importVars, profileVars, folderVars>>
    \/ part = "desktops" /\ Desktops!DesktopsNext
                         /\ UNCHANGED <<part, manualVars, importVars, folderVars>>
    \/ part = "import" /\ ImportNext /\ UNCHANGED <<part, hostVars, profileVars, folderVars>>
    \/ part = "folders" /\ FoldersNext
                        /\ UNCHANGED <<part, hostVars, importVars, profileVars>>

PartsSpec == PartsInit /\ [][PartsNext]_<<part, hostVars, importVars, profileVars, folderVars>>

(* SavedDesktops's properties, stated there. *)
TilesFollowTheFile == Desktops!TilesFollowTheFile
StoredPasswordsStay == PasswordsGoForAReason /\ Desktops!DesktopsKeepPasswords
=============================================================================
