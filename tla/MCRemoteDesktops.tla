-------------------------- MODULE MCRemoteDesktops --------------------------
(* The ways a remote desktop is used, each explored on its own: launched in *)
(* the system's client, shown in a tab, and with files copied over it.     *)
EXTENDS RdpLaunch, Sequences, TLC

CONSTANTS Tabs, Targets, Certs, None, Target, Presents, AsksFirst, TunnelledTabs,
          MaxAttempts, Files, MaxBatches, MaxSaves, MaxUploads, Parts, c1, c2

VARIABLES part,
          tab, attempt, session, shake, known, queue, checking, forgets, writing, misread,
          remote, batch, save, paused, upload, settled, sent, picked, dragging

tabVars == <<tab, attempt, session, shake, known, queue, checking, forgets, writing, misread>>
fileVars == <<remote, batch, save, paused, upload, settled, sent, picked, dragging>>

InTab == INSTANCE RdpTab WITH Tunnelled <- TunnelledTabs
Copying == INSTANCE RdpFiles

MCAddress == "direct" :> "h" @@ "behind" :> "loopback"
MCTarget == "one" :> "g" @@ "two" :> "h"
MCPresents == "g" :> c1 @@ "h" :> c1

PartsInit ==
    /\ part \in Parts /\ Init /\ InTab!Init /\ Copying!Init
    /\ part # "launch" => store["h"] = "none"
    /\ part # "tab" => known = [g \in Targets |-> None]
    /\ store["loopback"] = "none"

PartsNext ==
    \/ part = "launch" /\ Next /\ UNCHANGED <<part, tabVars, fileVars>>
    \/ part = "tab" /\ InTab!Next /\ UNCHANGED <<part, vars, fileVars>>
    \/ part = "files" /\ Copying!Next /\ UNCHANGED <<part, vars, tabVars>>

PartsSafety == PartsInit /\ [][PartsNext]_<<part, vars, tabVars, fileVars>>
PartsSpec == PartsSafety /\ Fairness /\ Copying!Fairness
TabSpec == PartsSafety /\ InTab!Fairness

(* RdpTab's and RdpFiles's properties, stated there. *)
SessionGoesWithItsTab == InTab!SessionGoesWithItsTab
ClosedTabFreesSession == InTab!ClosedTabFreesSession
KeepsWhatItLearned == InTab!KeepsWhatItLearned
NextOneIsTrusted == InTab!NextOneIsTrusted
AttemptsSettle == InTab!AttemptsSettle
SyncComesBack == Copying!SyncComesBack
PausedWhileFetching == Copying!PausedWhileFetching
OneSaveAtATime == Copying!OneSaveAtATime
SavedMeansSaved == Copying!SavedMeansSaved
CopiedMeansCopied == Copying!CopiedMeansCopied
=============================================================================
