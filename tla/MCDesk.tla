------------------------------- MODULE MCDesk -------------------------------
(* The window and what it keeps of automations, each part explored on its   *)
(* own: what the content shows, the library of automations and snippets,    *)
(* and the cards and panel of their runs.                                   *)
EXTENDS Desk, AutomationLibrary

CONSTANTS Parts, MaxStarts, MaxStops

VARIABLES
    part,
    asks, runs, canceled, calls, events, answers, cards, panel, dialog, starts, stops

cardVars == <<asks, runs, canceled, calls, events, answers, cards, panel, dialog, starts, stops>>

(* "a (2)", an import once, has a snippet; "b" runs "a (2)". *)
MCFirst ==
    {[snippets |-> {1},
      automations |-> <<"a", 2>> :> [uses |-> {1}, calls |-> {}, asks |-> FALSE]
                      @@ <<"b", 1>> :> [uses |-> {}, calls |-> {<<<<"a", 2>>, FALSE>>}, asks |-> FALSE]]}

Cards == INSTANCE AutomationCards

PartsInit ==
    /\ part \in Parts
    /\ Init /\ LibraryInit /\ Cards!CardsInit
    /\ part # "desk" => mode = "ssh"
    /\ part # "cards" => asks = {}

PartsNext ==
    \/ part = "desk" /\ Next /\ UNCHANGED <<part, libraryVars, cardVars>>
    \/ part = "library" /\ LibraryNext /\ UNCHANGED <<part, vars, cardVars>>
    \/ part = "cards" /\ Cards!CardsNext /\ UNCHANGED <<part, vars, libraryVars>>

PartsSpec == PartsInit /\ [][PartsNext]_<<part, vars, libraryVars, cardVars>>

(* AutomationCards's properties, stated there. *)
NothingLooksStuck == Cards!NothingLooksStuck
CardKnowsItRuns == Cards!CardKnowsItRuns
PanelStaysWithItsRun == Cards!PanelStaysWithItsRun
DismissedStaysClosed == Cards!DismissedStaysClosed
=============================================================================
