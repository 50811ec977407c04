--------------------------- MODULE AutomationCards ---------------------------
(***************************************************************************)
(* The runs of the automations as the window shows them: each automation's *)
(* card, which offers Run or Stop, and the one panel with a run's progress *)
(* (stores/automations.ts), and the runs in the main process behind them   *)
(* (ipc/automations.ts, GuiState).                                         *)
(*                                                                         *)
(* The window's calls arrive in the order they were made, and so do the    *)
(* main process's events; a call's answer may overtake an event or come    *)
(* after it.  What a run does in between is AutomationRun's subject.       *)
(***************************************************************************)
EXTENDS Integers, Sequences, FiniteSets

CONSTANTS
    Automations,  \* their names
    MaxStarts,    \* bound: runs asked for
    MaxStops,     \* bound: presses of Stop
    None

VARIABLES
    asks,      \* the automations with a variable to be asked for
    runs,      \* main, per automation: its run ("none" when there is none)
    canceled,  \* main: the runs whose signal is aborted
    calls,     \* calls under way to the main process, oldest first
    events,    \* events under way to the window, oldest first
    answers,   \* answers under way to runAutomationNow()
    cards,    \* window: activeRuns, per automation
    panel,     \* window: automationRun
    dialog,    \* window: whose values are being asked for
    starts, stops

cardVars == <<asks, runs, canceled, calls, events, answers, cards, panel, dialog, starts, stops>>

CardTypeOK ==
    /\ asks \subseteq Automations
    /\ runs \in [Automations -> {"none", "loading", "going"}]
    /\ canceled \subseteq Automations
    /\ calls \in Seq([to : {"run", "stop"}, of : Automations, start : 0..MaxStarts])
    /\ events \in Seq([kind : {"started", "step", "completed", "failed"}, of : Automations])
    /\ answers \subseteq [of : Automations, start : 1..MaxStarts, ok : BOOLEAN]
    /\ cards \in [Automations -> {"run", "stop", "stopping"}]
    /\ panel \in [of : Automations \cup {None}, phase : {"none", "running", "completed", "failed"},
                  steps : BOOLEAN, stopping : BOOLEAN]
    /\ dialog \in Automations \cup {None}
    /\ starts \in 0..MaxStarts /\ stops \in 0..MaxStops

NoPanel == [of |-> None, phase |-> "none", steps |-> FALSE, stopping |-> FALSE]
Panel(a, phase) == [NoPanel EXCEPT !.of = a, !.phase = phase]

CardsInit ==
    /\ asks \in SUBSET Automations
    /\ runs = [a \in Automations |-> "none"] /\ canceled = {}
    /\ calls = <<>> /\ events = <<>> /\ answers = {}
    /\ cards = [a \in Automations |-> "run"]
    /\ panel = NoPanel /\ dialog = None
    /\ starts = 0 /\ stops = 0

-----------------------------------------------------------------------------
(* The window. *)

(* beginAutomationRun() and the call: the one place a run is started from. *)
RunNow(a) ==
    /\ starts < MaxStarts
    /\ starts' = starts + 1
    /\ cards' = [cards EXCEPT ![a] = "stop"]
    /\ panel' = Panel(a, "running")
    /\ calls' = Append(calls, [to |-> "run", of |-> a, start |-> starts + 1])
    /\ UNCHANGED <<asks, runs, canceled, events, answers, stops>>

(* A card's Run: with something to ask for, its dialog first. *)
PressRun(a) ==
    /\ panel = NoPanel /\ dialog = None /\ cards[a] = "run"
    /\ IF a \in asks
       THEN /\ dialog' = a
            /\ UNCHANGED <<asks, runs, canceled, calls, events, answers, cards, panel, starts, stops>>
       ELSE RunNow(a) /\ UNCHANGED dialog

(* "Run automation with this file" of an SFTP tab, which has no card to    *)
(* look at: it asks whether or not the automation runs already.            *)
PressRunWithFile(a) ==
    /\ panel = NoPanel /\ dialog = None /\ a \in asks
    /\ dialog' = a
    /\ UNCHANGED <<asks, runs, canceled, calls, events, answers, cards, panel, starts, stops>>

SubmitDialog ==
    /\ dialog # None
    /\ RunNow(dialog) /\ dialog' = None

CancelDialog ==
    /\ dialog # None /\ dialog' = None
    /\ UNCHANGED <<asks, runs, canceled, calls, events, answers, cards, panel, starts, stops>>

Stop(a) ==
    /\ stops < MaxStops /\ stops' = stops + 1
    /\ cards' = IF cards[a] = "run" THEN cards ELSE [cards EXCEPT ![a] = "stopping"]
    /\ panel' = IF panel.of = a /\ panel.phase = "running" THEN [panel EXCEPT !.stopping = TRUE] ELSE panel
    /\ calls' = Append(calls, [to |-> "stop", of |-> a, start |-> 0])
    /\ UNCHANGED <<asks, runs, canceled, events, answers, dialog, starts>>

PressStopOnCard(a) == panel = NoPanel /\ dialog = None /\ cards[a] = "stop" /\ Stop(a)

PressStopOnPanel == panel.phase = "running" /\ ~panel.stopping /\ Stop(panel.of)

Dismiss ==
    /\ panel # NoPanel /\ panel' = NoPanel
    /\ UNCHANGED <<asks, runs, canceled, calls, events, answers, cards, dialog, starts, stops>>

(* A run refused only takes its card back. *)
Answered(r) ==
    /\ r \in answers /\ answers' = answers \ {r}
    /\ cards' = IF r.ok THEN cards ELSE [cards EXCEPT ![r.of] = "run"]
    /\ UNCHANGED <<asks, runs, canceled, calls, events, panel, dialog, starts, stops>>

Takes(kinds) ==
    /\ events # <<>> /\ Head(events).kind \in kinds /\ events' = Tail(events)
    /\ UNCHANGED <<asks, runs, canceled, calls, answers, dialog, starts, stops>>

(* News of a step is for a panel that shows its run and nobody else. *)
Progress ==
    /\ Takes({"started", "step"})
    /\ panel' = IF Head(events).kind = "step" /\ panel.of = Head(events).of /\ panel.phase = "running"
                THEN [panel EXCEPT !.steps = TRUE] ELSE panel
    /\ UNCHANGED cards

(* Mutant: a run that failed leaves its card. *)
OutcomeLeavesCard ==
    /\ Takes({"completed", "failed"})
    /\ cards' = IF Head(events).kind = "failed" THEN cards ELSE [cards EXCEPT ![Head(events).of] = "run"]
    /\ panel' = Panel(Head(events).of, Head(events).kind)

(* An outcome takes the card back and the panel over, whoever's it was. *)
Outcome ==
    /\ Takes({"completed", "failed"})
    /\ cards' = [cards EXCEPT ![Head(events).of] = "run"]
    /\ panel' = Panel(Head(events).of, Head(events).kind)

-----------------------------------------------------------------------------
(* The main process. *)

TakeRun ==
    /\ calls # <<>> /\ Head(calls).to = "run" /\ calls' = Tail(calls)
    /\ LET a == Head(calls).of
           free == runs[a] = "none"
       IN /\ runs' = IF free THEN [runs EXCEPT ![a] = "loading"] ELSE runs
          /\ answers' = answers \cup {[of |-> a, start |-> Head(calls).start, ok |-> free]}
    /\ UNCHANGED <<asks, canceled, events, cards, panel, dialog, starts, stops>>

TakeStop ==
    /\ calls # <<>> /\ Head(calls).to = "stop" /\ calls' = Tail(calls)
    /\ canceled' = IF runs[Head(calls).of] = "none" THEN canceled ELSE canceled \cup {Head(calls).of}
    /\ UNCHANGED <<asks, runs, events, answers, cards, panel, dialog, starts, stops>>

Emits(a, kind) == events' = Append(events, [kind |-> kind, of |-> a])

Ends(a, kind) ==
    /\ Emits(a, kind)
    /\ runs' = [runs EXCEPT ![a] = "none"] /\ canceled' = canceled \ {a}
    /\ UNCHANGED <<asks, calls, answers, cards, panel, dialog, starts, stops>>

(* The automation is gone or does not validate, or a value is missing. *)
RunFailsToStart(a) == runs[a] = "loading" /\ Ends(a, "failed")

RunStarts(a) ==
    /\ runs[a] = "loading" /\ runs' = [runs EXCEPT ![a] = "going"]
    /\ Emits(a, "started")
    /\ UNCHANGED <<asks, canceled, calls, answers, cards, panel, dialog, starts, stops>>

StepEnds(a) ==
    /\ runs[a] = "going" /\ a \notin canceled
    /\ \A i \in 1..Len(events) : events[i].kind # "step"    \* bound: one under way
    /\ Emits(a, "step")
    /\ UNCHANGED <<asks, runs, canceled, calls, answers, cards, panel, dialog, starts, stops>>

(* Canceled or not, a run ends with its results or with an error. *)
RunEnds(a) == runs[a] = "going" /\ \E kind \in {"completed", "failed"} : Ends(a, kind)

CardsNext ==
    \/ \E a \in Automations :
          \/ PressRun(a) \/ PressRunWithFile(a) \/ PressStopOnCard(a)
          \/ RunFailsToStart(a) \/ RunStarts(a) \/ StepEnds(a) \/ RunEnds(a)
    \/ PressStopOnPanel \/ SubmitDialog \/ CancelDialog \/ Dismiss \/ Progress \/ Outcome
    \/ \E r \in answers : Answered(r)
    \/ TakeRun \/ TakeStop

CardsSpec == CardsInit /\ [][CardsNext]_cardVars

-----------------------------------------------------------------------------
(* What will take back a card or a panel that says `a` runs. *)
Underway(a) ==
    \/ runs[a] # "none"
    \/ \E i \in 1..Len(calls) : calls[i].to = "run" /\ calls[i].of = a
    \/ \E i \in 1..Len(events) : events[i].kind \in {"completed", "failed"} /\ events[i].of = a

(* A card that offers Stop, or says "Stopping...", and a panel that says   *)
(* its run goes on, always have the run, its outcome or its refusal still  *)
(* to come: neither is ever stuck, with the panel closed or another run    *)
(* over it (stores/automations.ts:45-56,96-111).                           *)
NothingLooksStuck ==
    \A a \in Automations :
        /\ cards[a] # "run" => Underway(a) \/ \E r \in answers : r.of = a /\ ~r.ok
        /\ panel.of = a /\ panel.phase = "running" => Underway(a)

(* "An automation's card still knows it's running (and offers Stop) with   *)
(* the panel closed" (stores/automations.ts:45-47).                        *)
CardKnowsItRuns ==
    \A a \in Automations :
        cards[a] = "run" => runs[a] = "none"

(* "A terminal outcome always replaces whatever phase was active for its  *)
(* automation" (stores/automations.ts:170): the panel of one that      *)
(* still goes is not another's to take.                                    *)
PanelStaysWithItsRun ==
    [][panel.phase = "running" /\ panel'.of # panel.of => Dismiss \/ runs[panel.of] = "none"]_cardVars

(* A panel dismissed opens again only for "a new run" (:113-117).          *)
DismissedStaysClosed == [][panel = NoPanel /\ panel' # NoPanel => starts' # starts]_cardVars
=============================================================================
