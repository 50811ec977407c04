------------------------------- MODULE MCHosts -------------------------------
(* What the app does with a host before a tab is open on it, each part        *)
(* explored on its own: connections being opened, through the host's          *)
(* bastions; the pollers, with reloads that overlap in every order and a      *)
(* change of the host list in between; and the set-up of a key.               *)
EXTENDS Dialling, HostPollers

CONSTANTS c1, c2, s1, s2, s3, s4, web, Parts

VARIABLES
  part,
  sudo, otherKey, passwordRef, wanted, server, remote, up, inner, outer, machine, recorded

setupVars == <<sudo, otherKey, passwordRef, wanted, server, remote, up, inner, outer,
               machine, recorded>>

Setup == INSTANCE KeySetup

Entry(name, alias, end, jump, op, password) ==
  [name |-> name, alias |-> alias, end |-> end, jump |-> jump, op |-> op,
   password |-> password]
Hop(h) == [host |-> h, as |-> Inherit]

\* A host behind one bastion; one behind two, the first found by its old alias
\* and itself behind the second, which is then reached under another user or
\* port; and values that cannot be resolved, a cycle and a hop that is none.
MCLists ==
  { << Entry("b", "b", s1, <<>>, FALSE, "stored"),
       Entry("t", "t", s2, <<Hop("b")>>, FALSE, "ref") >>,
    << Entry("b", "b", s1, <<>>, TRUE, "none"),
       Entry("a", "x", s2, <<Hop("b")>>, FALSE, "none"),
       Entry("t", "t", s3, <<Hop("x"), [host |-> "b", as |-> s4]>>, FALSE, "stored") >>,
    << Entry("b", "b", s1, <<Hop("t")>>, FALSE, "none"),
       Entry("t", "t", s2, <<Hop("b")>>, FALSE, "stored"),
       Entry("u", "u", s3, <<Hop("b"), Hop(Bad)>>, FALSE, "stored"),
       Entry("v", "v", s4, <<Hop(Bad)>>, FALSE, "stored") >> }

MCMachines == {[keys |-> TRUE, readable |-> TRUE], [keys |-> FALSE, readable |-> FALSE]}
MCEnds     == {s1, s2, s3, s4}
MCCalls    == {c1, c2}
\* One connection to any host of the list, the other to its bastion, so that
\* both may meet the bastion's key first.
MCWanted   == c1 :> {"b", "t", "u", "v"} @@ c2 :> {"b"}
MCPolled   == {web}

AnyList == CHOOSE l \in MCLists : TRUE
AnyMachine == CHOOSE m \in MCMachines : TRUE

PartsInit ==
  /\ part \in Parts
  /\ DialInit /\ Init /\ Setup!Init
  /\ part # "dials" =>
       known = AnyList /\ keyFiles = AnyMachine.keys /\ readable = AnyMachine.readable
  /\ part # "pollers" => disk = {}
  /\ part # "setup" => ~sudo /\ ~otherKey /\ ~passwordRef /\ ~wanted

PartsNext ==
  \/ part = "dials" /\ DialNext /\ UNCHANGED <<part, vars, setupVars>>
  \/ part = "pollers" /\ Next /\ UNCHANGED <<part, dialVars, setupVars>>
  \/ part = "setup" /\ Setup!Next /\ UNCHANGED <<part, dialVars, vars>>

(* Nothing of a set-up is pending before it begins, nor of a poller, nor of a *)
(* connection nobody has asked for.                                           *)
SetupFairness ==
  /\ WF_setupVars(part = "setup" /\ Setup!Begin)
  /\ WF_setupVars(Setup!Inner) /\ WF_setupVars(Setup!RollbackEnds)

PartsSpec ==
  /\ PartsInit /\ [][PartsNext]_<<part, dialVars, vars, setupVars>>
  /\ DialFairness /\ Fairness /\ SetupFairness

(* KeySetup's properties, stated there. *)
KeyAuthFirst == Setup!KeyAuthFirst
RecordsWhatIsSo == Setup!RecordsWhatIsSo
NoReturnWithoutRollback == Setup!NoReturnWithoutRollback
NothingSentAfterEnd == Setup!NothingSentAfterEnd
SlotIsReleased == part = "setup" => Setup!SlotIsReleased
TypesOK == DialTypeOK /\ TypeOK /\ Setup!TypeOK
=============================================================================
