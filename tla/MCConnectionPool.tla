-------------------------- MODULE MCConnectionPool --------------------------
(* An instance of ConnectionPool for TLC: three callers for two hosts, so that *)
(* two may fill a connection, a third dials the next, and one host's callers   *)
(* never meet the other's.                                                     *)
EXTENDS ConnectionPool

CONSTANTS u1, u2, u3, web, db

MCUsers == {u1, u2, u3}
MCKeys == {web, db}
=============================================================================
