---------------------------- MODULE MCSshSession ----------------------------
(* Instances of SshSession for TLC: two sessions that share a connection or   *)
(* not, two calls each, so that two calls of one session can be refused.      *)
EXTENDS SshSession

CONSTANTS s1, s2, c1, c2, web

MCSessions == {s1, s2}
MCCalls == {c1, c2}
MCKeys == {web}
=============================================================================
