---------------------------- MODULE MCTerminals ----------------------------
EXTENDS Terminals

=============================================================================
