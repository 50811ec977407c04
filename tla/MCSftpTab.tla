----------------------------- MODULE MCSftpTab -----------------------------
EXTENDS SftpTab

CONSTANTS d1, d2, n1, n2, f1, f2

=============================================================================
