---------------------------- MODULE MCSmbSession ----------------------------
EXTENDS SmbSession
=============================================================================
