--------------------------- MODULE MCBauConnection ---------------------------
(* Small instances of BauConnection for TLC.                                *)
EXTENDS BauConnection

CONSTANTS zero, p, q

MCAddress == {zero, p, q}
MCPeers == {p, q}
MCApdu == Answers \cup Requests

=============================================================================
