-------------------------- MODULE MCTerminalSessions --------------------------
(***************************************************************************)
(* Small instances of TerminalSessions.                                    *)
(***************************************************************************)
EXTENDS TerminalSessions

CONSTANTS s1, s2, k1, k2

=============================================================================
