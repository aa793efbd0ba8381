------------------------------ MODULE MCVideo ------------------------------
(***************************************************************************)
(* Instances of the terminals for TLC.                                     *)
(***************************************************************************)
EXTENDS VideoRefinement, TLC

CONSTANTS x, y

MCText == {x, y}

\* Processes write x and the control characters.  The kernel logs empty lines:
\* enough to move the cursor of the log to every row and past the last one.
MCInput == (VID_PROC :> {x} \cup Controls) @@ (VID_SYSLOG :> {"LF"})

\* Idle writes one character, the message of halt is the text y and its 0.
MCIdleMsg == <<x>>
MCHaltMsg == <<y, Blank>>

\* Past a row, past the end, before the start.
MCMoves == {<<0, 4>>, <<2, 1>>, <<-1, 0>>}

=============================================================================
