--------------------------- MODULE MCMotorDriver ---------------------------
(***************************************************************************)
(* Motors of MotorDriver for TLC: two of one side and one of the other show *)
(* every position of a failure; one is wired the other way round.            *)
(***************************************************************************)
EXTENDS MotorDriver

CONSTANTS LF, LR, RF

MCMotorOrder == <<LF, LR, RF>>

\* Both directions, one beyond the range the driver clamps to.
MCRequests == {-150, 0, 40}
=============================================================================
