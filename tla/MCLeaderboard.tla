--------------------------- MODULE MCLeaderboard ---------------------------
(* The leaderboard on a small instance.                                    *)
EXTENDS Leaderboard, TLC

CONSTANTS p1, p2, c1, s1

\* One contestant with a run that names its submission and a legacy run.
OneAttempt == [s \in {s1} |-> c1]

\* A slow run and a fast run.
TwoRows == {[base |-> 1, timeouts |-> 0], [base |-> 2, timeouts |-> 1]}
=============================================================================
