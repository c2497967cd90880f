------------------------------ MODULE MCReplay ------------------------------
(* The replay of bot orders on small instances.                            *)
EXTENDS Replay, TLC

CONSTANTS b1, b2

\* One bot with room for a history of orders, and two that race and fail.
SerialAndConcurrent ==
    {[bots |-> {b}, orders |-> 4, faults |-> 0] : b \in Bots}
        \cup {[bots |-> Bots, orders |-> 2, faults |-> 1]}

\* The bots run the same code and every load above treats them alike.
BotSymmetry == Permutations(Bots)

\* One bot whose every request may fail.
Failing == {[bots |-> {b1}, orders |-> 2, faults |-> 2]}
=============================================================================
