----------------------------- MODULE Dashboard -----------------------------
(***************************************************************************)
(* The two pages of the dashboard that follow a service: the build log of  *)
(* a submission and the live leaderboard.  They share no state, so a       *)
(* behaviour is one of either.                                             *)
(***************************************************************************)
EXTENDS BuildLog, LiveFeed

VARIABLE page    \* the page that is open

dashboardVars == <<page, logVars, liveVars>>

DashboardInit ==
    /\ page \in {"submission", "leaderboard"}
    /\ LogInit
    /\ LiveInit(page = "leaderboard")

DashboardNext ==
    \/ page = "submission" /\ LogNext /\ UNCHANGED <<page, liveVars>>
    \/ page = "leaderboard" /\ LiveNext /\ UNCHANGED <<page, logVars>>

DashboardSpec ==
    DashboardInit /\ [][DashboardNext]_dashboardVars /\ LogFairness /\ LiveFairness
=============================================================================
