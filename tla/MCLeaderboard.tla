---------------------------- MODULE MCLeaderboard ----------------------------
(* Leaderboard and its properties, with values for TLC.                    *)
EXTENDS LeaderboardProps
=============================================================================
