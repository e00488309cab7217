------------------------ MODULE MCTeamCallLifecycle -------------------------
(* Instances of TeamCallLifecycle for TLC.                                 *)
EXTENDS TeamCallLifecycle

AtMost(request, connection, repeat, loss, removal) ==
    [what \in Bounded |->
        CASE what = "request" -> request
          [] what = "connection" -> connection
          [] what = "repeat" -> repeat
          [] what = "loss" -> loss
          [] what = "removal" -> removal]

Removing == AtMost(2, 1, 0, 0, 1)
Rejoining == AtMost(2, 2, 0, 0, 0)
Troubled == AtMost(1, 1, 1, 1, 0)
=============================================================================
