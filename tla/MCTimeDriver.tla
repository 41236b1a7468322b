---------------------------- MODULE MCTimeDriver ----------------------------
(* TimeDriver with more tasks than alarms, so that the table fills up, and *)
(* one task that awaits two futures together.                              *)
EXTENDS TimeDriver, TLC

CONSTANTS t1, t2, t3
MCTask    == {t1, t2, t3}
MCFutures == t1 :> 2 @@ t2 :> 1 @@ t3 :> 1
=============================================================================
