---------------------------- MODULE MCScheduler ----------------------------
(* Small instances of Scheduler for TLC.                                   *)
EXTENDS Scheduler

NoLoopers   == {}
OneLooper   == {1}
MainLoops   == {Main}
UpToTwo     == {0, 1, 2}
OneOrTwo    == {1, 2}
OnlyTwo     == {2}
OnlyEmpty   == {0}
=============================================================================
