----------------------------- MODULE MCGdbServer -----------------------------
(***************************************************************************)
(* A small recording for TLC: two thread groups.  g1 = {t1, t2} is the     *)
(* initial process (t1 execs, clones t2; both exit, t1 last); g2 = {t3} is *)
(* a second process that receives a signal and outlives g1.                *)
(*                                                                         *)
(*   event: 1       2      3      4         5       6       7              *)
(*   task:  t1      t1     t2     t3        t2      t1      t3             *)
(*   kind:  exec    run    run    signal    exit    exit    run            *)
(***************************************************************************)
EXTENDS GdbServer

CONSTANTS t1, t2, t3, g1, g2

MCTasks == {t1, t2, t3}
MCGroups == {g1, g2}
MCTG == [t \in MCTasks |-> IF t = t3 THEN g2 ELSE g1]

MCTrace ==
  << [task |-> t1, kind |-> "exec"],
     [task |-> t1, kind |-> "run"],
     [task |-> t2, kind |-> "run"],
     [task |-> t3, kind |-> "signal"],
     [task |-> t2, kind |-> "exit"],
     [task |-> t1, kind |-> "exit"],
     [task |-> t3, kind |-> "run"] >>

\* The session cannot be cloned before event 3 (a checkpoint there is not
\* explicit); breakpoints may be set on the events 2 and 5.
MCNoCheckpointFrames == {3}
MCBreakFrames == {2, 5}

\* first_run_event of each address space.
MCFirstRunEvent == [g \in MCGroups |-> IF g = g1 THEN 2 ELSE 4]

\* "rd replay -p <pid>" / "-g <event>" / none; -p may require an exec.
MCInitialTargets ==
  [pid : {NoGroup, g1, g2}, require_exec : BOOLEAN, event : {0}]

\* "run <event>" restart parameters inside the recording ...
MCRestartEvents == {0, 3, 6}
\* ... and also the last event, after which g1 no longer runs.
MCRestartEventsAll == {0, 3, 6, 7}

\* Stands for u64::MAX: any number above every event of the trace.
MCMaxFrameTime == 100

MCCheckpointIds == {1, 2}
MCMaxRequests == 5
==============================================================================
