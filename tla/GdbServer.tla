------------------------------ MODULE GdbServer ------------------------------
(***************************************************************************)
(* The GdbServer of src/commands/gdb_server.rs driving a ReplayTimeline:    *)
(* the replay-to-target phase of serve_replay, debugger activation, the    *)
(* connect/serve/disconnect loop, restart_session in its three kinds,      *)
(* maybe_notify_stop after every forward or reverse replay step, the GDB   *)
(* checkpoint table and the asynchronous interrupt flags.                  *)
(*                                                                         *)
(* The request loop (debug_one_step, process_debugger_requests) and the    *)
(* checkpoint commands are unimplemented in this repository; the requests  *)
(* that reach the modelled code are taken from spec.md 4.2.                *)
(***************************************************************************)
EXTENDS ReplayTimeline

CONSTANTS
  Groups,           \* thread groups (model values)
  NoTask, NoGroup,  \* the zero TaskUid / ThreadGroupUid meaning "unset"
  NoCheckpoint,     \* an empty checkpoint slot
  CheckpointIds,    \* GDB checkpoint ids the client may use
  RestartEvents,    \* parameters of "run <event>" restarts
  InitialTargets,   \* Target values the command line may pass
  FirstRunEvent,    \* FirstRunEvent[g]: vm().first_run_event() of group g
  KeepListening,    \* ConnectionFlags::keep_listening
  ReverseExecution, \* the connection's reverse_execution feature
  MaxFrameTime,     \* u64::MAX, the initial final_event
  MaxRequests       \* bound on client requests (and connections)

VARIABLES
  phase,            \* where serve_replay / restart_session is
  target,           \* Target {pid, require_exec, event}
  debuggee,         \* debuggee_tguid
  lastContinue,     \* last_continue_tuid
  lastQuery,        \* last_query_tuid
  finalEvent,       \* final_event
  stopSigno,        \* stop_siginfo.si_signo
  inEndState,       \* in_debuggee_end_state
  stopReplaying,    \* stop_replaying_to_target
  interruptPending, \* interrupt_pending
  restartCp,        \* debugger_restart_checkpoint
  checkpoints,      \* checkpoints: id -> Checkpoint
  resume,           \* direction of the continue being served, or "none"
  lastReply,        \* the last stop / exit / failure sent to the client
  nreq              \* client requests served so far

serverVars == <<phase, target, debuggee, lastContinue, lastQuery, finalEvent,
                stopSigno, inEndState, stopReplaying, interruptPending,
                restartCp, checkpoints, resume, lastReply, nreq>>
vars == <<timelineVars, serverVars>>

Phases == {"ToTarget", "Listening", "Serving", "Restarting", "Done", "Aborted"}
Signals == {"NONE", "SIGTRAP", "SIGKILL", "SIGNAL"}
Checkpoints == [mark : Marks, tuid : Tasks \cup {NoTask}, explicit : BOOLEAN]
Replies == [kind : {"none", "stop", "exit", "restart_failed"},
            task : Tasks \cup {NoTask}, signo : Signals]
NoReply == [kind |-> "none", task |-> NoTask, signo |-> "NONE"]

(***************************************************************************)
(* Checkpoint::new: an explicit checkpoint pins the current mark.          *)
(***************************************************************************)
NewCheckpoint(tuid, explicit) == [mark |-> pos, tuid |-> tuid, explicit |-> explicit]
PinsAfterNew(explicit) == IF explicit THEN Pin(pins, pos) ELSE pins

(***************************************************************************)
(* at_target(), evaluated at mark m.                                       *)
(***************************************************************************)
AtTarget(m) ==
  /\ DoneInitialExec(m)
  /\ HasCurrentTask(m)
  /\ CanAddCheckpoint(m)
  /\ \/ stopReplaying
     \/ /\ FrameTime(m) > target.event
        /\ target.pid \in {NoGroup, TG[CurrentTask(m)]}
        /\ ~target.require_exec \/ Execed(CurrentTask(m), m)
        /\ ~InExecution(m)

(***************************************************************************)
(* activate_debugger() at mark m (the mark after the step that stopped).   *)
(* It retargets the server at the current task and makes a new             *)
(* debugger_restart_checkpoint, explicit iff a checkpoint can be added.    *)
(***************************************************************************)
ActivateDebugger(m, p) ==
  LET t == CurrentTask(m)
      explicit == CanAddCheckpoint(m)
  IN /\ target' = [pid |-> TG[t], require_exec |-> FALSE, event |-> FrameTime(m)]
     /\ lastQuery' = t
     /\ lastContinue' = t
     /\ restartCp' = [mark |-> m, tuid |-> t, explicit |-> explicit]
     /\ pins' = IF explicit THEN Pin(p, m) ELSE p

(***************************************************************************)
(* is_last_thread_exit and is_in_exec.                                     *)
(***************************************************************************)
\* Faulty variant (an off-by-one on the thread-group size): the last thread's
\* exit is never recognised.
IsLastThreadExitOffByOne(bs) == bs.exit /\ bs.gsize = 0

IsLastThreadExit(bs) == bs.exit /\ bs.gsize = 1

IsInExec(m) == HasCurrentTask(m) /\ Mid(m) /\ Trace[Cur(m)].kind = "exec"

(***************************************************************************)
(* maybe_notify_stop(req, break_status) after a step in direction dir that *)
(* reached mark m.  The later causes override the signal of the earlier.    *)
(***************************************************************************)
StopCause(dir, bs, m) ==
  LET lte == IsLastThreadExit(bs) /\ ReverseExecution
      sig1 == IF bs.bp THEN "SIGTRAP" ELSE "NONE"
      sig2 == IF bs.signal THEN "SIGNAL" ELSE sig1
      sig3 == IF lte THEN (IF dir = "forward" THEN "SIGKILL" ELSE "NONE") ELSE sig2
  IN [stop |-> bs.bp \/ bs.signal \/ lte \/ IsInExec(m),
      signo |-> IF IsInExec(m) THEN "NONE" ELSE sig3,
      task |-> IF IsInExec(m) THEN CurrentTask(m) ELSE bs.task]

MaybeNotifyStop(dir, bs, m) ==
  LET c == StopCause(dir, bs, m)
  IN /\ stopSigno' = IF c.stop THEN c.signo ELSE stopSigno
     /\ IF c.stop /\ TG[c.task] = debuggee
          THEN /\ lastReply' = [kind |-> "stop", task |-> c.task, signo |-> c.signo]
               /\ lastContinue' = c.task
               /\ lastQuery' = c.task
               /\ resume' = "none"
          ELSE UNCHANGED <<lastReply, lastContinue, lastQuery, resume>>

-----------------------------------------------------------------------------
(***************************************************************************)
(* serve_replay: replay forward until at_target(), then listen.            *)
(***************************************************************************)
ToTargetStep ==
  /\ phase = "ToTarget"
  /\ pos < EndMark
  /\ pos' = NextMark(pos)
  /\ IF AtTarget(pos')
       THEN /\ phase' = "Listening"
            /\ debuggee' = TG[CurrentTask(pos')]
            /\ barrier' = IF FirstRunEvent[TG[CurrentTask(pos')]] > 0
                             THEN FirstRunEvent[TG[CurrentTask(pos')]] ELSE barrier
       ELSE UNCHANGED <<phase, debuggee, barrier>>
  /\ UNCHANGED <<pins, bps, target, lastContinue, lastQuery, finalEvent,
                 stopSigno, inEndState, stopReplaying, interruptPending,
                 restartCp, checkpoints, resume, lastReply, nreq>>

\* "Debugger was not launched before end of trace"
ToTargetExhausted ==
  /\ phase = "ToTarget"
  /\ pos = EndMark
  /\ phase' = "Done"
  /\ UNCHANGED <<timelineVars, target, debuggee, lastContinue, lastQuery,
                 finalEvent, stopSigno, inEndState, stopReplaying,
                 interruptPending, restartCp, checkpoints, resume, lastReply, nreq>>

\* interrupt_replay_to_target, called from a signal handler at any time.
InterruptReplayToTarget ==
  /\ phase \notin {"Done", "Aborted"}
  /\ ~stopReplaying
  /\ stopReplaying' = TRUE
  /\ UNCHANGED <<timelineVars, phase, target, debuggee, lastContinue, lastQuery,
                 finalEvent, stopSigno, inEndState, interruptPending,
                 restartCp, checkpoints, resume, lastReply, nreq>>

\* await_connection, then activate_debugger.
Connect ==
  /\ phase = "Listening"
  /\ HasCurrentTask(pos)
  /\ nreq < MaxRequests
  /\ nreq' = nreq + 1
  /\ phase' = "Serving"
  /\ ActivateDebugger(pos, pins)
  /\ UNCHANGED <<pos, bps, barrier, debuggee, finalEvent, stopSigno, inEndState,
                 stopReplaying, interruptPending, checkpoints, resume, lastReply>>

\* A connection after the client detached at the end of the trace:
\* activate_debugger unwraps current_task(), which is None, and rd panics.
ConnectWithoutTask ==
  /\ phase = "Listening"
  /\ ~HasCurrentTask(pos)
  /\ phase' = "Aborted"
  /\ UNCHANGED <<timelineVars, target, debuggee, lastContinue, lastQuery,
                 finalEvent, stopSigno, inEndState, stopReplaying,
                 interruptPending, restartCp, checkpoints, resume, lastReply, nreq>>
-----------------------------------------------------------------------------
(***************************************************************************)
(* Requests of a connected client while the debuggee is stopped            *)
(* (spec.md 4.2 Request dispatch).                                          *)
(***************************************************************************)
Stopped ==
  /\ phase = "Serving"
  /\ resume = "none"
  /\ nreq < MaxRequests
  /\ nreq' = nreq + 1

Directions == IF ReverseExecution THEN {"forward", "backward"} ELSE {"forward"}

\* DREQ_CONT: a pending interrupt reports a stop at once for a debuggee task;
\* otherwise the timeline starts running in the requested direction.
RequestContinue(dir) ==
  /\ Stopped
  /\ IF interruptPending /\ HasCurrentTask(pos) /\ TG[CurrentTask(pos)] = debuggee
       THEN /\ interruptPending' = FALSE
            /\ lastReply' = [kind |-> "stop", task |-> CurrentTask(pos), signo |-> "NONE"]
            /\ lastContinue' = CurrentTask(pos)
            /\ lastQuery' = CurrentTask(pos)
            /\ UNCHANGED resume
       ELSE /\ resume' = dir
            /\ UNCHANGED <<interruptPending, lastReply, lastContinue, lastQuery>>
  /\ UNCHANGED <<timelineVars, phase, target, debuggee, finalEvent, stopSigno,
                 inEndState, stopReplaying, restartCp, checkpoints>>

\* One replay_step_forward of a running continue, then maybe_notify_stop.
ContinueForward ==
  /\ phase = "Serving"
  /\ resume = "forward"
  /\ pos < EndMark
  /\ pos' = NextMark(pos)
  /\ MaybeNotifyStop("forward", ForwardBreak(pos), NextMark(pos))
  /\ UNCHANGED <<pins, bps, barrier, phase, target, debuggee, finalEvent,
                 inEndState, stopReplaying, interruptPending, restartCp,
                 checkpoints, nreq>>

\* ReplayExited while continuing: the exit is reported and final_event set.
ContinueExited ==
  /\ phase = "Serving"
  /\ resume = "forward"
  /\ pos = EndMark
  /\ finalEvent' = FrameTime(pos)
  /\ resume' = "none"
  /\ lastReply' = [kind |-> "exit", task |-> NoTask, signo |-> "NONE"]
  /\ UNCHANGED <<timelineVars, phase, target, debuggee, lastContinue, lastQuery,
                 stopSigno, inEndState, stopReplaying, interruptPending,
                 restartCp, checkpoints, nreq>>

\* One reverse_step of a running reverse-continue, then maybe_notify_stop.
\* At the barrier the timeline reports the start of time without moving.
ContinueBackward ==
  /\ phase = "Serving"
  /\ resume = "backward"
  /\ pos' = IF pos = BarrierMark THEN pos ELSE PrevMark(pos)
  /\ MaybeNotifyStop("backward", ReverseBreak(pos), pos')
  /\ UNCHANGED <<pins, bps, barrier, phase, target, debuggee, finalEvent,
                 inEndState, stopReplaying, interruptPending, restartCp,
                 checkpoints, nreq>>

\* DREQ_INTERRUPT
RequestInterrupt ==
  /\ Stopped
  /\ interruptPending' = TRUE
  /\ UNCHANGED <<timelineVars, phase, target, debuggee, lastContinue, lastQuery,
                 finalEvent, stopSigno, inEndState, stopReplaying, restartCp,
                 checkpoints, resume, lastReply>>

\* DREQ_SET_SW_BREAK / DREQ_REMOVE_SW_BREAK
RequestBreakpoint(f, set) ==
  /\ Stopped
  /\ bps' = IF set THEN bps \cup {f} ELSE bps \ {f}
  /\ UNCHANGED <<pos, pins, barrier, phase, target, debuggee, lastContinue,
                 lastQuery, finalEvent, stopSigno, inEndState, stopReplaying,
                 interruptPending, restartCp, checkpoints, resume, lastReply>>

\* The "checkpoint" command: a new entry of the checkpoint table.
RequestCheckpoint(id) ==
  /\ Stopped
  /\ checkpoints[id] = NoCheckpoint
  /\ checkpoints' = [checkpoints EXCEPT ![id] = NewCheckpoint(lastContinue, CanAddCheckpoint(pos))]
  /\ pins' = PinsAfterNew(CanAddCheckpoint(pos))
  /\ UNCHANGED <<pos, bps, barrier, phase, target, debuggee, lastContinue,
                 lastQuery, finalEvent, stopSigno, inEndState, stopReplaying,
                 interruptPending, restartCp, resume, lastReply>>

\* The "delete checkpoint" command releases an explicit checkpoint's pin.
RequestDeleteCheckpoint(id) ==
  /\ Stopped
  /\ checkpoints[id] # NoCheckpoint
  /\ checkpoints' = [checkpoints EXCEPT ![id] = NoCheckpoint]
  /\ pins' = IF checkpoints[id].explicit THEN Unpin(pins, checkpoints[id].mark) ELSE pins
  /\ UNCHANGED <<pos, bps, barrier, phase, target, debuggee, lastContinue,
                 lastQuery, finalEvent, stopSigno, inEndState, stopReplaying,
                 interruptPending, restartCp, resume, lastReply>>
-----------------------------------------------------------------------------
(***************************************************************************)
(* restart_session.  Every kind first clears in_debuggee_end_state and all  *)
(* breakpoints and watchpoints, before the checkpoint id is looked up.     *)
(***************************************************************************)

\* RestartFromCheckpoint with an unknown id: notify_restart_failed.
RestartFromUnknownCheckpoint(id) ==
  /\ Stopped
  /\ checkpoints[id] = NoCheckpoint
  /\ inEndState' = FALSE
  /\ bps' = {}
  /\ lastReply' = [kind |-> "restart_failed", task |-> NoTask, signo |-> "NONE"]
  /\ UNCHANGED <<pos, pins, barrier, phase, target, debuggee, lastContinue,
                 lastQuery, finalEvent, stopSigno, stopReplaying,
                 interruptPending, restartCp, checkpoints, resume>>

\* Faulty variant: the old restart checkpoint is released but the restored
\* one is never pinned (add_explicit_checkpoint forgotten).
RestoreCheckpointNoRepin(cp) ==
  LET released == IF restartCp.explicit THEN Unpin(pins, restartCp.mark) ELSE pins
  IN /\ inEndState' = FALSE
     /\ bps' = {}
     /\ interruptPending' = TRUE
     /\ pos' = cp.mark
     /\ lastQuery' = cp.tuid
     /\ lastContinue' = cp.tuid
     /\ restartCp' = cp
     /\ pins' = released
     /\ UNCHANGED <<barrier, phase, target, debuggee, finalEvent, stopSigno,
                    stopReplaying, checkpoints, resume, lastReply>>

\* Faulty variant: the old restart checkpoint is released without checking
\* is_explicit.
RestoreCheckpointUnpinAlways(cp) ==
  /\ inEndState' = FALSE
  /\ bps' = {}
  /\ interruptPending' = TRUE
  /\ pos' = cp.mark
  /\ lastQuery' = cp.tuid
  /\ lastContinue' = cp.tuid
  /\ restartCp' = cp
  /\ pins' = LET released == Unpin(pins, restartCp.mark)
            IN IF CanAddCheckpoint(cp.mark) THEN Pin(released, cp.mark) ELSE released
  /\ UNCHANGED <<barrier, phase, target, debuggee, finalEvent, stopSigno,
                 stopReplaying, checkpoints, resume, lastReply>>

\* Seek to checkpoint cp; it replaces debugger_restart_checkpoint, whose pin
\* is released if explicit, and the current mark is pinned if possible.
RestoreCheckpoint(cp) ==
  LET released == IF restartCp.explicit THEN Unpin(pins, restartCp.mark) ELSE pins
  IN /\ inEndState' = FALSE
     /\ bps' = {}
     /\ interruptPending' = TRUE
     /\ pos' = cp.mark
     /\ lastQuery' = cp.tuid
     /\ lastContinue' = cp.tuid
     /\ restartCp' = cp
     /\ pins' = IF CanAddCheckpoint(cp.mark) THEN Pin(released, cp.mark) ELSE released
     /\ UNCHANGED <<barrier, phase, target, debuggee, finalEvent, stopSigno,
                    stopReplaying, checkpoints, resume, lastReply>>

RestartFromCheckpoint(id) ==
  /\ Stopped
  /\ checkpoints[id] # NoCheckpoint
  /\ RestoreCheckpoint(checkpoints[id])

RestartFromPrevious ==
  /\ Stopped
  /\ RestoreCheckpoint(restartCp)

\* RestartFromEvent: clamp the event, seek before it, then replay forward
\* (RestartStep) until the debuggee's last thread exits or at_target().
RestartFromEvent(e) ==
  LET ev == IF finalEvent - 1 < e THEN finalEvent - 1 ELSE e
  IN /\ Stopped
     /\ inEndState' = FALSE
     /\ bps' = {}
     /\ interruptPending' = TRUE
     /\ stopReplaying' = FALSE
     /\ target' = [target EXCEPT !.event = ev]
     /\ pos' = SeekBeforeEventMark(ev)
     /\ phase' = "Restarting"
     /\ UNCHANGED <<pins, barrier, debuggee, lastContinue, lastQuery, finalEvent,
                    stopSigno, restartCp, checkpoints, resume, lastReply>>

RestartStep ==
  LET m == NextMark(pos)
      bs == ForwardBreak(pos)
      endState == IsLastThreadExit(bs) /\ TG[bs.task] = target.pid
  IN /\ phase = "Restarting"
     /\ pos < EndMark
     /\ pos' = m
     /\ \/ /\ endState
           /\ inEndState' = TRUE
           /\ phase' = "Serving"
           /\ ActivateDebugger(m, pins)
        \/ /\ ~endState
           /\ AtTarget(m)
           /\ phase' = "Serving"
           /\ ActivateDebugger(m, pins)
           /\ UNCHANGED inEndState
        \/ /\ ~endState
           /\ ~AtTarget(m)
           /\ UNCHANGED <<phase, inEndState, target, lastQuery, lastContinue,
                          restartCp, pins>>
     /\ UNCHANGED <<bps, barrier, debuggee, finalEvent, stopSigno, stopReplaying,
                    interruptPending, checkpoints, resume, lastReply, nreq>>

\* ReplayExited inside the restart loop: debug_assert_ne! aborts rd.
RestartExhausted ==
  /\ phase = "Restarting"
  /\ pos = EndMark
  /\ phase' = "Aborted"
  /\ UNCHANGED <<timelineVars, target, debuggee, lastContinue, lastQuery,
                 finalEvent, stopSigno, inEndState, stopReplaying,
                 interruptPending, restartCp, checkpoints, resume, lastReply, nreq>>

\* The client detaches: breakpoints are removed, then serve_replay either
\* listens for the next connection or returns.
Detach ==
  /\ phase = "Serving"
  /\ resume = "none"
  /\ bps' = {}
  /\ phase' = IF KeepListening THEN "Listening" ELSE "Done"
  /\ UNCHANGED <<pos, pins, barrier, target, debuggee, lastContinue, lastQuery,
                 finalEvent, stopSigno, inEndState, stopReplaying,
                 interruptPending, restartCp, checkpoints, resume, lastReply, nreq>>

\* serve_replay has returned (or rd aborted): nothing more happens.
\* Also where the model's bound on requests stops a further connection.
Finished ==
  /\ \/ phase \in {"Done", "Aborted"}
     \/ phase = "Listening" /\ nreq = MaxRequests
  /\ UNCHANGED vars

-----------------------------------------------------------------------------
Init ==
  /\ TimelineInit
  /\ phase = "ToTarget"
  /\ target \in InitialTargets
  /\ debuggee = NoGroup
  /\ lastContinue = NoTask
  /\ lastQuery = NoTask
  /\ finalEvent = MaxFrameTime
  /\ stopSigno = "NONE"
  /\ inEndState = FALSE
  /\ stopReplaying = FALSE
  /\ interruptPending = FALSE
  /\ restartCp = NoCheckpoint
  /\ checkpoints = [id \in CheckpointIds |-> NoCheckpoint]
  /\ resume = "none"
  /\ lastReply = NoReply
  /\ nreq = 0

Next ==
  \/ ToTargetStep
  \/ ToTargetExhausted
  \/ InterruptReplayToTarget
  \/ Connect
  \/ ConnectWithoutTask
  \/ \E dir \in Directions : RequestContinue(dir)
  \/ ContinueForward
  \/ ContinueExited
  \/ ContinueBackward
  \/ RequestInterrupt
  \/ \E f \in BreakFrames, set \in BOOLEAN : RequestBreakpoint(f, set)
  \/ \E id \in CheckpointIds : RequestCheckpoint(id)
  \/ \E id \in CheckpointIds : RequestDeleteCheckpoint(id)
  \/ \E id \in CheckpointIds : RestartFromUnknownCheckpoint(id)
  \/ \E id \in CheckpointIds : RestartFromCheckpoint(id)
  \/ RestartFromPrevious
  \/ \E e \in RestartEvents : RestartFromEvent(e)
  \/ RestartStep
  \/ RestartExhausted
  \/ Detach
  \/ Finished

\* serve_replay is one thread: once replaying (to a target, a continue or a
\* restart) it keeps taking replay steps until it stops.
Fairness ==
  /\ WF_vars(ToTargetStep \/ ToTargetExhausted)
  /\ WF_vars(ContinueForward \/ ContinueExited \/ ContinueBackward)
  /\ WF_vars(RestartStep \/ RestartExhausted)

Spec == Init /\ [][Next]_vars /\ Fairness

-----------------------------------------------------------------------------
TypeOK ==
  /\ TimelineTypeOK
  /\ phase \in Phases
  /\ target \in [pid : Groups \cup {NoGroup}, require_exec : BOOLEAN, event : Nat]
  /\ debuggee \in Groups \cup {NoGroup}
  /\ lastContinue \in Tasks \cup {NoTask}
  /\ lastQuery \in Tasks \cup {NoTask}
  /\ finalEvent \in Nat
  /\ stopSigno \in Signals
  /\ inEndState \in BOOLEAN
  /\ stopReplaying \in BOOLEAN
  /\ interruptPending \in BOOLEAN
  /\ restartCp \in Checkpoints \cup {NoCheckpoint}
  /\ checkpoints \in [CheckpointIds -> Checkpoints \cup {NoCheckpoint}]
  /\ resume \in {"none", "forward", "backward"}
  /\ lastReply \in Replies
  /\ nreq \in 0..MaxRequests

\* Explicit checkpoints that hold a pin on mark m: GDB checkpoints and the
\* debugger_restart_checkpoint.
Holders(m) ==
  Cardinality({id \in CheckpointIds : /\ checkpoints[id] # NoCheckpoint
                                      /\ checkpoints[id].explicit
                                      /\ checkpoints[id].mark = m})
  + (IF restartCp # NoCheckpoint /\ restartCp.explicit /\ restartCp.mark = m
       THEN 1 ELSE 0)

(***************************************************************************)
(* Every explicit checkpoint the server still holds (a GDB checkpoint or    *)
(* debugger_restart_checkpoint) is pinned in the timeline: the pin count of *)
(* its mark is at least the number of holders.  restart_session releases   *)
(* the old restart checkpoint's pin and re-pins the restored one; delete   *)
(* releases a GDB checkpoint's pin.  A pin released twice would let the     *)
(* timeline drop a state a checkpoint still refers to.                     *)
(***************************************************************************)
CheckpointsPinned == \A m \in Marks : pins[m] >= Holders(m)

(***************************************************************************)
(* Dropping a checkpoint releases its pin (spec.md section 3): no mark is   *)
(* pinned more often than it is held.  activate_debugger overwrites         *)
(* debugger_restart_checkpoint without releasing it, after a restart from   *)
(* an event or on a reconnection.                                           *)
(***************************************************************************)
NoPinLeak == \A m \in Marks : pins[m] <= Holders(m)

\* One of the restart loop's stop conditions can still hold: the target
\* process runs an event after the target event (at_target) or a thread of
\* it exits at or after it (the last-thread exit).
TargetStillRuns ==
  \E i \in DOMAIN Trace :
     /\ target.pid \in {NoGroup, TG[Trace[i].task]}
     /\ \/ i > target.event
        \/ i = target.event /\ Trace[i].kind = "exit"

(***************************************************************************)
(* A restart from an event that the target process outlives ends: the loop *)
(* of restart_session reaches at_target() or the debuggee's last-thread    *)
(* exit, and serving resumes.                                               *)
(***************************************************************************)
RestartCompletes == (phase = "Restarting" /\ TargetStillRuns) ~> phase = "Serving"

(***************************************************************************)
(* The restart loop never runs off the end of the trace: its comment says  *)
(* "We should never reach the end of the trace without hitting the stop    *)
(* condition", and debug_assert_ne!(status, ReplayExited) checks it.        *)
(***************************************************************************)
RestartStaysInTrace == phase = "Restarting" => pos # EndMark

(***************************************************************************)
(* The server keeps serving one process: while a client is connected, the  *)
(* execution target kept for restarts is the debuggee's thread group.      *)
(* restart_session says "we don't reset the target pid; we intentionally   *)
(* keep targeting the same process no matter what is running when we hit  *)
(* the event", and maybe_notify_stop only reports debuggee_tguid's stops.   *)
(***************************************************************************)
TargetIsDebuggee == phase = "Serving" => target.pid = debuggee
=============================================================================
