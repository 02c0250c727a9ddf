--------------------------- MODULE ReplayTimeline ---------------------------
(***************************************************************************)
(* The ReplayTimeline collaborator of the GdbServer: a navigable position  *)
(* ("mark") inside a recorded trace, explicit-checkpoint pins, breakpoints  *)
(* and the reverse-execution barrier.  Its Rust module is not part of this  *)
(* repository, so every definition here is modelled from spec.md (4.1).    *)
(*                                                                         *)
(* A trace is a sequence of frames, each run by one task.  Frames of kind  *)
(* "exit" and "exec" stop twice: once in the middle of the frame (at        *)
(* PTRACE_EVENT_EXIT, or between execve entry and exit) and once when the  *)
(* frame is complete.  A mark is an integer: 2k is "frames 1..k done", 2k+1 *)
(* is "in the middle of frame k+1".  Marks are totally ordered along the    *)
(* trace, as spec.md section 3 requires.                                    *)
(***************************************************************************)
EXTENDS Integers, FiniteSets, Sequences

CONSTANTS
  Tasks,              \* recorded tasks (model values)
  TG,                 \* TG[t]: the thread group of task t
  Trace,              \* << [task |-> t, kind |-> k], ... >>
  NoCheckpointFrames, \* frames before which the session cannot be cloned
  BreakFrames         \* frames at which a breakpoint may be set

MidKinds == {"exit", "exec"}
FrameKinds == {"run", "signal"} \cup MidKinds

ASSUME Trace \in Seq([task : Tasks, kind : FrameKinds]) /\ Len(Trace) > 0

VARIABLES
  pos,      \* the current mark of the timeline's ReplaySession
  pins,     \* pins[m]: explicit-checkpoint reference count of mark m
  bps,      \* frames at which a breakpoint is set
  barrier   \* reverse-execution barrier event, 0 when unset

timelineVars == <<pos, pins, bps, barrier>>

N == Len(Trace)

\* The frame being (or about to be) replayed at mark m; N + 1 at the end.
Cur(m) == m \div 2 + 1
Mid(m) == m % 2 = 1

Marks == {m \in 0..2 * N :
            ~Mid(m) \/ (Cur(m) <= N /\ Trace[Cur(m)].kind \in MidKinds)}

EndMark == 2 * N

\* current_trace_frame().time() at mark m.
FrameTime(m) == Cur(m)

\* current_session().current_task(): none once the trace is exhausted.
HasCurrentTask(m) == Cur(m) <= N
CurrentTask(m) == Trace[Cur(m)].task

\* current_step_key().in_execution(): a frame is partially replayed.
InExecution(m) == Mid(m)

\* can_add_checkpoint(): false mid-frame or where the session can't clone.
CanAddCheckpoint(m) == ~Mid(m) /\ Cur(m) \notin NoCheckpointFrames

\* Frames completely replayed at mark m are 1..Done(m).
Done(m) == m \div 2

DoneInitialExec(m) == \E k \in 1..Done(m) : Trace[k].kind = "exec"

Execed(t, m) == \E k \in 1..Done(m) : Trace[k].task = t /\ Trace[k].kind = "exec"

\* Tasks of t's thread group alive while frame e is replayed: born by e and
\* not exited in an earlier frame.
GroupAlive(t, e) ==
  {u \in Tasks : /\ TG[u] = TG[t]
                 /\ \E k \in 1..e : Trace[k].task = u
                 /\ ~\E k \in 1..e - 1 : Trace[k].task = u /\ Trace[k].kind = "exit"}

GroupStart(t) == CHOOSE k \in 1..N : TG[Trace[k].task] = TG[t]
                    /\ \A j \in 1..k - 1 : TG[Trace[j].task] # TG[t]

NextMark(m) == IF m + 1 \in Marks THEN m + 1 ELSE m + 2
PrevMark(m) == IF m - 1 \in Marks THEN m - 1 ELSE m - 2

\* The mark "just before event e" used by seek_to_before_event.
BeforeEvent(e) == 2 * (e - 1)
BarrierMark == IF barrier > 0 THEN BeforeEvent(barrier) ELSE 0

(***************************************************************************)
(* BreakStatus: task, task_exit, breakpoint_hit, signal, and the size of   *)
(* the task's thread group (is_last_thread_exit tests it against 1).       *)
(***************************************************************************)
BreakStatus(t, exit, bp, sig, gsize) ==
  [task |-> t, exit |-> exit, bp |-> bp, signal |-> sig, gsize |-> gsize]

\* The break status of the forward step from mark m to NextMark(m).
ForwardBreak(m) ==
  LET f == Cur(m)
      t == Trace[f].task
      entersMid == ~Mid(m) /\ Trace[f].kind \in MidKinds
  IN IF entersMid
       THEN BreakStatus(t, Trace[f].kind = "exit", FALSE, FALSE,
                        Cardinality(GroupAlive(t, f)))
       ELSE BreakStatus(t, FALSE, f \in bps, Trace[f].kind = "signal",
                        Cardinality(GroupAlive(t, f)))

\* The break status of the reverse step from mark m to PrevMark(m): undoing
\* the first frame of a thread group looks like the exit of its only task.
\* At the barrier, the timeline reports the start of time the same way.
ReverseBreak(m) ==
  IF m = BarrierMark
    THEN BreakStatus(CurrentTask(m), TRUE, FALSE, FALSE, 1)
    ELSE LET f == Cur(PrevMark(m))
             t == Trace[f].task
         IN BreakStatus(t, f = GroupStart(t) /\ ~Mid(PrevMark(m)),
                        f \in bps /\ ~Mid(m), FALSE,
                        Cardinality(GroupAlive(t, f)))

(***************************************************************************)
(* Operations the GdbServer calls, as operators on marks and pin tables.    *)
(***************************************************************************)

\* Where seek_to_before_event(e) lands: seeking below the barrier is
\* treated as the start of time, seeking past the trace stops at its end.
SeekBeforeEventMark(e) ==
  IF BeforeEvent(e) < BarrierMark THEN BarrierMark
  ELSE IF BeforeEvent(e) > EndMark THEN EndMark
  ELSE BeforeEvent(e)

\* The pin table after add_explicit_checkpoint at m / remove_explicit_checkpoint(m).
Pin(p, m) == [p EXCEPT ![m] = @ + 1]
Unpin(p, m) == [p EXCEPT ![m] = @ - 1]

TimelineInit ==
  /\ pos = 0
  /\ pins = [m \in Marks |-> 0]
  /\ bps = {}
  /\ barrier = 0

TimelineTypeOK ==
  /\ pos \in Marks
  /\ pins \in [Marks -> Nat]
  /\ bps \subseteq BreakFrames
  /\ barrier \in 0..N
=============================================================================
