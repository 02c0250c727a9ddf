---------------------------- MODULE AtomicSyscall ----------------------------
(***************************************************************************)
(* What the record of a syscall promises replay, as seen through the       *)
(* buffers of the tracee: the recorded memory changes only by the user     *)
(* code of a thread that is not in a syscall, or all at once when a        *)
(* syscall exits, and then only in that syscall's output buffers and      *)
(* only to contents the tracee could hold (never a pointer into rd's       *)
(* scratch).  A cancelled syscall leaves the record as it was.  Entering, *)
(* the kernel's work and everything rd does in between are invisible.     *)
(***************************************************************************)
CONSTANTS
  Tasks,
  Buffers,
  Values,   \* the contents a buffer may hold
  Outputs   \* the contents a syscall may leave in an output buffer

VARIABLES
  vis,        \* the recorded contents of each buffer
  inSyscall,  \* the task is between the entry and the exit of a syscall
  outs        \* the output buffers of the task's syscall

vars == <<vis, inSyscall, outs>>

Init ==
  /\ vis \in [Buffers -> Values]
  /\ inSyscall = [t \in Tasks |-> FALSE]
  /\ outs = [t \in Tasks |-> {}]

Enter(t, os) ==
  /\ ~inSyscall[t]
  /\ inSyscall' = [inSyscall EXCEPT ![t] = TRUE]
  /\ outs' = [outs EXCEPT ![t] = os]
  /\ UNCHANGED vis

UserWrite(u, b) ==
  /\ ~inSyscall[u]
  /\ vis' = [vis EXCEPT ![b].d = 1]
  /\ UNCHANGED <<inSyscall, outs>>

Exit(t) ==
  /\ inSyscall[t]
  /\ \E new \in [outs[t] -> Outputs] :
       vis' = [b \in Buffers |-> IF b \in outs[t] THEN new[b] ELSE vis[b]]
  /\ inSyscall' = [inSyscall EXCEPT ![t] = FALSE]
  /\ outs' = [outs EXCEPT ![t] = {}]

Cancel(t) ==
  /\ inSyscall[t]
  /\ inSyscall' = [inSyscall EXCEPT ![t] = FALSE]
  /\ outs' = [outs EXCEPT ![t] = {}]
  /\ UNCHANGED vis

Next ==
  \/ \E t \in Tasks, os \in SUBSET Buffers : Enter(t, os)
  \/ \E u \in Tasks, b \in Buffers : UserWrite(u, b)
  \/ \E t \in Tasks : Exit(t) \/ Cancel(t)

Spec == Init /\ [][Next]_vars
=============================================================================
