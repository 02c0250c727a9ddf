----------------------------- MODULE RecordPrctl -----------------------------
(***************************************************************************)
(* The prctl branch of rec_prepare_syscall_arch (src/record_syscall.rs):    *)
(* rd records a tracee's prctl calls and hides itself from them.  It keeps *)
(* its own dumpable flag (per thread group), TSC mode and seccomp status   *)
(* (per task); it disables some calls in the kernel by setting arg1 to -1  *)
(* and replaces their result with an emulated one at the exit              *)
(* (process_syscall_results), and declares the errno it expects of calls   *)
(* it does not support.                                                    *)
(*                                                                         *)
(* A call goes through three steps: the preparation (Enter), the kernel    *)
(* running the call with the registers rd left (Kernel), and the exit      *)
(* (Exit), where an intercepted PR_SET_SECCOMP filter is installed by the  *)
(* SeccompFilterRewriter.  prctl is PreventSwitch, so no other task runs   *)
(* between the steps of one call.                                          *)
(*                                                                         *)
(* Beside rd's state and the kernel's, the model keeps the state an        *)
(* unrecorded Linux would have for the same calls of the program (the ref  *)
(* variables): what the tracee must observe.                               *)
(***************************************************************************)
EXTENDS Integers

CONSTANTS
  Tasks,      \* the tasks of one thread group
  Options,    \* the prctl options the tracee may pass (names below)
  Args2,      \* values of arg2
  Ptrs,       \* values of arg2 used as an address: Good or Null
  Good, Null, \* a writable address, and the null pointer
  \* the SeccompFilterRewriter's constants
  Programs, Inputs, RdPageSyscalls, DataBits, BaseCustomData,
  ActKill, ActTrap, ActErrno, ActTrace, ActAllow, MaxInstalls

EINVAL == 22
EFAULT == 14
EACCES == 13
PR_TSC_ENABLE == 1
PR_TSC_SIGSEGV == 2
SECCOMP_MODE_STRICT == 1
SECCOMP_MODE_FILTER == 2

\* Options rd lets through to the kernel untouched, and options it does not
\* know of at all.
PassThrough == "GET_KEEPCAPS"
Unknown == "UNKNOWN"

VARIABLES
  dumpable,         \* thread_group().dumpable
  tscMode,          \* tsc_mode
  seccompStatus,    \* prctl_seccomp_status
  doneInitialExec,  \* session().done_initial_exec()
  kDumpable,        \* the kernel's dumpable flag
  kSeccomp,         \* the kernel's seccomp mode of each task
  phase,            \* "idle", "entered" (prepared), "exited" (kernel done)
  call,             \* the call: [op, a2, ptr] and whether rd disabled it (arg1 = -1)
  emul,             \* [on, val]: should_emulate_result, emulated_result
  expectErrno,      \* expect_errno
  kret,             \* the result register after the kernel ran the call
  result,           \* the result the tracee sees after the exit
  cell,             \* the int the tracee passed the address of, per task
  aborted,          \* rd stopped on a failed write to tracee memory
  resultToIndex, indexToResult, stack, orig, installs,  \* the SeccompFilterRewriter's
  filterAborted,    \* the rewriter's ed_assert! stopped rd
  rDumpable, rTsc, rSeccomp, rResult, rCell  \* an unrecorded Linux

refVars == <<rDumpable, rTsc, rSeccomp, rResult, rCell>>
filterVars == <<resultToIndex, indexToResult, stack, orig, installs, filterAborted>>
vars == <<dumpable, tscMode, seccompStatus, doneInitialExec, kDumpable, kSeccomp,
          phase, call, emul, expectErrno, kret, result, cell, aborted, refVars, filterVars>>

\* The rewriter shares prctl_seccomp_status with the prctl emulation.
SFR == INSTANCE SeccompFilterRewriter WITH status <- seccompStatus, aborted <- filterAborted

Calls == [op : Options, a2 : Args2, ptr : Ptrs]
NoEmul == [on |-> FALSE, val |-> 0]
Emul(v) == [on |-> TRUE, val |-> v]

\* No syscall in progress: the TaskSyscallState is dropped after the exit.
NoCall == [op |-> PassThrough, a2 |-> 0, ptr |-> Good, disabled |-> FALSE]

(***************************************************************************)
(* What an unrecorded Linux does with a call c of task t: the result, and  *)
(* the new dumpable flag, TSC mode, seccomp mode and int at c.ptr.         *)
(* (A filter install may be refused: ok says whether it succeeded.)        *)
(***************************************************************************)
LinuxResult(c, t, ok) ==
  CASE c.op = "GET_DUMPABLE" -> IF rDumpable THEN 1 ELSE 0
    [] c.op = "SET_DUMPABLE" -> IF c.a2 \in {0, 1} THEN 0 ELSE -EINVAL
    [] c.op = "GET_TSC" -> IF c.ptr = Null THEN -EFAULT ELSE 0
    [] c.op = "SET_TSC" -> IF c.a2 \in {PR_TSC_ENABLE, PR_TSC_SIGSEGV} THEN 0 ELSE -EINVAL
    [] c.op = "GET_SECCOMP" -> rSeccomp[t]
    [] c.op = "SET_SECCOMP" ->
         CASE c.a2 # SECCOMP_MODE_FILTER -> -EINVAL
           [] c.ptr = Null -> -EFAULT
           [] OTHER -> IF ok THEN 0 ELSE -EACCES
    [] c.op = "SET_PTRACER" -> 0
    [] c.op = "SET_NO_NEW_PRIVS" -> IF c.a2 = 1 THEN 0 ELSE -EINVAL
    [] c.op = PassThrough -> 0
    [] c.op = Unknown -> -EINVAL

LinuxCall(t, c, ok) ==
  /\ rResult' = [rResult EXCEPT ![t] = LinuxResult(c, t, ok)]
  /\ rDumpable' = IF c.op = "SET_DUMPABLE" /\ c.a2 \in {0, 1} THEN c.a2 = 1 ELSE rDumpable
  /\ rTsc' = IF c.op = "SET_TSC" /\ c.a2 \in {PR_TSC_ENABLE, PR_TSC_SIGSEGV}
               THEN [rTsc EXCEPT ![t] = c.a2] ELSE rTsc
  /\ rSeccomp' = IF c.op = "SET_SECCOMP" /\ c.a2 = SECCOMP_MODE_FILTER /\ ok
                   THEN [rSeccomp EXCEPT ![t] = 2] ELSE rSeccomp
  /\ rCell' = IF c.op = "GET_TSC" /\ c.ptr = Good THEN [rCell EXCEPT ![t] = rTsc[t]] ELSE rCell

-----------------------------------------------------------------------------
(***************************************************************************)
(* rd's handling.                                                          *)
(***************************************************************************)

\* A variant that accepts any TSC mode.
ValidTscModeAny(val) == TRUE

\* PR_SET_TSC: only PR_TSC_ENABLE and PR_TSC_SIGSEGV are modes.
ValidTscMode(val) == val \in {PR_TSC_ENABLE, PR_TSC_SIGSEGV}

\* A variant that reads the seccomp mode from the kernel.
GetSeccompValueKernel(t) == kSeccomp[t]

\* PR_GET_SECCOMP: rd's own status, which hides rd's bootstrap filter.
GetSeccompValue(t) == seccompStatus[t]

(***************************************************************************)
(* The preparation of prctl(c.op, c.a2, ...) by task t: one arm of the     *)
(* match.  Each arm says whether rd disables the call (arg1 = -1), what it *)
(* emulates, what errno it expects, and what it changes; PR_GET_TSC writes *)
(* the TSC mode to the address in arg2 at once (write_val_mem).  Before the *)
(* initial exec only rd's own child runs, installing rd's filter.          *)
(***************************************************************************)
Enter(t, c) ==
  LET getTsc == c.op = "GET_TSC"
      disable == \/ c.op \in {"GET_TSC", "SET_TSC", "SET_PTRACER"}
                 \/ c.op = "SET_DUMPABLE" /\ c.a2 = 0
                 \/ c.op = "SET_SECCOMP" /\ c.a2 = SECCOMP_MODE_FILTER /\ doneInitialExec
      em == CASE c.op = "SET_DUMPABLE" /\ c.a2 = 0 -> Emul(0)
              [] c.op = "GET_DUMPABLE" -> Emul(IF dumpable THEN 1 ELSE 0)
              [] c.op = "GET_SECCOMP" -> Emul(GetSeccompValue(t))
              [] c.op \in {"GET_TSC", "SET_PTRACER"} -> Emul(0)
              [] c.op = "SET_TSC" -> IF ValidTscMode(c.a2) THEN Emul(0) ELSE Emul(-EINVAL)
              [] OTHER -> NoEmul
      errno == IF \/ c.op = Unknown
                  \/ c.op = "SET_NO_NEW_PRIVS" /\ c.a2 # 1
                  \/ c.op = "SET_SECCOMP" /\ c.a2 \notin {SECCOMP_MODE_STRICT, SECCOMP_MODE_FILTER}
               THEN EINVAL ELSE 0
  IN /\ \A u \in Tasks : phase[u] = "idle"
     /\ ~aborted /\ ~filterAborted
     \* the model's bound on filter installs
     /\ disable /\ c.op = "SET_SECCOMP" => installs < MaxInstalls
     /\ doneInitialExec \/ (c.op = "SET_SECCOMP" /\ c.a2 = SECCOMP_MODE_FILTER)
     /\ phase' = [phase EXCEPT ![t] = "entered"]
     /\ call' = [call EXCEPT ![t] = [op |-> c.op, a2 |-> c.a2, ptr |-> c.ptr, disabled |-> disable]]
     /\ emul' = [emul EXCEPT ![t] = em]
     /\ expectErrno' = [expectErrno EXCEPT ![t] = errno]
     /\ dumpable' = IF c.op = "SET_DUMPABLE" /\ c.a2 \in {0, 1} THEN c.a2 = 1 ELSE dumpable
     /\ tscMode' = IF c.op = "SET_TSC" /\ ValidTscMode(c.a2)
                     THEN [tscMode EXCEPT ![t] = c.a2] ELSE tscMode
     \* write_val_mem to the address reg_parameter returned: a null address
     \* cannot be written; whether rd then stops or goes on is not in this
     \* repository, so both are possible.
     /\ \/ /\ getTsc /\ c.ptr = Good
           /\ cell' = [cell EXCEPT ![t] = tscMode[t]]
           /\ UNCHANGED aborted
        \/ /\ getTsc /\ c.ptr = Null
           /\ aborted' \in BOOLEAN
           /\ UNCHANGED cell
        \/ /\ ~getTsc
           /\ UNCHANGED <<cell, aborted>>
     /\ UNCHANGED <<seccompStatus, doneInitialExec, kDumpable, kSeccomp, kret, result,
                    refVars, filterVars>>

(***************************************************************************)
(* The kernel runs the call as rd left it: a disabled call (arg1 = -1)     *)
(* fails with EINVAL; the others act on the kernel's state.  Before the     *)
(* initial exec the kernel installs rd's own filter.                        *)
(***************************************************************************)
Kernel(t) ==
  LET c == call[t]
      setsDumpable == ~c.disabled /\ c.op = "SET_DUMPABLE" /\ c.a2 \in {0, 1}
      setsFilter == ~c.disabled /\ c.op = "SET_SECCOMP" /\ c.a2 = SECCOMP_MODE_FILTER
      r == IF c.disabled THEN -EINVAL
           ELSE CASE c.op = "GET_DUMPABLE" -> IF kDumpable THEN 1 ELSE 0
                  [] c.op = "GET_SECCOMP" -> kSeccomp[t]
                  [] c.op \in {"SET_DUMPABLE", "SET_SECCOMP"} -> IF setsDumpable \/ setsFilter THEN 0 ELSE -EINVAL
                  [] c.op = "SET_NO_NEW_PRIVS" -> IF c.a2 = 1 THEN 0 ELSE -EINVAL
                  [] c.op = PassThrough -> 0
                  [] OTHER -> -EINVAL
  IN /\ phase[t] = "entered"
     /\ phase' = [phase EXCEPT ![t] = "exited"]
     /\ kret' = [kret EXCEPT ![t] = r]
     /\ kDumpable' = IF setsDumpable THEN c.a2 = 1 ELSE kDumpable
     /\ kSeccomp' = IF setsFilter THEN [kSeccomp EXCEPT ![t] = 2] ELSE kSeccomp
     /\ UNCHANGED <<dumpable, tscMode, seccompStatus, doneInitialExec, call, emul,
                    expectErrno, result, cell, aborted, refVars, filterVars>>

(***************************************************************************)
(* The exit.  process_syscall_results puts the emulated result, if any, in *)
(* the result register over the kernel's (ret), and the call's              *)
(* TaskSyscallState is dropped.                                            *)
(***************************************************************************)
Finish(t, ret) ==
  /\ phase' = [phase EXCEPT ![t] = "idle"]
  /\ result' = [result EXCEPT ![t] = IF emul[t].on THEN emul[t].val ELSE ret]
  /\ call' = [call EXCEPT ![t] = NoCall]
  /\ emul' = [emul EXCEPT ![t] = NoEmul]
  /\ expectErrno' = [expectErrno EXCEPT ![t] = 0]
  /\ kret' = [kret EXCEPT ![t] = 0]

(***************************************************************************)
(* A filter install rd disabled is done at the exit by the                 *)
(* SeccompFilterRewriter (spec.md 4.4): an unreadable program is passed    *)
(* through, and the re-issued call fails with EFAULT; a program it cannot  *)
(* rewrite stops rd on an ed_assert!; otherwise the patched program is     *)
(* installed by a remote prctl, whose result (0, or the kernel's refusal)  *)
(* is the call's.  The other calls keep the kernel's result.  Linux's view *)
(* advances by the program's call.                                         *)
(***************************************************************************)
Exit(t) ==
  LET c == call[t]
      intercepted == c.disabled /\ c.op = "SET_SECCOMP"
      linux(ok) == IF doneInitialExec THEN LinuxCall(t, c, ok) ELSE UNCHANGED refVars
  IN /\ phase[t] = "exited"
     /\ \/ /\ ~intercepted
           /\ Finish(t, kret[t])
           /\ linux(TRUE)
           /\ UNCHANGED <<seccompStatus, kSeccomp, filterVars>>
        \/ /\ intercepted /\ c.ptr = Null
           /\ SFR!PassThroughSeccompFilter(t)
           /\ Finish(t, -EFAULT)
           /\ linux(FALSE)
           /\ UNCHANGED <<seccompStatus, kSeccomp, filterAborted>>
        \/ /\ intercepted /\ c.ptr = Good
           /\ \E p \in Programs : SFR!RewriteAsserts(t, p)
           /\ UNCHANGED <<phase, result, call, emul, expectErrno, kret, kSeccomp, refVars>>
        \/ /\ intercepted /\ c.ptr = Good
           /\ \E p \in Programs, kernelFails \in BOOLEAN :
                /\ SFR!InstallPatchedSeccompFilter(t, p, FALSE, FALSE, kernelFails)
                /\ Finish(t, IF kernelFails THEN -EACCES ELSE 0)
                /\ kSeccomp' = IF kernelFails THEN kSeccomp ELSE [kSeccomp EXCEPT ![t] = 2]
                /\ linux(~kernelFails)
     /\ UNCHANGED <<dumpable, tscMode, doneInitialExec, kDumpable, cell, aborted>>

\* rd has stopped on the rewriter's assertion: nothing happens any more.
Halted ==
  /\ filterAborted
  /\ UNCHANGED vars

\* rd's child execs the tracee's program.
InitialExec ==
  /\ ~doneInitialExec
  /\ \A u \in Tasks : phase[u] = "idle"
  /\ doneInitialExec' = TRUE
  /\ UNCHANGED <<dumpable, tscMode, seccompStatus, kDumpable, kSeccomp, phase, call,
                 emul, expectErrno, kret, result, cell, aborted, refVars, filterVars>>

Init ==
  /\ dumpable = TRUE
  /\ tscMode = [t \in Tasks |-> PR_TSC_ENABLE]
  /\ seccompStatus = [t \in Tasks |-> 0]
  /\ doneInitialExec = FALSE
  /\ kDumpable = TRUE
  /\ kSeccomp = [t \in Tasks |-> 0]
  /\ phase = [t \in Tasks |-> "idle"]
  /\ call = [t \in Tasks |-> NoCall]
  /\ emul = [t \in Tasks |-> NoEmul]
  /\ expectErrno = [t \in Tasks |-> 0]
  /\ kret = [t \in Tasks |-> 0]
  /\ result = [t \in Tasks |-> 0]
  /\ cell = [t \in Tasks |-> 0]
  /\ aborted = FALSE
  /\ rDumpable = TRUE
  /\ rTsc = [t \in Tasks |-> PR_TSC_ENABLE]
  /\ rSeccomp = [t \in Tasks |-> 0]
  /\ rResult = [t \in Tasks |-> 0]
  /\ rCell = [t \in Tasks |-> 0]
  /\ resultToIndex = [k \in {} |-> 0]
  /\ indexToResult = <<>>
  /\ stack = [t \in Tasks |-> <<>>]
  /\ orig = [t \in Tasks |-> <<>>]
  /\ installs = 0
  /\ filterAborted = FALSE

\* SECCOMP_MODE_STRICT is left out: after it a task can make no prctl.
Next ==
  \/ \E t \in Tasks, c \in Calls :
       /\ ~(c.op = "SET_SECCOMP" /\ c.a2 = SECCOMP_MODE_STRICT)
       /\ Enter(t, c)
  \/ \E t \in Tasks : Kernel(t) \/ Exit(t)
  \/ InitialExec
  \/ Halted

Spec == Init /\ [][Next]_vars

-----------------------------------------------------------------------------
TypeOK ==
  /\ dumpable \in BOOLEAN /\ kDumpable \in BOOLEAN
  /\ tscMode \in [Tasks -> {PR_TSC_ENABLE, PR_TSC_SIGSEGV}]
  /\ seccompStatus \in [Tasks -> {0, 2}]
  /\ phase \in [Tasks -> {"idle", "entered", "exited"}]
  /\ expectErrno \in [Tasks -> {0, EINVAL}]
  /\ emul \in [Tasks -> [on : BOOLEAN, val : Int]]

(***************************************************************************)
(* rd hides itself from the tracee's prctl calls: after every call of the  *)
(* program, the result it sees, and the int PR_GET_TSC stored for it, are  *)
(* what Linux would give the same program without rd; and rd never stops  *)
(* on a call the program may make.  This ties the emulated results, the    *)
(* calls rd disables, the flags it keeps for the thread group and for each *)
(* task, and rd's own filter installed before the initial exec, together.  *)
(***************************************************************************)
TraceeSeesLinux ==
  /\ ~aborted
  /\ doneInitialExec =>
       \A t \in Tasks : phase[t] = "idle" => result[t] = rResult[t] /\ cell[t] = rCell[t]
=============================================================================
