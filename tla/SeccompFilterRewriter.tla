------------------------ MODULE SeccompFilterRewriter ------------------------
(***************************************************************************)
(* src/seccomp_filter_rewriter.rs: the tasks of a thread group install     *)
(* seccomp-bpf filters through prctl or seccomp; rd rewrites every non-   *)
(* ALLOW verdict of the program into SECCOMP_RET_TRACE | index, with one   *)
(* shared result_to_index / index_to_result table, puts rules allowing its *)
(* own privileged rd-page callsites in front, installs the result by a     *)
(* remote syscall, and marks the task (and, with TSYNC, its siblings)      *)
(* seccomp-active.  When a syscall stops with a TRACE verdict, rd maps the *)
(* data back with map_filter_data_to_real_result.                          *)
(*                                                                         *)
(* A verdict k is a number: its action is k \div 2^DataBits and its data   *)
(* k % 2^DataBits, as SECCOMP_RET_ACTION_FULL and SECCOMP_RET_DATA split a *)
(* 32-bit value with 16 data bits.  A program is its sequence of           *)
(* instructions and, for each syscall input, the index of the RET it       *)
(* reaches: the rewrite changes only RET constants, never the jumps.        *)
(* The kernel's filter stacks, and the programs as the tracee wrote them,  *)
(* are kept per task to say what the tracee should observe.                *)
(***************************************************************************)
EXTENDS Integers, SequencesExt, Bitwise

CONSTANTS
  Tasks,            \* the tasks of one thread group
  Programs,         \* filter programs the tracee may install
  Inputs,           \* syscall inputs [nr, ip]
  RdPageSyscalls,   \* AddressSpace::rd_page_syscalls(): [privileged, ip]
  DataBits,         \* width of SECCOMP_RET_DATA (16), scaled down
  BaseCustomData,   \* BASE_CUSTOM_DATA (0x100), scaled down
  ActKill, ActTrap, ActErrno, ActTrace, ActAllow,  \* action values, in order
  MaxInstalls       \* bound on install attempts

RetData == 2^DataBits - 1                 \* SECCOMP_RET_DATA
Verdict(act, data) == act * 2^DataBits + data
ActionOf(k) == k \div 2^DataBits
DataOf(k) == k % 2^DataBits
RetAllow == Verdict(ActAllow, 0)          \* SECCOMP_RET_ALLOW
RetTrace == Verdict(ActTrace, 0)          \* SECCOMP_RET_TRACE

\* An instruction: its BPF class ("ret" or another), BPF_RVAL ("K" for a
\* constant, "A" for the accumulator) and constant k.
Instrs == [cls : {"ret", "alu"}, rval : {"K", "A"}, k : Nat]
ASSUME \A p \in Programs : p.code \in Seq(Instrs) /\ p.sel \in [Inputs -> DOMAIN p.code]

\* The exit points of the privileged rd-page entries, which the rewritten
\* filter allows before running the tracee's program.
PrivilegedIps == {e.ip : e \in {e \in RdPageSyscalls : e.privileged}}

VARIABLES
  resultToIndex, \* result_to_index: verdict -> index
  indexToResult, \* index_to_result, as a sequence
  stack,         \* stack[t]: the filters the kernel runs for t, oldest first
  orig,          \* orig[t]: the same filters as the tracee wrote them
  status,        \* prctl_seccomp_status
  installs,      \* install attempts so far
  aborted        \* an ed_assert! stopped the recorder

vars == <<resultToIndex, indexToResult, stack, orig, status, installs, aborted>>

(***************************************************************************)
(* The rewrite loop over the program's instructions: a RET must use BPF_K; *)
(* a constant other than ALLOW gets an index (a new one under the bound    *)
(* assertion) and becomes (BASE_CUSTOM_DATA + index) | SECCOMP_RET_TRACE.  *)
(* Returns the new code and tables, and whether an assertion failed.       *)
(***************************************************************************)
\* A variant without the bound assertion.
RoomForIndexUnchecked(n) == TRUE

\* The assertion before a new index: "Too many distinct constants".
RoomForIndex(n) == BaseCustomData + n < RetData

Rewrite(code, r2i, i2r) ==
  LET \* the loop's state after the first i instructions
      loop[i \in 0..Len(code)] ==
        IF i = 0 THEN [code |-> <<>>, r2i |-> r2i, i2r |-> i2r, ok |-> TRUE]
        ELSE LET s == loop[i - 1]
                 u == code[i]
                 isRet == u.cls = "ret"
                 fresh == isRet /\ u.k # RetAllow /\ u.k \notin DOMAIN s.r2i
                 r2i2 == IF fresh THEN [x \in DOMAIN s.r2i \cup {u.k} |->
                                          IF x = u.k THEN Len(s.i2r) ELSE s.r2i[x]]
                         ELSE s.r2i
                 u2 == IF isRet /\ u.k # RetAllow
                         THEN [u EXCEPT !.k = (BaseCustomData + r2i2[u.k]) | RetTrace]
                         ELSE u
             IN IF ~s.ok \/ (isRet /\ u.rval # "K") \/ (fresh /\ ~RoomForIndex(Len(s.i2r)))
                  THEN [s EXCEPT !.ok = FALSE]
                  ELSE [code |-> Append(s.code, u2), r2i |-> r2i2,
                        i2r |-> IF fresh THEN Append(s.i2r, u.k) ELSE s.i2r, ok |-> TRUE]
  IN loop[Len(code)]

\* The verdict one filter returns for input x.
RunFilter(f, x) == IF x.ip \in f.allowIps THEN RetAllow ELSE f.code[f.sel[x]].k

\* The kernel runs every filter of the stack, newest first, and keeps the
\* first result whose action is strictly more severe than those before.
RunStack(s, x) ==
  IF s = <<>> THEN RetAllow
  ELSE LET r == [i \in DOMAIN s |-> RunFilter(s[i], x)]
           best == CHOOSE a \in {ActionOf(r[i]) : i \in DOMAIN s} :
                     \A i \in DOMAIN s : a <= ActionOf(r[i])
       IN r[CHOOSE i \in DOMAIN s : ActionOf(r[i]) = best /\
                                   \A j \in DOMAIN s : j > i => ActionOf(r[j]) > best]

\* A variant that indexes the table one entry too far.
MapFilterDataToRealResultOffByOne(value) ==
  IF value < BaseCustomData THEN [ok |-> FALSE, asserts |-> FALSE, result |-> 0]
  ELSE IF ~(value + 1 < BaseCustomData + Len(indexToResult))
    THEN [ok |-> FALSE, asserts |-> TRUE, result |-> 0]
  ELSE [ok |-> TRUE, asserts |-> FALSE, result |-> indexToResult[value - BaseCustomData + 2]]

\* map_filter_data_to_real_result: values below BASE_CUSTOM_DATA are not
\* ours (false); a value past the table fails the ed_assert!.
MapFilterDataToRealResult(value) ==
  IF value < BaseCustomData THEN [ok |-> FALSE, asserts |-> FALSE, result |-> 0]
  ELSE IF ~(value < BaseCustomData + Len(indexToResult))
    THEN [ok |-> FALSE, asserts |-> TRUE, result |-> 0]
  ELSE [ok |-> TRUE, asserts |-> FALSE, result |-> indexToResult[value - BaseCustomData + 1]]

\* Not a verdict: rd found the data not its own, or stopped on the assertion.
NotOurs == -1
Asserted == -2

\* The verdict rd acts on for a kernel result k.
Recovered(k) ==
  IF ActionOf(k) = ActTrace
    THEN LET m == MapFilterDataToRealResult(DataOf(k))
         IN CASE m.ok -> m.result [] m.asserts -> Asserted [] OTHER -> NotOurs
    ELSE k

\* A variant that marks only the calling task.
StatusTargetsNoSync(t, viaSeccomp, tsync) == {t}

\* The tasks whose prctl_seccomp_status is set after a successful install:
\* t, and its siblings for seccomp(2) with SECCOMP_FILTER_FLAG_TSYNC.
StatusTargets(t, viaSeccomp, tsync) == IF viaSeccomp /\ tsync THEN Tasks ELSE {t}

\* seccomp(2) with TSYNC fails, returning a sibling's tid, unless every
\* sibling's filter stack is an ancestor of the caller's.
TsyncConflict(t) == \E u \in Tasks : ~IsPrefix(stack[u], stack[t])

Init ==
  /\ resultToIndex = [k \in {} |-> 0]
  /\ indexToResult = <<>>
  /\ stack = [t \in Tasks |-> <<>>]
  /\ orig = [t \in Tasks |-> <<>>]
  /\ status = [t \in Tasks |-> 0]
  /\ installs = 0
  /\ aborted = FALSE

\* The filter program can't be read: pass_through_seccomp_filter re-issues
\* the syscall, which fails, as its ed_assert! expects.
PassThroughSeccompFilter(t) ==
  /\ ~aborted
  /\ installs < MaxInstalls
  /\ installs' = installs + 1
  /\ UNCHANGED <<resultToIndex, indexToResult, stack, orig, status, aborted>>

\* The rewrite hits an ed_assert!: a RET with a register operand, or too
\* many distinct constants.
RewriteAsserts(t, p) ==
  /\ ~aborted
  /\ installs < MaxInstalls
  /\ ~Rewrite(p.code, resultToIndex, indexToResult).ok
  /\ installs' = installs + 1
  /\ aborted' = TRUE
  /\ UNCHANGED <<resultToIndex, indexToResult, stack, orig, status>>

(***************************************************************************)
(* install_patched_seccomp_filter_arch once the program is read: rewrite,  *)
(* prepend the rd-page rules, install by remote syscall (the kernel may    *)
(* fail it, or refuse TSYNC), set the syscall result, and mark tasks       *)
(* seccomp-active if the result is not an error.                           *)
(***************************************************************************)
InstallPatchedSeccompFilter(t, p, viaSeccomp, tsync, kernelFails) ==
  LET rw == Rewrite(p.code, resultToIndex, indexToResult)
      patched == [id |-> installs, allowIps |-> PrivilegedIps, code |-> rw.code, sel |-> p.sel]
      written == [id |-> installs, allowIps |-> {}, code |-> p.code, sel |-> p.sel]
      conflict == viaSeccomp /\ tsync /\ TsyncConflict(t)
      installed == ~kernelFails /\ ~conflict
      targets == IF viaSeccomp /\ tsync THEN Tasks ELSE {t}   \* the kernel's
  IN /\ ~aborted
     /\ installs < MaxInstalls
     /\ viaSeccomp \/ ~tsync
     /\ rw.ok
     /\ installs' = installs + 1
     /\ resultToIndex' = rw.r2i
     /\ indexToResult' = rw.i2r
     /\ stack' = [u \in Tasks |-> IF installed /\ u \in targets THEN Append(stack[t], patched) ELSE stack[u]]
     /\ orig' = [u \in Tasks |-> IF installed /\ u \in targets THEN Append(orig[t], written) ELSE orig[u]]
     /\ status' = [u \in Tasks |->
                     IF ~kernelFails /\ u \in StatusTargets(t, viaSeccomp, tsync) THEN 2 ELSE status[u]]
     /\ UNCHANGED aborted

Next ==
  \/ \E t \in Tasks : PassThroughSeccompFilter(t)
  \/ \E t \in Tasks, p \in Programs : RewriteAsserts(t, p)
  \/ \E t \in Tasks, p \in Programs, viaSeccomp, tsync, kernelFails \in BOOLEAN :
        InstallPatchedSeccompFilter(t, p, viaSeccomp, tsync, kernelFails)

Spec == Init /\ [][Next]_vars

-----------------------------------------------------------------------------
(***************************************************************************)
(* spec.md 4.4: for every installed filter and every input, the rewritten  *)
(* filter allows what the tracee's program allows, allows the privileged   *)
(* rd-page callsites, and otherwise returns TRACE with data that           *)
(* map_filter_data_to_real_result maps back to the tracee's verdict, even  *)
(* after other filters of other tasks added to the shared table.           *)
(***************************************************************************)
FilterVerdictPreserved ==
  \A t \in Tasks, x \in Inputs : \A i \in DOMAIN stack[t] :
    IF x.ip \in PrivilegedIps THEN RunFilter(stack[t][i], x) = RetAllow
    ELSE Recovered(RunFilter(stack[t][i], x)) = RunFilter(orig[t][i], x)

(***************************************************************************)
(* A task the kernel filters is seccomp-active for PR_GET_SECCOMP: a TSYNC *)
(* install reaches the siblings' status as well as their filter stacks.    *)
(***************************************************************************)
StatusReflectsFilter == \A t \in Tasks : stack[t] # <<>> => status[t] = 2

(***************************************************************************)
(* Conversely, a task marked seccomp-active has a filter installed.        *)
(***************************************************************************)
StatusImpliesFilter == \A t \in Tasks : status[t] = 2 => stack[t] # <<>>

(***************************************************************************)
(* With several filters installed, what rd recovers from the kernel's      *)
(* verdict is what the tracee's own filters would have made the kernel do. *)
(***************************************************************************)
StackVerdictPreserved ==
  \A t \in Tasks, x \in Inputs :
    x.ip \notin PrivilegedIps => Recovered(RunStack(stack[t], x)) = RunStack(orig[t], x)
=============================================================================
