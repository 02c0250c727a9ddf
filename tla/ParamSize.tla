------------------------------ MODULE ParamSize ------------------------------
(***************************************************************************)
(* ParamSize of src/record_syscall.rs: how many bytes of a syscall memory  *)
(* parameter process_syscall_results writes back and records.  A size has *)
(* an incoming bound, and may also be limited by a tracee memory cell the  *)
(* kernel fills in (mem_ptr) or by the syscall result (from_syscall).      *)
(* Parameters whose size comes from the same source share it in            *)
(* registration order (eval_param_size): the way an iovec array is         *)
(* recorded.                                                                *)
(*                                                                         *)
(* The state is the loop of eval_param_size calls over one param_list at  *)
(* syscall exit: the inputs (the list, the cells the kernel wrote, the     *)
(* syscall result) are chosen initially, and actual_sizes grows one        *)
(* parameter per step.                                                     *)
(***************************************************************************)
EXTENDS Integers, Sequences, FiniteSetsExt, Functions

CONSTANTS
  Ptrs,       \* tracee addresses of size cells
  NullPtr,    \* the null RemotePtr
  ReadSizeOf, \* ReadSizeOf[p]: size_of::<T>() of the cell at p (4 or 8)
  IntMax,     \* i32::MAX, scaled down
  WordMod,    \* WordMod[4] = 2^32, WordMod[8] = 2^64, scaled down
  Lists,      \* the param_lists to evaluate (sequences of ParamSize records)
  CellValues, \* values the kernel may leave in a size cell
  Results     \* syscall results (signed)

ReadSizes == {4, 8}
ASSUME ReadSizeOf \in [Ptrs -> ReadSizes] /\ WordMod \in [ReadSizes -> Nat \ {0}]

(***************************************************************************)
(* The ParamSize constructors.                                             *)
(***************************************************************************)

\* #[derive(Default)]: every field zero.
DefaultSize == [incoming |-> 0, memPtr |-> NullPtr, readSize |-> 0, fromSyscall |-> FALSE]

\* A variant of From<usize> without the cap.
FromSizeUncapped(n) == [DefaultSize EXCEPT !.incoming = n]

\* From<usize>: the incoming size, capped at i32::MAX.
FromSize(n) == [DefaultSize EXCEPT !.incoming = Min({IntMax, n})]

\* from_initialized_mem: incoming is the value the tracee put at p (0 for a
\* null p); the kernel overwrites the cell at exit.
FromInitializedMem(p, entryValue) ==
  [FromSize(IF p = NullPtr THEN 0 ELSE entryValue) EXCEPT
     !.memPtr = p, !.readSize = IF p = NullPtr THEN 4 ELSE ReadSizeOf[p]]

\* from_mem: only the cell the kernel fills in, on a default size.
FromMem(p) == [DefaultSize EXCEPT !.memPtr = p, !.readSize = ReadSizeOf[p]]

\* from_syscall_result / from_syscall_result_with_size for a result of rs bytes.
FromSyscallResult(rs) == [DefaultSize EXCEPT !.fromSyscall = TRUE, !.readSize = rs]
FromSyscallResultWithSize(rs, n) == [FromSize(n) EXCEPT !.fromSyscall = TRUE, !.readSize = rs]

\* limit_size.
LimitSize(ps, max) == [ps EXCEPT !.incoming = Min({@, max})]

VARIABLES
  params,  \* the param_list, by num_bytes
  cell,    \* cell[p]: what the kernel left at p
  result,  \* the syscall result register
  actual   \* actual_sizes

vars == <<params, cell, result, actual>>

\* A variant that takes every earlier parameter as sharing the source.
IsSameSourceAlways(self, other) == TRUE

\* is_same_source: other's dynamic size comes from the same source as self.
IsSameSource(self, other) ==
  /\ \/ self.memPtr # NullPtr /\ other.memPtr = self.memPtr
     \/ self.fromSyscall /\ other.fromSyscall
  /\ self.readSize = other.readSize

\* The syscall result as a size: negative results count as 0, then the
\* value is cast to the result type's width.
SyscallSize(rs) == Max({0, result}) % WordMod[rs]

\* A variant that ignores what earlier parameters consumed.
EvalNoConsumed(ps, consumed) ==
  LET s1 == IF ps.memPtr = NullPtr THEN ps.incoming ELSE Min({ps.incoming, cell[ps.memPtr]})
      s2 == IF ps.fromSyscall THEN Min({s1, SyscallSize(ps.readSize)}) ELSE s1
  IN [ok |-> TRUE, size |-> s2]

(***************************************************************************)
(* eval: the incoming size, limited by what is left of the cell value and *)
(* of the syscall result after already_consumed; each of those two needs   *)
(* already_consumed not to exceed it (ed_assert!).                         *)
(***************************************************************************)
Eval(ps, consumed) ==
  LET memOk == ps.memPtr = NullPtr \/ consumed <= cell[ps.memPtr]
      s1 == IF ps.memPtr = NullPtr THEN ps.incoming
            ELSE Min({ps.incoming, cell[ps.memPtr] - consumed})
      sysOk == ~ps.fromSyscall \/ consumed <= SyscallSize(ps.readSize)
      s2 == IF ps.fromSyscall THEN Min({s1, SyscallSize(ps.readSize) - consumed}) ELSE s1
  IN [ok |-> memOk /\ sysOk, size |-> s2]

\* eval_param_size's already_consumed for parameter i: the actual sizes of
\* the earlier parameters drawing on the same source.
AlreadyConsumed(i) ==
  SumFunctionOnSet(actual, {j \in 1..i - 1 : IsSameSource(params[j], params[i])})

Init ==
  /\ params \in Lists
  /\ cell \in [Ptrs -> CellValues]
  /\ result \in Results
  /\ actual = <<>>

\* The parameter eval_param_size handles next.
NextParam == Len(actual) + 1

\* eval_param_size for the next parameter, as process_syscall_results calls
\* it in order (a failing ed_assert! is NoConsumedAssert's business).
EvalParamSize ==
  /\ NextParam <= Len(params)
  /\ actual' = Append(actual, Eval(params[NextParam], AlreadyConsumed(NextParam)).size)
  /\ UNCHANGED <<params, cell, result>>

Next == EvalParamSize

Spec == Init /\ [][Next]_vars /\ WF_vars(Next)

-----------------------------------------------------------------------------
TypeOK ==
  /\ params \in Lists
  /\ actual \in Seq(0..IntMax)
  /\ Len(actual) <= Len(params)

Complete == Len(actual) = Len(params)

\* The parameters that draw on the size cell at p, and on the syscall result.
UsersOfCell(p) == {i \in DOMAIN params : params[i].memPtr = p}
UsersOfResult(rs) == {i \in DOMAIN params : params[i].fromSyscall /\ params[i].readSize = rs}

Incoming(S) == SumFunctionOnSet([i \in DOMAIN params |-> params[i].incoming], S)

(***************************************************************************)
(* eval never trips its ed_assert!(already_consumed <= size): for any list *)
(* built with the constructors, the parameters sharing a source never      *)
(* consume more than the source holds, in whatever order they come.        *)
(***************************************************************************)
NoConsumedAssert ==
  NextParam <= Len(params) => Eval(params[NextParam], AlreadyConsumed(NextParam)).ok

(***************************************************************************)
(* The shared source is recorded exactly: once every size is evaluated,    *)
(* the parameters drawing on a size cell (or on the syscall result) record *)
(* together what the kernel reported, or all their incoming room if that  *)
(* is less; no byte is recorded twice and none is left out.                *)
(***************************************************************************)
RecordsWholeSource ==
  Complete =>
    /\ \A p \in Ptrs : UsersOfCell(p) # {} =>
         SumFunctionOnSet(actual, UsersOfCell(p)) = Min({cell[p], Incoming(UsersOfCell(p))})
    /\ \A rs \in ReadSizes : UsersOfResult(rs) # {} =>
         SumFunctionOnSet(actual, UsersOfResult(rs)) = Min({SyscallSize(rs), Incoming(UsersOfResult(rs))})
=============================================================================
