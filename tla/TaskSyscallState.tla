--------------------------- MODULE TaskSyscallState ---------------------------
(***************************************************************************)
(* The record-time scratch protocol of src/record_syscall.rs: the tasks of  *)
(* one address space enter syscalls whose buffer arguments are registered  *)
(* (reg_parameter_with_size, mem_ptr_parameter_with_size), redirected to    *)
(* per-task scratch by done_preparing, written by the kernel, and copied    *)
(* back and recorded by process_syscall_results (or undone by              *)
(* abort_syscall_results).  Other threads run user code meanwhile, unless  *)
(* the syscall is PreventSwitch.                                           *)
(*                                                                         *)
(* A buffer's contents are a cell [d, p]: d abstracts the data (0 initial, *)
(* 1 written by user code, 2 written by the kernel, 3 changed by a         *)
(* mutator) and p is the pointer the buffer holds, if it holds one:        *)
(* "dest" (the tracee's own buffer) or "scratch" (a relocated pointer).    *)
(* rmem is the memory that replay rebuilds from user code and the recorded  *)
(* syscall outputs.                                                        *)
(***************************************************************************)
EXTENDS Integers, Sequences

CONSTANTS
  Tasks,             \* recording tasks sharing one address space
  Buffers,           \* tracee buffers a syscall may take
  NoBuffer,          \* a null pointer argument
  Syscalls,          \* SyscallsOf[t]: the syscalls task t may make
  SyscallsOf,
  HasScratch,        \* tasks whose scratch_ptr is not null
  UsableScratchSize  \* t.usable_scratch_size()

ArgModes == {"In", "Out", "InOut", "InOutNoScratch"}
Mutators == {"none", "modifies", "unchanged"}   \* no mutator / returns true / returns false
Switchables == {"AllowSwitch", "PreventSwitch"}

\* A syscall as its pre-handler registers it: a parameter's pointer is in a
\* register (ptrIn = NoBuffer) or inside an earlier parameter's buffer.
ParamSpecs == [dest : Buffers \cup {NoBuffer}, mode : ArgModes, size : Nat,
               mutator : Mutators, ptrIn : Buffers \cup {NoBuffer}]

ASSUME Syscalls \subseteq [params : Seq(ParamSpecs), sw : Switchables, blocking : BOOLEAN]
ASSUME SyscallsOf \in [Tasks -> SUBSET Syscalls]

Cells == [d : 0..3, p : {"dest", "scratch"}]
Blank == [d |-> 0, p |-> "dest"]

VARIABLES
  mem,            \* tracee memory
  rmem,           \* the memory replay rebuilds
  sys,            \* "idle" (user code), "kernel" (in the syscall), "done" (exited, not processed)
  blocking,       \* the syscall waits for another thread
  woken,          \* ... and that thread has woken it
  params,         \* param_list
  switchable,     \* switchable
  scratchEnabled, \* scratch_enabled
  scr,            \* the task's scratch memory, one cell per parameter
  saved           \* saved_data, one cell per saved buffer

vars == <<mem, rmem, sys, blocking, woken, params, switchable, scratchEnabled, scr, saved>>

\* A variant that does not align the scratch cursor.
AlignScratchNone(x) == x

\* align_scratch with the default amount 8: (x + 7) & !7.
AlignScratch(x) == ((x + 7) \div 8) * 8

(***************************************************************************)
(* reg_parameter_with_size / mem_ptr_parameter_with_size over a syscall's   *)
(* parameters in order: a null destination registers nothing; otherwise a  *)
(* MemoryParam is pushed, and all but InOutNoScratch take scratch at the   *)
(* cursor, which then advances by the size, aligned.  Returns the list and *)
(* the final cursor (offsets from scratch_ptr).                            *)
(***************************************************************************)
RECURSIVE RegisterParams(_, _)
RegisterParams(ps, top) ==
  IF ps = <<>> THEN [list |-> <<>>, top |-> top]
  ELSE LET p == Head(ps)
           scratched == p.mode # "InOutNoScratch"
           mp == [dest |-> p.dest, mode |-> p.mode, size |-> p.size,
                  mutator |-> p.mutator, scratch |-> top,
                  ptrMem |-> IF scratched THEN p.ptrIn ELSE NoBuffer]
           rest == RegisterParams(Tail(ps), IF scratched THEN AlignScratch(top + p.size) ELSE top)
       IN IF p.dest = NoBuffer THEN RegisterParams(Tail(ps), top)
          ELSE [list |-> <<mp>> \o rest.list, top |-> rest.top]

\* The index of the registered parameter whose buffer is b.
ParamOf(ps, b) == CHOOSE i \in DOMAIN ps : ps[i].dest = b
HasParam(ps, b) == \E i \in DOMAIN ps : ps[i].dest = b

\* Indices of the parameters whose mutator is still set, in order.
Mutated(ps) == SelectSeq([i \in DOMAIN ps |-> i], LAMBDA i : ps[i].mutator = "modifies")

\* A variant that downgrades when the scratch is exactly full.
ExhaustsScratchAtLimit(top) == top >= UsableScratchSize

\* done_preparing_internal: the parameters need more than the usable scratch.
ExhaustsScratch(top) == top > UsableScratchSize

\* A variant of step 3 that keeps the save of a mutator that changed nothing.
MutatorKeepsSaveAlways(p) == p.mutator # "none"

\* Step 3: the bytes saved for a mutator stay in saved_data only if it
\* changed the buffer (the resize after a false return drops them).
MutatorKeepsSave(p) == p.mutator = "modifies"

\* memory_cleaned_up: step 2 put back some pointer held in memory.
MemoryCleanedUp(ps) == \E i \in DOMAIN ps : ps[i].ptrMem # NoBuffer

\* A variant of step 3 that records from the local copy even after pointers
\* in memory were fixed up.
RecordLocalAlways(ps, b) == ps[ParamOf(ps, b)].mode \in {"Out", "InOut"}

\* Step 3 with scratch: an Out/InOut output is recorded from the scratch copy
\* read before step 2 (record_local) unless memory was cleaned up.
RecordLocal(ps, b) == ps[ParamOf(ps, b)].mode \in {"Out", "InOut"} /\ ~MemoryCleanedUp(ps)

\* The rr scheduler keeps running a task in a PreventSwitch syscall until it
\* has been processed; no other task runs, nor has its syscall exit handled,
\* meanwhile.  (The kernel side of another task's syscall still runs.)
Runs(u) == \A t \in Tasks \ {u} : sys[t] = "idle" \/ switchable[t] = "AllowSwitch"

(***************************************************************************)
(* rec_prepare_syscall: a fresh TaskSyscallState (new, init), the buffers   *)
(* registered, then done_preparing:                                        *)
(*   done_preparing_internal: no scratch_ptr -> keep sw, no scratch;       *)
(*     AllowSwitch past the usable scratch -> PreventSwitch;               *)
(*     PreventSwitch or no parameters -> no scratch; otherwise scratch:    *)
(*     step 1 copies In/InOut buffers, step 2 relocates pointers held in   *)
(*     buffers into the scratch copies;                                     *)
(*   step 3 runs the mutators on scratch, or on the buffer itself after    *)
(*     saving it; a mutator that changed nothing is dropped, its save too. *)
(***************************************************************************)
Prepare(t, sc) ==
  LET reg == RegisterParams(sc.params, 0)
      ps == reg.list
      sw == IF t \in HasScratch /\ sc.sw = "AllowSwitch" /\ ExhaustsScratch(reg.top)
              THEN "PreventSwitch" ELSE sc.sw
      enabled == t \in HasScratch /\ sw = "AllowSwitch" /\ ps # <<>>
      copied == [i \in DOMAIN ps |->
                   IF enabled /\ ps[i].mode \in {"In", "InOut"} THEN mem[ps[i].dest] ELSE Blank]
      relocated == [i \in DOMAIN ps |->
                      IF enabled /\ \E j \in DOMAIN ps : ps[j].ptrMem = ps[i].dest
                        THEN [copied[i] EXCEPT !.p = "scratch"] ELSE copied[i]]
      kept == SelectSeq([i \in DOMAIN ps |-> i], LAMBDA i : MutatorKeepsSave(ps[i]))
      mutatedHere(b) == ~enabled /\ HasParam(ps, b) /\ ps[ParamOf(ps, b)].mutator = "modifies"
  IN /\ sys[t] = "idle"
     /\ Runs(t)
     /\ sys' = [sys EXCEPT ![t] = "kernel"]
     /\ blocking' = [blocking EXCEPT ![t] = sc.blocking]
     /\ woken' = [woken EXCEPT ![t] = FALSE]
     /\ switchable' = [switchable EXCEPT ![t] = sw]
     /\ scratchEnabled' = [scratchEnabled EXCEPT ![t] = enabled]
     /\ params' = [params EXCEPT ![t] =
                     [i \in DOMAIN ps |-> IF ps[i].mutator = "unchanged"
                                            THEN [ps[i] EXCEPT !.mutator = "none"] ELSE ps[i]]]
     /\ scr' = [scr EXCEPT ![t] =
                  [i \in DOMAIN ps |-> IF enabled /\ ps[i].mutator = "modifies"
                                         THEN [relocated[i] EXCEPT !.d = 3] ELSE relocated[i]]]
     /\ saved' = [saved EXCEPT ![t] =
                    IF enabled THEN <<>>
                    ELSE [k \in DOMAIN kept |-> mem[ps[kept[k]].dest]]]
     /\ mem' = [b \in Buffers |-> IF mutatedHere(b) THEN [mem[b] EXCEPT !.d = 3] ELSE mem[b]]
     /\ UNCHANGED rmem

\* Another thread does what a blocked syscall of t waits for.
Wake(u, t) ==
  /\ u # t
  /\ sys[u] = "idle"
  /\ Runs(u)
  /\ sys[t] = "kernel"
  /\ blocking[t]
  /\ ~woken[t]
  /\ woken' = [woken EXCEPT ![t] = TRUE]
  /\ UNCHANGED <<mem, rmem, sys, blocking, params, switchable, scratchEnabled, scr, saved>>

\* The kernel completes the syscall: outputs go where the argument points,
\* the scratch slot if scratch is enabled, the buffer itself otherwise.
Kernel(t) ==
  LET ps == params[t]
      out(i) == ps[i].mode \in {"Out", "InOut", "InOutNoScratch"}
      viaScratch(i) == scratchEnabled[t] /\ ps[i].mode # "InOutNoScratch"
  IN /\ sys[t] = "kernel"
     /\ blocking[t] => woken[t]
     /\ sys' = [sys EXCEPT ![t] = "done"]
     /\ scr' = [scr EXCEPT ![t] = [i \in DOMAIN ps |->
                  IF out(i) /\ viaScratch(i) THEN [scr[t][i] EXCEPT !.d = 2] ELSE scr[t][i]]]
     /\ mem' = [b \in Buffers |->
                  IF HasParam(ps, b) /\ out(ParamOf(ps, b)) /\ ~viaScratch(ParamOf(ps, b))
                    THEN [mem[b] EXCEPT !.d = 2] ELSE mem[b]]
     /\ UNCHANGED <<rmem, blocking, woken, params, switchable, scratchEnabled, saved>>

\* User code of a running thread writes a buffer; replay re-executes it.
UserWrite(u, b) ==
  /\ sys[u] = "idle"
  /\ Runs(u)
  /\ mem' = [mem EXCEPT ![b].d = 1]
  /\ rmem' = [rmem EXCEPT ![b].d = 1]
  /\ UNCHANGED <<sys, blocking, woken, params, switchable, scratchEnabled, scr, saved>>

\* A variant of step 1 without scratch that leaves mutated buffers as the
\* mutators made them.
RestoreMutatedNone(t, b) == mem[b]

\* process_syscall_results without scratch, step 1: the saved bytes go back,
\* in order, into the buffers whose mutator is still set.
RestoreMutated(t, b) ==
  LET ps == params[t]
      idx == Mutated(ps)
  IN IF \E k \in DOMAIN idx : ps[idx[k]].dest = b
       THEN saved[t][CHOOSE k \in DOMAIN idx : ps[idx[k]].dest = b]
       ELSE mem[b]

(***************************************************************************)
(* process_syscall_results.  With scratch: step 1 copies Out/InOut slots   *)
(* back to their buffers, step 2 puts the tracee's own pointers back into  *)
(* buffers that held relocated ones, step 3 records every output, from the *)
(* tracee (record_remote) once a pointer was fixed up or for               *)
(* InOutNoScratch, else from the scratch copy read before step 2           *)
(* (record_local).  Without scratch: the saved bytes are restored, in      *)
(* order, into the buffers whose mutator is still set, and every buffer is *)
(* recorded from the tracee.                                               *)
(***************************************************************************)
ProcessSyscallResults(t) ==
  LET ps == params[t]
      data == scr[t]
      idx == Mutated(ps)
      wb(i) == ps[i].mode \in {"Out", "InOut"}
      back(b) == IF HasParam(ps, b) /\ wb(ParamOf(ps, b)) THEN data[ParamOf(ps, b)] ELSE mem[b]
      fixed(b) == IF \E i \in DOMAIN ps : ps[i].ptrMem = b
                    THEN [back(b) EXCEPT !.p = "dest"] ELSE back(b)
      after == [b \in Buffers |-> IF scratchEnabled[t] THEN fixed(b) ELSE RestoreMutated(t, b)]
      recorded(b) == /\ HasParam(ps, b)
                     /\ \/ ~scratchEnabled[t]
                        \/ ps[ParamOf(ps, b)].mode \in {"Out", "InOut", "InOutNoScratch"}
      local(b) == scratchEnabled[t] /\ RecordLocal(ps, b)
  IN /\ sys[t] = "done"
     /\ Runs(t)
     /\ mem' = after
     /\ rmem' = [b \in Buffers |-> IF ~recorded(b) THEN rmem[b]
                                   ELSE IF local(b) THEN data[ParamOf(ps, b)]
                                   ELSE after[b]]
     /\ saved' = [saved EXCEPT ![t] =
                    IF scratchEnabled[t] THEN @ ELSE SubSeq(@, Len(idx) + 1, Len(@))]
     /\ sys' = [sys EXCEPT ![t] = "idle"]
     /\ params' = [params EXCEPT ![t] = <<>>]
     /\ scr' = [scr EXCEPT ![t] = <<>>]
     /\ UNCHANGED <<blocking, woken, switchable, scratchEnabled>>

\* abort_syscall_results: the syscall is cancelled before it completes.
\* With scratch, pointers held in buffers are put back; without, the saved
\* bytes are restored into mutated buffers.  Nothing is recorded.
AbortSyscallResults(t) ==
  LET ps == params[t]
      idx == Mutated(ps)
      after(b) ==
        IF scratchEnabled[t]
          THEN IF \E i \in DOMAIN ps : ps[i].ptrMem = b THEN [mem[b] EXCEPT !.p = "dest"] ELSE mem[b]
          ELSE IF \E k \in DOMAIN idx : ps[idx[k]].dest = b
                 THEN saved[t][CHOOSE k \in DOMAIN idx : ps[idx[k]].dest = b]
                 ELSE mem[b]
  IN /\ sys[t] = "kernel"
     /\ Runs(t)
     /\ mem' = [b \in Buffers |-> after(b)]
     /\ saved' = [saved EXCEPT ![t] =
                    IF scratchEnabled[t] THEN @ ELSE SubSeq(@, Len(idx) + 1, Len(@))]
     /\ sys' = [sys EXCEPT ![t] = "idle"]
     /\ params' = [params EXCEPT ![t] = <<>>]
     /\ scr' = [scr EXCEPT ![t] = <<>>]
     /\ UNCHANGED <<rmem, blocking, woken, switchable, scratchEnabled>>

-----------------------------------------------------------------------------
\* The buffers a syscall's outputs are written to.
OutputBuffers(ps) ==
  {ps[i].dest : i \in {j \in DOMAIN ps : ps[j].mode \in {"Out", "InOut", "InOutNoScratch"}}}

(***************************************************************************)
(* TaskSyscallState implements AtomicSyscall: the memory replay rebuilds   *)
(* is the abstract record, a task is in a syscall from the preparation to  *)
(* the end of process_syscall_results or abort_syscall_results, and its    *)
(* output buffers are those of its registered parameters.                  *)
(***************************************************************************)
Atomic == INSTANCE AtomicSyscall WITH
            vis <- rmem,
            inSyscall <- [t \in Tasks |-> sys[t] # "idle"],
            outs <- [t \in Tasks |-> OutputBuffers(params[t])],
            Values <- Cells,
            Outputs <- {c \in Cells : c.p = "dest"}

Init ==
  /\ mem = [b \in Buffers |-> Blank]
  /\ rmem = [b \in Buffers |-> Blank]
  /\ sys = [t \in Tasks |-> "idle"]
  /\ blocking = [t \in Tasks |-> FALSE]
  /\ woken = [t \in Tasks |-> FALSE]
  /\ params = [t \in Tasks |-> <<>>]
  /\ switchable = [t \in Tasks |-> "PreventSwitch"]
  /\ scratchEnabled = [t \in Tasks |-> FALSE]
  /\ scr = [t \in Tasks |-> <<>>]
  /\ saved = [t \in Tasks |-> <<>>]

Next ==
  \/ \E t \in Tasks, sc \in Syscalls : sc \in SyscallsOf[t] /\ Prepare(t, sc)
  \/ \E u, t \in Tasks : Wake(u, t)
  \/ \E t \in Tasks : Kernel(t)
  \/ \E t \in Tasks : ProcessSyscallResults(t)
  \/ \E t \in Tasks : AbortSyscallResults(t)
  \/ \E u \in Tasks, b \in Buffers : UserWrite(u, b)

(***************************************************************************)
(* The kernel completes a syscall that is not waiting: weak fairness.     *)
(* rr handles a pending syscall exit when its scheduler picks the task,    *)
(* which it does whenever no PreventSwitch syscall holds it back; as       *)
(* another thread may enter PreventSwitch syscalls in between, this is     *)
(* strong fairness.  A program whose thread t waits on thread u does wake   *)
(* it if u keeps getting to run: strong fairness too.  Cancelling a        *)
(* syscall is not fair.                                                    *)
(***************************************************************************)
Fairness ==
  /\ \A t \in Tasks : WF_vars(Kernel(t)) /\ SF_vars(ProcessSyscallResults(t))
  /\ \A u, t \in Tasks : SF_vars(Wake(u, t))

Spec == Init /\ [][Next]_vars /\ Fairness

-----------------------------------------------------------------------------
TypeOK ==
  /\ mem \in [Buffers -> Cells]
  /\ rmem \in [Buffers -> Cells]
  /\ sys \in [Tasks -> {"idle", "kernel", "done"}]
  /\ blocking \in [Tasks -> BOOLEAN]
  /\ woken \in [Tasks -> BOOLEAN]
  /\ switchable \in [Tasks -> Switchables]
  /\ scratchEnabled \in [Tasks -> BOOLEAN]
  /\ \A t \in Tasks :
       /\ \A i \in DOMAIN params[t] :
            /\ params[t][i].dest \in Buffers
            /\ params[t][i].scratch % 8 = 0
       /\ scr[t] \in [DOMAIN params[t] -> Cells]
       /\ saved[t] \in Seq(Cells)

(***************************************************************************)
(* Replay reproduces what the threads can see: whenever some thread runs   *)
(* user code, every buffer holds what replay rebuilds from user writes and *)
(* recorded syscall outputs.  This is what scratch buffers are for: kernel *)
(* writes and mutations stay in scratch until the exit is processed, the   *)
(* exit restores relocated pointers and mutated bytes, and records what   *)
(* the buffers finally hold.                                               *)
(***************************************************************************)
ReplayMatchesMemory ==
  (\E u \in Tasks : sys[u] = "idle" /\ Runs(u)) => \A b \in Buffers : mem[b] = rmem[b]

(***************************************************************************)
(* saved_data is used up by the restore of process_syscall_results: the    *)
(* ed_assert!(saved_data.is_empty()) after it never fails, whichever       *)
(* mutators changed their buffer and whichever left it alone.              *)
(***************************************************************************)
SavedDataConsumed == \A t \in Tasks : sys[t] = "idle" => saved[t] = <<>>

\* The syscall of t blocks and its parameters need more than the usable
\* scratch: the case done_preparing_internal warns "deadlock may follow".
MayHang(t) ==
  /\ blocking[t]
  /\ t \in HasScratch
  /\ \E i \in DOMAIN params[t] :
       /\ params[t][i].mode # "InOutNoScratch"
       /\ AlignScratch(params[t][i].scratch + params[t][i].size) > UsableScratchSize

(***************************************************************************)
(* Every syscall a task enters eventually has its results processed (or is *)
(* cancelled), unless some thread enters a blocking syscall that needs     *)
(* more scratch than there is: that one is made PreventSwitch, so it and   *)
(* every other thread wait for ever.  A switchable syscall lets the        *)
(* threads it waits on run, and one that fits its scratch, to the byte,    *)
(* stays switchable.                                                       *)
(***************************************************************************)
SyscallsComplete ==
  \A t \in Tasks :
    sys[t] = "kernel" ~> sys[t] = "idle" \/ \E u \in Tasks : sys[u] = "kernel" /\ MayHang(u)

(***************************************************************************)
(* The record is atomic per syscall (AtomicSyscall): replay's memory       *)
(* changes only by user writes of threads outside a syscall and, at the    *)
(* exit, only in the syscall's output buffers and never to a relocated     *)
(* pointer; input buffers that rd mutated or relocated for the kernel are  *)
(* back as they were before they are recorded.                             *)
(***************************************************************************)
AtomicSpec == Atomic!Spec
================================================================================
