# TLA+ models of rd (Rust port of rr)

This directory holds TLA+ models of the parts of `rd` that contain real,
stateful logic in this repository, the TLC configurations that check them,
and `PROJECT.json`, which maps every modelled definition to its source lines
and lists runs, mutants, findings and hazards.

Most files under `src/` are stubs (`unimplemented!()`). The code with real
behaviour is:

- `src/src/commands/gdb_server.rs`: serving a replay to a GDB client, and
  the requests that read the tracee's state for gdb: `search_memory`,
  the memory-read interception and the register read.
- `src/src/record_syscall.rs`: the record-time `TaskSyscallState` scratch
  protocol and the prctl preparation.
- `src/src/seccomp_filter_rewriter.rs`: rewriting a tracee's seccomp filter.

## 1. Inventory

### GdbServer (`gdb_server.rs`)

**State** (struct `GdbServer`, lines 147-188):
- `target` {pid, require_exec, event};
- `debuggee_tguid`, `last_continue_tuid` and `last_query_tuid`;
- `final_event`, initially `u64::MAX`;
- `stop_siginfo`;
- `in_debuggee_end_state`;
- `stop_replaying_to_target`, set asynchronously by `interrupt_replay_to_target`;
- `interrupt_pending`;
- `debugger_restart_checkpoint` and the `checkpoints` table;
- the `ReplayTimeline`.

**Operations:**
- `serve_replay` replays forward until `at_target()`, then records the debuggee and sets the reverse-execution barrier. It then loops over connect, `activate_debugger`, serve and detach, the loop continuing while `keep_listening`.
- `at_target` is the attach predicate.
- `activate_debugger` retargets the server at the current task and pins a new restart checkpoint.
- `restart_session` handles three kinds:
  - from a checkpoint id, or from the previous restart checkpoint: seek to it and re-pin;
  - from an event: clamp the event, seek before it, then replay until the debuggee's last thread exits or `at_target()`.
- `maybe_notify_stop` turns a step's break status into a stop for the client, but only for debuggee tasks.

**Interaction.** Every operation drives the `ReplayTimeline`: stepping, seeking, pinning checkpoints and the barrier. The debug-request loop (`debug_one_step`, `process_debugger_requests`, `handle_exited_state`) is unimplemented in this repository; the requests that reach the implemented code are taken from `spec.md` 4.2.

**Hard behaviours:**
- the asynchronous interrupt flag, read by `at_target` in two different loops;
- the pin bookkeeping of checkpoints across restarts and reconnections;
- restart loops that must find a stop before the trace ends;
- stops filtered by process.

**What makes it correct:**
- every checkpoint the server holds stays pinned;
- no pin outlives its checkpoint;
- a restart ends in a serving state;
- the server keeps serving one process;
- a failed restart changes nothing (`spec.md` 4.2; the code does not do this, see section 6).

### gdb data requests (`gdb_server.rs` 254-310, 447-492, 975-1041, 1109-1144)

- `search_memory` finds the first occurrence of a byte string in a range of the tracee's memory. The outer loop walks the mappings in address order, extending each one by `len - 1` bytes and intersecting it with the range. The inner loop reads one page plus `len - 1` bytes at a time with `read_bytes_fallible`, which stops at the first unreadable byte. It looks for the string in what was read, then moves to the next page boundary.
- `maybe_intercept_mem_request` post-processes a `DREQ_GET_MEM` reply. When the task's ip is in a mapping flagged `IS_PATCH_STUBS` and the word at sp lies wholly in the request, it zeroes that word of the reply. This stops gdb from taking a stub's stack word for a return address.
- `dispatch_regs_request` replies to `DREQ_GET_REGS` with registers 0 through `ORIG_EAX`/`ORIG_RAX`, or through the top YMM register when the connection advertised `CPU_AVX`. Each register goes through `get_reg`, which tries `Registers` and then `ExtraRegisters`, and is undefined when neither knows it.
- `get_cpu_features` decides those features once, at connection (`await_connection`), from the task's arch and the host's cpuid.

**Hard behaviours:**
- matches that cross a page or mapping boundary, unreadable pages, partial reads, and the search loop's progress;
- the boundaries of the stack-word test, and a short read under it;
- a register reply that must agree with a description fixed earlier, from a cpuid value that tests never vary.

**What makes it correct:**
- the search answers the lowest readable occurrence in the range, and ends;
- a read returns memory except exactly the hidden stack word;
- the register reply covers exactly the described registers.

`serve_replay` calls `await_connection` (line 383). Nothing in this repository calls the three request handlers yet, because `dispatch_debugger_request` is `unimplemented!()`.

### ReplayTimeline (not in this repository)

**State:** the current mark of the replay session, pin counts of explicit checkpoints, breakpoints, and the reverse-execution barrier. It is modelled from `spec.md` 4.1 only as far as the GdbServer uses it.

### TaskSyscallState (`record_syscall.rs` 339-905)

**State** (per recording task):
- `param_list` of `MemoryParam`;
- the scratch allocation cursor;
- `preparation_done`, `switchable`, `write_back` and `scratch_enabled`;
- `saved_data`, the pre-mutation bytes;
- the emulated result.

**Operations:**
- `reg_parameter_with_size` and `mem_ptr_parameter_with_size` register buffers;
- `done_preparing` and `done_preparing_internal` handle scratch exhaustion, then:
  - step 1 copies inputs;
  - step 2 relocates pointers;
  - step 3 runs the mutators;
- `process_syscall_results` writes back from scratch, restores pointers, and records locally or remotely;
- `abort_syscall_results`;
- `ParamSize::eval` and `eval_param_size` share a size source among parameters.

**Interaction.** Threads share memory, and the syscalls of several tasks may be blocked at once.

**Hard behaviours:**
- interleaving of kernel writes with other threads;
- the `AllowSwitch` to `PreventSwitch` downgrade when scratch is exhausted (the code warns "deadlock may follow");
- a task without scratch (`scratch_ptr` null);
- mutator save and restore order;
- relocated pointers recorded from the wrong copy.

**What makes it correct:** what replay reconstructs from the recorded data equals the memory the tracee threads can observe.

### prctl preparation (`rec_prepare_syscall_arch`, `record_syscall.rs` 95-288)

Each arm of the `prctl` match decides several things:
- whether rd disables the call by setting `arg1` to -1;
- what result it emulates (`emulate_result`, applied at the exit by `process_syscall_results`);
- which errno it expects;
- what it changes in its own copies of the kernel's flags.

Those copies are `dumpable`, per thread group, and `tsc_mode` and `prctl_seccomp_status`, per task. Before the initial exec, `PR_SET_SECCOMP` with a filter is rd's own filter and goes to the kernel. Afterwards rd intercepts the call and the `SeccompFilterRewriter` installs it at the exit. **Hard behaviours:** rd's copies and the kernel's state diverge once rd disables a call, so every later read must come from rd's copy, in any thread. rd's own filter must stay hidden from `PR_GET_SECCOMP`. `PR_GET_TSC` writes to a tracee pointer at once. **What makes it correct:** the tracee sees what Linux without rd would give it.

### SeccompFilterRewriter (`seccomp_filter_rewriter.rs`)

`install_patched_seccomp_filter_arch` rewrites every `RET` of a tracee's filter whose verdict is not `ALLOW` into `SECCOMP_RET_TRACE | (BASE_CUSTOM_DATA + index)`, where `index` numbers the distinct original verdicts in a table shared by every filter rd installs (`result_to_index`, `index_to_result`), under two assertions (the `RET` takes a constant, and the index fits the data bits). It prepends an `ALLOW` for the rd-page syscall exits, installs the result in the tracee through a remote `prctl` or `seccomp`, and on success marks the task, or with `SECCOMP_FILTER_FLAG_TSYNC` every thread of it, as seccomp-active (`prctl_seccomp_status = 2`). `map_filter_data_to_real_result` inverts the mapping at `PTRACE_EVENT_SECCOMP`.

**Hard behaviours:** several filters stacked by several threads share one table; the kernel combines the verdicts of stacked filters by action precedence; TSYNC may be refused with a positive return value.

**What makes it correct:** every syscall the tracee's filters would allow is allowed, and for every other one rd recovers the verdict the tracee's filters would have produced; `PR_GET_SECCOMP` reports a filter exactly when one is installed.

### Not modelled

`gdb_command_handler.rs`, `fast_forward.rs` and `monitored_shared_memory.rs` are `unimplemented!()` stubs. `trace_task_event.rs` holds plain accessors, `arch_structs.rs` and `bindings.rs` hold layouts, and `build.rs` does build-time code generation.

## 2. Plan

1. `ReplayTimeline` and `GdbServer` with `MCGdbServer`: done.
2. `TaskSyscallState`: several threads share memory and each runs user writes and syscalls through the scratch protocol; a replay image checks that recorded data reproduces what threads observe, and a liveness property covers blocked syscalls: done.
3. `ParamSize`: `eval` and the sharing of a size source as pure operators, checked over bounded inputs: done.
4. `SeccompFilterRewriter`: the rewrite, the shared table, the install and the seccomp status, with the kernel's filter stacks: done.
5. `RecordPrctl`: the prctl preparation, the kernel and the exit, compared with an unrecorded Linux: done. Its exit installs tracee filters through the `SeccompFilterRewriter`'s own actions (INSTANCE): done.
6. `GdbDataRequests`: `search_memory` compared with a reference first-match definition, with termination; the `DREQ_GET_MEM` interception and `DREQ_GET_REGS` compared with `spec.md` 4.2, 6 and tests 3 and 5: done.
7. `AtomicSyscall`: the abstract specification of a syscall's record, with `TaskSyscallState` shown to implement it: done.
8. Not taken: `maybe_intercept_mem_request`'s `usize` sums, which overflow only for requests near 2^64 (see section 6).

## 3. Modules and how they correspond to the code

### `ReplayTimeline.tla` (spec-modelled)

A trace is a sequence of frames `[task, kind]`, where kind is run, signal, exit or exec. A mark is an integer: `2k` means frames `1..k` are done, and `2k+1` means the middle of frame `k+1`. The middle marks exist only for exit and exec frames, which stop twice: at `PTRACE_EVENT_EXIT`, or between the execve entry and exit. So a mark is an ordered position, as `spec.md` 3 requires.

- `ForwardBreak` and `ReverseBreak` give the `BreakStatus` of one `replay_step_forward` or `reverse_step`.
- `Pin` and `Unpin` are `add_explicit_checkpoint` and `remove_explicit_checkpoint`.
- `SeekBeforeEventMark` clamps to the barrier (the start of time) and to the end of the trace.

### `GdbServer.tla`

**Variables.** Each variable is a field of `GdbServer`, plus:
- `phase`, which says where `serve_replay` and `restart_session` are: ToTarget, Listening, Serving, Restarting, Done or Aborted;
- `resume`, the continue currently being served;
- `lastReply`, the last notification sent to the client;
- `nreq`, the number of requests and connections served so far.

**Actions:**
- `ToTargetStep` and `ToTargetExhausted` are the first loop of `serve_replay`.
- `Connect` and `Detach` are its connection loop. `ConnectWithoutTask` is a reconnection at the end of the trace, where `activate_debugger` unwraps a missing task.
- `InterruptReplayToTarget` may occur in any live phase, because it is called from a signal handler.
- `RestartFromUnknownCheckpoint`, `RestartFromCheckpoint`, `RestartFromPrevious` and `RestartFromEvent` are the branches of `restart_session`.
- `RestartStep` is one iteration of its loop, with three disjuncts: the end state, at target, or keep going.
- `RestartExhausted` is the `debug_assert_ne!` failing, which a debug build turns into an abort.
- The requests `RequestContinue`, `ContinueForward`, `ContinueExited`, `ContinueBackward`, `RequestInterrupt`, `RequestBreakpoint`, `RequestCheckpoint` and `RequestDeleteCheckpoint` come from `spec.md` 4.2, because the request loop is a stub here.
- `ContinueForward` and `ContinueBackward` apply `maybe_notify_stop` after each step.

### `MCGdbServer.tla`

A 7-event trace with two processes. g1 = {t1, t2} execs, clones, and exits with t1 last. g2 = {t3} receives a signal and outlives g1.

The model also includes:
- a frame where no checkpoint can be made;
- two breakpoint sites;
- initial targets over no pid, g1 and g2, with and without `require_exec`;
- restarts from events 0, 3, 6 and 7 (7 is after the debuggee's last thread exited);
- two checkpoint ids;
- 5 requests or connections.

These bounds let every branch occur: the exit of a non-last thread and of a last thread, a signal stop, an exec stop, stops of a non-debuggee process, a barrier, non-explicit checkpoints, a reconnect, and a restart that ends in the end state, at a target, or off the trace. `MaxFrameTime` (100) stands for `u64::MAX`.

### `TaskSyscallState.tla`

**Data.** A buffer's contents are a cell `[d, p]`. `d` abstracts the bytes: 0 initial, 1 written by user code, 2 written by the kernel, 3 changed by a mutator. `p` is the pointer the buffer holds, if it holds one: `"dest"` for the tracee's own buffer, `"scratch"` for a relocated pointer.

**Variables:**
- `mem` is tracee memory;
- `rmem` is the memory replay rebuilds from user writes and recorded syscall outputs;
- `sys[t]` is idle, in the kernel, or exited and not yet processed;
- `blocking` and `woken` say whether the syscall waits for another thread;
- `params`, `switchable`, `scratchEnabled` and `saved` are the fields of `TaskSyscallState`;
- `scr[t]` is the task's scratch memory, one cell per parameter.

**Actions:**
- `Prepare(t, sc)` is the whole of `rec_prepare_syscall` for a syscall shape `sc`: registration (`RegisterParams`, with `AlignScratch`), then `done_preparing_internal` and its three steps. These include the downgrade to `PreventSwitch` past the usable scratch (`ExhaustsScratch`), the null-`scratch_ptr` early return (a task outside `HasScratch`), and the mutators with their saves (`MutatorKeepsSave`).
- `Kernel(t)` is the syscall body. Outputs go to scratch or to the buffer itself.
- `Wake(u, t)` is another thread doing what a blocking syscall waits for.
- `UserWrite(u, b)` is user code writing a buffer.
- `ProcessSyscallResults(t)` and `AbortSyscallResults(t)` are the two exit paths. They include the copy back, the pointer restore, the restore of saved data (`RestoreMutated`), and recording (`RecordLocal` or remote).

The kernel, the wakeup and user code come from `spec.md`, since the kernel and the scheduler are not in this repository. `Runs(u)` is the scheduler's rule: while a task is in a `PreventSwitch` syscall, no other task runs user code or has its exit handled.

**`MCTaskSyscallState`.** Two threads and three buffers. t1 does a pipe read that blocks until t2 runs, a call with mutated `In` buffers, and a call with a null buffer. t2 does a recvmsg-like call (an `InOut` header holding a pointer to an `Out` buffer), a read larger than the 16 usable scratch bytes, `PR_GET_TSC` (`InOutNoScratch`, `PreventSwitch`), and the mutated call without switching. Together these make every branch of `done_preparing_internal` and of both exit paths happen, except the null-`scratch_ptr` return: every task has scratch (see section 6).

### `AtomicSyscall.tla` and the refinement

`AtomicSyscall` is the abstract specification of what a syscall's record promises replay. The record (`vis`) changes only in two ways:
- by user writes of a task that is not in a syscall;
- all at once when a syscall exits, and then only in that syscall's output buffers, and only to contents without a relocated pointer.

A cancelled syscall (`Cancel`) changes nothing. `TaskSyscallState` defines `Atomic == INSTANCE AtomicSyscall WITH ...`:
- `vis` is mapped to `rmem`;
- `inSyscall[t]` is `sys[t] # "idle"`;
- `outs[t]` is `OutputBuffers(params[t])`, the buffers of the `Out`, `InOut` and `InOutNoScratch` parameters.

`Prepare` is `Enter`. `Kernel` and `Wake` are stuttering steps. `ProcessSyscallResults` is `Exit`, and `AbortSyscallResults` is `Cancel`. The run checks `AtomicSpec == Atomic!Spec` as a property.

The refinement says something `ReplayMatchesMemory` cannot. Suppose a mutated input buffer is not restored before it is recorded. Then memory and record agree, and replay reproduces the tracee's memory faithfully, but the record shows an input buffer changed by the syscall.

### `GdbDataRequests.tla`

The inputs are chosen initially:
- memory contents;
- a layout: mappings in address order, the readable addresses and the patch-stub mappings;
- the stopped task (`arch`, `sp`, `ip`, and whether `ExtraRegisters` holds an XSAVE area);
- the host's cpuid bits;
- the request.

Inputs a request does not read are fixed (`Task0`), which keeps each request's state space to what it depends on. `Connect` is `await_connection` and sets `features` with `GetCpuFeatures`. Then one request is served, and `result` is its answer, or `Panic`.

**Search.** `mi` is the outer loop's mapping and `r` the inner loop's remaining range.
- `NextMapping` starts a mapping, with `MappingRange` extending it by `len - 1`.
- `ReadChunk` is one inner iteration: `NRead` models `read_bytes_fallible`'s readable prefix, `Find` finds the first match, and `NextChunkStart` clamps the next page boundary to the range.
- `ReturnNone` returns `None`.

`MemoryRange`, `Intersect`, `FloorPage`, `NRead` and `Find` stand for helpers that are not in this repository. They are modelled by their use here, as their names say. `FirstMatch` is the reference: the lowest address in the range where the whole pattern lies in readable memory.

**Memory read.** `GetMem` builds the reply with `ReadMem` and passes it through `MaybeInterceptMemRequest`. That operator follows lines 476-492: the two bounds, `IsInPatchStubs(ip)`, and the slice `result[offset..offset + size]` (line 490), which panics past the end of the reply. The read itself is in `dispatch_debugger_request`, whose body is `unimplemented!()`. `ReadMem` is therefore modelled from `spec.md` 7 (UnreadableTraceeMemory): the readable prefix, then zeros for the unreadable tail, so the reply always has the requested length.

**Register read.** `GetRegs` builds registers `0 ..= RegsEnd(arch, CPU_AVX in features)` with `GetReg`. `ReadRegister` is the free `get_reg`: `Registers` first, then `ExtraRegisters`. `GprSize` and `XsaveSize` stand for the two `read_register` tables, which are not in this repository. A register's value is abstracted to whether it is defined, and to its size.

**`MCGdbDataRequests`.**
- Eight addresses, 2-byte pages and four layouts: contiguous mappings; an unreadable page; a gap with one unreadable page; and a mapping starting mid-way with alternate pages unreadable.
- Patch-stub mappings sit next to readable and unreadable pages.
- The search has three patterns (one, two and three bytes, so a match crosses pages and mappings), three ranges (whole, inner and unaligned), and every memory content. A page of 2 with patterns up to 3 bytes makes a match span more than one page boundary.
- Memory reads take every address and every length from 1 to 6 that stays in the address space. They cover every sp and ip, and both arches, with words scaled to 2 and 4 bytes. Memory is all ones, so every zero in a reply is either the interception or the unreadable tail. Reads that start before, at and inside the stack word, and that end inside, at and after it, are all included, and so are short reads.
- Registers keep the numbering's shape: general registers through ORIG, then the YMM high halves. x86 has 0-2 and 3-4, x86-64 has 0-3 and 4-6, and x86-64 has one number (2) that `Registers` cannot read. Every combination of the two cpuid bits and of an XSAVE area is covered.

### `RecordPrctl.tla`

**Variables:**
- rd's state: `dumpable`, `tscMode`, `seccompStatus` and `doneInitialExec`;
- the kernel's: `kDumpable` and `kSeccomp`;
- per call: `phase`, `call` with its `disabled` flag (arg1 = -1), `emul` (should_emulate_result and emulated_result), `expectErrno` and `kret`;
- what the tracee sees: `result`, and `cell`, the int whose address it passed;
- `aborted`, for rd stopping on a failed write;
- the `SeccompFilterRewriter`'s state (`resultToIndex`, `indexToResult`, `stack`, `orig`, `installs`) and `filterAborted`, for rd stopping on one of its assertions;
- an unrecorded Linux's state for the same calls: `rDumpable`, `rTsc`, `rSeccomp`, `rResult` and `rCell`, updated by `LinuxCall`.

**Actions:**
- `Enter(t, c)` is the whole `prctl` arm for option `c.op`, including `PR_GET_TSC`'s immediate `write_val_mem`. A write to a null address may abort rd or be ignored: `write_val_mem` is not in this repository.
- `Kernel(t)` runs the call as rd left it.
- `Exit(t)` ends the call. An intercepted `PR_SET_SECCOMP` runs the rewriter's own actions through `SFR == INSTANCE SeccompFilterRewriter WITH status <- seccompStatus, aborted <- filterAborted`, so both modules change the one `prctl_seccomp_status`:
  - a program at a null address is passed through, and the re-issued call fails with `EFAULT`;
  - a program with `RET A` stops rd on the assertion (`Halted` then stutters);
  - otherwise the patched program is installed, and the remote call's result (0, or the kernel's `EACCES`) is the call's.
  The link itself (`rec_process_syscall` calling the rewriter) is from `spec.md` 4.4, since `rec_process_syscall` is absent. `Finish(t, ret)` applies the emulated result (`process_syscall_results` 864-868) and drops the call's `TaskSyscallState`.
- `InitialExec` is the tracee's exec.

prctl is `PreventSwitch`, so one call at a time runs over all tasks. The pass-through options are one option (`PassThrough`): their only work is registering output parameters, which `TaskSyscallState` models.

**`MCRecordPrctl`.** Two tasks, with symmetry, because they play the same part. Every option is enumerated with arg2 in 0..3, which covers valid and invalid dumpable values, TSC modes and seccomp modes. The pass run uses a good address everywhere except as a filter program, where a null one is allowed too (`MCCalls`). The violation run allows the null address everywhere. The tracee's filters are an `ERRNO` program, which rd rewrites, and a `RET A` program, which it cannot. `MaxInstalls = 2` lets both threads install filters that share one table entry. Entering an intercepted install is guarded by the bound, so the run still checks for deadlock.

### `ParamSize.tla`

`ParamSize` is a record `[incoming, memPtr, readSize, fromSyscall]`, and its constructors are operators. `Eval` is `ParamSize::eval`, returning the size and whether its `ed_assert!`s hold. `AlreadyConsumed` and `EvalParamSize` are `eval_param_size`, applied in order to one `param_list`. The inputs are chosen initially: the list, the values the kernel left in size cells, and the syscall result. `IntMax` and `WordMod` scale down `i32::MAX` and the widths of the casts.

`MCParamSize` enumerates lists of one to three parameters built from six shapes. The shapes are: capped and uncapped `From<usize>`, `from_initialized_mem`, a limited one, and two that draw on the syscall result. Cell values range over 0..6 and results over -1..6, so negative results, zero, a cell smaller than the buffers, and two buffers sharing one cell all occur.

### `SeccompFilterRewriter.tla`

A verdict is a number, `action * 2^DataBits + data`. `|` is Bitwise's, as in `SECCOMP_RET_TRACE | data`. A program is a sequence of instructions plus, for each syscall input, the index of the `RET` that input reaches. The rewrite changes only `RET` constants, so the BPF jumps are abstracted to that selection.

**Variables:**
- the shared table (`resultToIndex`, `indexToResult`);
- each task's kernel filter stack (`stack`) and the programs as the tracee wrote them (`orig`);
- `prctl_seccomp_status` (`status`);
- the number of installs, and whether rd aborted.

**Operators:**
- `Rewrite` is the rewrite loop: a recursive function `loop[i]` gives the tables and the rewritten code after the first `i` instructions, and once an assertion fails the result stays failed.
- `MapFilterDataToRealResult` and `Recovered` map a verdict back.
- `RunFilter` and `RunStack` are the kernel's evaluation. Across a stack the lowest action wins, and on a tie the newest filter's data.

**Actions:**
- `PassThroughSeccompFilter` is the unreadable-program path.
- `RewriteAsserts` is a rewrite that fails an assertion.
- `InstallPatchedSeccompFilter(t, p, viaSeccomp, tsync, kernelFails)` is the rest of `install_patched_seccomp_filter_arch`. It covers the remote install, the kernel failing or refusing a TSYNC whose siblings' stacks are not ancestors (`TsyncConflict`), and the status update (`StatusTargets`).

**`MCSeccompFilterRewriter`.** Two tasks, three syscall inputs (one of them from the privileged rd-page callsite), and four programs: ERRNO, KILL, TRAP, and one that accepts. The TRAP program holds three distinct verdicts, TRAP and two ERRNOs. `DataBits = 2` and `BaseCustomData = 1` leave room for exactly two table entries, so after an earlier install a further verdict hits the bound assertion, and the bound's off-by-one is reachable. Without the assertion a later index would no longer fit the data bits and would reach the action bits of `SECCOMP_RET_TRACE` and make the verdict ALLOW. `MapFilterDataToRealResult` distinguishes data below `BASE_CUSTOM_DATA` (not rd's: `NotOurs`) from data past the table (its `ed_assert!`: `Asserted`). At most three installs are made. The module has no type invariant: its state is the rewriter's two tables and the filter stacks, and what matters about them is the relation `FilterVerdictPreserved` states.

## 4. Runs

| run | cfg | expect | what it shows |
|-----|-----|--------|---------------|
| gdb_serve | MCGdbServer.cfg | pass | 95,018 states. `TypeOK`, `CheckpointsPinned` and `RestartCompletes` hold over every interleaving of requests, restarts (from any event, the last one included) and user interrupts. `RestartCompletes` is stated for restarts whose target process still has an event to stop at. |
| gdb_restart_past_debuggee | MCRestartStaysInTrace.cfg | violation | Restarting from an event after the debuggee died runs off the trace. |
| gdb_restart_checkpoint_leak | MCNoPinLeak.cfg | violation | `activate_debugger` leaks the pin of the previous restart checkpoint. |
| gdb_interrupt_during_restart | MCTargetIsDebuggee.cfg | violation | An interrupt during a restart retargets the server at another process. |
| syscall_scratch | MCTaskSyscallState.cfg | pass | 2,535 states. Replay reproduces what the threads see (`ReplayMatchesMemory`), and `saved_data` is always used up (`SavedDataConsumed`). Every syscall completes unless some thread is in a blocking syscall that `done_preparing_internal` downgraded to `PreventSwitch` for want of scratch (`SyscallsComplete`, with `MayHang`). The blocking `BigRead` reaches that case, which is the code's own "deadlock may follow" (lines 722-724), so the run shows the hang is the only way a syscall fails to complete. The record implements `AtomicSyscall` (`AtomicSpec`). |
| param_size | MCParamSize.cfg | pass | 55,104 states. `eval` never trips its assertions (`NoConsumedAssert`), and parameters sharing a size source record exactly what the kernel reported (`RecordsWholeSource`). |
| seccomp_rewrite | MCSeccompFilterRewriter.cfg | pass | 507 states. Every installed filter allows what the tracee's filter allows, plus the rd page, and its other verdicts map back exactly through the shared table (`FilterVerdictPreserved`). The TRAP program holds a fourth verdict, one more than the table has room for: the bound assertion stops rd there, and without it the index would spill into the action bits and turn the verdict into ALLOW. Every filtered task reports seccomp mode 2 (`StatusReflectsFilter`). |
| seccomp_stacked_filters | MCSeccompStackVerdict.cfg | violation | An older KILL filter is masked by a newer ERRNO filter once both are TRACE. |
| seccomp_tsync_conflict | MCSeccompTsyncStatus.cfg | violation | A refused TSYNC install is taken as success, and tasks without a filter are marked seccomp-active. |
| gdb_data_requests | MCGdbDataRequests.cfg | pass | 105,412 states. `search_memory` always ends (`SearchTerminates`) and answers the lowest readable match in the range (`FindsFirstMatch`), across page and mapping boundaries, gaps and unreadable pages. A memory read always answers the requested length, the readable bytes and then zeros, with exactly the stack word zeroed when the task is in the patch stubs and the word is inside the request, and it never panics (`StubReturnAddressHidden`, `spec.md` test 3 and section 7). Register reads are served but not checked (section 6). |
| prctl | MCRecordPrctl.cfg | pass | 3,577,329 states, about 2 minutes. After rd's own filter install and the exec, every prctl result and every TSC mode written back is what Linux without rd gives (`TraceeSeesLinux`), in any order of calls by two threads. This includes `PR_GET_SECCOMP` after the rewriter installed, or failed to install, a tracee filter, and a filter program at a null address. |
| prctl_get_tsc_null | MCRecordPrctlNull.cfg | violation | `PR_GET_TSC` with a null address: rd writes to it unchecked and emulates 0 (or stops), where Linux returns `EFAULT`. |

Each property of a passing run has a mutant in `PROJECT.json`: a plausible bug in the mapped code (a dropped guard, an off-by-one, a missing reset) that TLC finds violating it.

## 5. Fairness

**GdbServer.** `serve_replay` is a single thread. Once it is replaying (to a target, for a continue, or in a restart), it keeps calling `replay_step_forward` or `reverse_step` until a stop. Those steps are therefore weakly fair. Client requests and the user's interrupt are not fair: the client may never send another request.

**TaskSyscallState.**
- The kernel completes a syscall that is not waiting on another thread, so `Kernel` is weakly fair.
- rr's scheduler handles a pending syscall exit when it picks the task. It does so whenever no `PreventSwitch` syscall of another thread holds it back. Other threads may keep entering such syscalls, so `ProcessSyscallResults` is strongly fair.
- A thread that a blocked syscall waits on does what it waits for if it keeps getting to run, so `Wake` is strongly fair too.
- Cancelling a syscall (`AbortSyscallResults`) and user writes are not fair.

**ParamSize** is a loop with no choices and is weakly fair. **SeccompFilterRewriter** and **RecordPrctl** check only safety. The seccomp run bounds the number of installs, so it does not check deadlock. The prctl run does check it: a tracee can always make another call. When rd stops on the rewriter's assertion, `Halted` stutters, because rd has stopped rather than deadlocked.

**GdbDataRequests.** `await_connection` and the request handlers run in the server's one thread, and `search_memory` is a plain loop with no waits, so the whole next-state relation is weakly fair. The run checks the search's termination under that assumption. It does no deadlock check: an answered request is a final state.

**AtomicSyscall** is checked as a safety property. Its liveness counterpart is `SyscallsComplete`. Under this fairness it holds only with a precondition: a blocking syscall that `done_preparing_internal` downgraded to `PreventSwitch` (`MayHang`) keeps every other thread from running, including the one that would wake it, so no fairness of the code makes it complete.

## 6. Not modelled and why

**GdbServer:**
- Diversions, vFile, the launch helpers, and the `qRDCmd` handler (a stub).
- Watchpoints, which are folded into breakpoints at whole frames.
- Breakpoint and watchpoint conditions. `GdbBreakpointCondition::evaluate` (lines 1087-1097) breaks as soon as one expression fails to evaluate or is nonzero. `spec.md` 4.2 says the watchpoint fires iff *all* expressions do. The code follows gdb's target-side conditions, where any one condition suffices, so the spec's wording is the one that is wrong. No run checks this: it would be a single-line restatement.
- Single-stepping.
- The release-build behaviour of the failed `debug_assert_ne!` in `restart_session`, an endless loop of `replay_step_forward` at the end of the trace. The model takes the debug build's abort.

**TaskSyscallState:**
- The entry paths of `rec_prepare_syscall` and the start of `rec_prepare_syscall_arch` (lines 64-138): a syscall rd vetoed, an invalid syscall number, a syscall descheduled inside the syscallbuf, and sigreturn. The first three register no parameter (the desched `read` into scratch registers one `InOutNoScratch` parameter in rd's own scratch area) and return a fixed `Switchable`, so they are syscall shapes the model already has. Sigreturn has no exit event. All of them are entered from `RecordSession`, which is not in this repository.
- The desched resume path: a second `rec_prepare_syscall` on a prepared state, where `reg_parameter_with_size` returns null and `done_preparing` returns the stored `switchable`. It changes nothing the model tracks.
- Emulated syscall results.
- The per-byte contents of buffers, which are abstracted to the four cell values.
- A task without `scratch_ptr`. `done_preparing_internal` then keeps `AllowSwitch` and lets the kernel and the mutators write the tracee's buffers in place while other threads run, so `ReplayMatchesMemory` would fail. `spec.md` 4.3 says buffers are redirected so that results do not depend on interleaving. The code does this by design, and the model keeps the branch (`HasScratch`), but no run gives a task no scratch.

**ParamSize.**
- `from_mem` and `from_syscall_result` on a default size always give 0. Nothing in this repository calls them, so nothing checks them.
- `spec.md` 4.3 writes the bound as `min(incoming, cell, result) - already_consumed`. `eval` subtracts `already_consumed` from the cell and the result only, which is what sharing a source needs, so the spec's formula is the one that is wrong. No run compares the two.

**SeccompFilterRewriter.** BPF jumps and the kernel's `BPF_MAXINSNS` limit.

**RecordPrctl:**
- `SECCOMP_MODE_STRICT`: after it a task can make no prctl.
- `expect_errno`'s check at the exit, which is not in this repository.
- The recording of the output parameters that pass-through options register.
- **The registers of the remote install.** `install_patched_seccomp_filter_arch` re-issues the call with the registers' current `arg1` (line 174). For an intercepted prctl, the preparation set that register to -1 (`record_syscall.rs` 254). If nothing restored the entry registers before the exit, the remote call would be `prctl(-1, ...)`, which fails with `EINVAL`, and no tracee filter would ever be installed. Restoring them is `rec_process_syscall`'s job, and that function is unimplemented here. The model installs with the tracee's own arguments, as `spec.md` 4.4 says; the point depends on code not in this repository, so no run or hazard states it.

**GdbServer, memory and register requests:**
- **Short reads.** `maybe_intercept_mem_request` slices `result[offset..offset + size]` (line 490). If the reply held only the bytes read, a read that stopped inside the stack word would put the slice out of range and the server would panic. `spec.md` 7 says the unreadable tail is answered as zeros, so the reply has the requested length and the slice stays in range; the model follows that, and `StubReturnAddressHidden` checks both the zero-filled tail and that no read panics. Whether the real reply is filled that way is decided in `dispatch_debugger_request`, whose body is `unimplemented!()` here.
- **Overflow.** `addr + len` comes from gdb and is computed in `usize`. It wraps, or panics in a debug build, only for requests that reach past 2^64, and those cannot cover a user-space stack. The model's scaled addresses keep requests inside the address space.
- **Spec wording.** `spec.md` 4.2 says the hidden slot "lies within the patch stubs region". The code, and test 3, test that the task's ip is in the stubs, and the model follows the code.
- **Register replies.** `GetRegs` is served, but no property checks its reply. The CPU features, and with them gdb's target description, are fixed at connection, whereas `dispatch_regs_request` uses the arch of the current registers. The two could only disagree after an exec switching between x86 and x86-64, which is driven by replay-session code that is not here. With the arch fixed the reply matches the description by construction, and the largest register stays below `MAX_SIZE`.
- **`DREQ_GET_REG` and the `GdbRegisterValue` byte encodings.** Both are outside the model: the single-register request is dispatched in the unimplemented `dispatch_debugger_request`, and value bytes are abstracted to a size.

**GdbServer, failed restarts.** `restart_session` clears `in_debuggee_end_state` and removes every breakpoint and watchpoint (lines 621-623) before it looks up the checkpoint id. So a restart from an unknown id changes state, whereas `spec.md` 4.2 says it does not. No run checks this: the code is plainly written that way.
