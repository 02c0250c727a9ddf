------------------------- MODULE MCTaskSyscallState -------------------------
(***************************************************************************)
(* Two threads of one process and three buffers.  t1 reads into b1 from a  *)
(* pipe t2 writes (a switchable syscall that blocks until t2 runs), and    *)
(* makes a syscall with two mutated In buffers.  t2 makes a recvmsg-like    *)
(* call (an InOut msghdr in b2 pointing at an Out buffer b3), a blocking  *)
(* read into a buffer larger than the usable scratch, PR_GET_TSC           *)
(* (InOutNoScratch, PreventSwitch), a call with a null buffer, and the     *)
(* mutated call without switching.                                         *)
(***************************************************************************)
EXTENDS TaskSyscallState

CONSTANTS t1, t2, b1, b2, b3

MCTasks == {t1, t2}
MCBuffers == {b1, b2, b3}

P(dest, mode, size, mutator, ptrIn) ==
  [dest |-> dest, mode |-> mode, size |-> size, mutator |-> mutator, ptrIn |-> ptrIn]

Read == [params |-> << P(b1, "Out", 16, "none", NoBuffer) >>,
         sw |-> "AllowSwitch", blocking |-> TRUE]
RecvMsg == [params |-> << P(b2, "InOut", 8, "none", NoBuffer), P(b3, "Out", 8, "none", b2) >>,
            sw |-> "AllowSwitch", blocking |-> FALSE]
Mutating(sw) == [params |-> << P(b3, "In", 4, "modifies", NoBuffer),
                               P(b1, "In", 4, "unchanged", NoBuffer),
                               P(b2, "In", 4, "modifies", NoBuffer) >>,
                 sw |-> sw, blocking |-> FALSE]
BigRead == [params |-> << P(b1, "Out", 24, "none", NoBuffer) >>,
            sw |-> "AllowSwitch", blocking |-> TRUE]
GetTsc == [params |-> << P(b2, "InOutNoScratch", 4, "none", NoBuffer) >>,
           sw |-> "PreventSwitch", blocking |-> FALSE]
NullBuf == [params |-> << P(NoBuffer, "Out", 8, "none", NoBuffer) >>,
            sw |-> "AllowSwitch", blocking |-> FALSE]

MCSyscallsOf ==
  [t \in MCTasks |-> IF t = t1 THEN {Read, Mutating("AllowSwitch"), NullBuf}
                     ELSE {RecvMsg, BigRead, GetTsc, Mutating("PreventSwitch")}]
MCSyscalls == MCSyscallsOf[t1] \cup MCSyscallsOf[t2]

\* Scratch for 16 bytes: the pipe read fits exactly, the big read does not.
MCUsableScratchSize == 16
=============================================================================
