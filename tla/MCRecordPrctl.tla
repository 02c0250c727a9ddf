---------------------------- MODULE MCRecordPrctl ----------------------------
(***************************************************************************)
(* RecordPrctl for TLC: two tasks of one thread group, every arm of the     *)
(* prctl match (one option standing for the options rd lets through), and  *)
(* arg2 values that are each arm's valid and invalid cases.                *)
(* The filters the tracee installs are those of MCSeccompFilterRewriter    *)
(* that rd can rewrite, and one it cannot (a RET of the accumulator).      *)
(***************************************************************************)
EXTENDS RecordPrctl, TLC

MCOptions == {"GET_DUMPABLE", "SET_DUMPABLE", "GET_TSC", "SET_TSC", "GET_SECCOMP",
              "SET_SECCOMP", "SET_PTRACER", "SET_NO_NEW_PRIVS", PassThrough, Unknown}

\* 0 and 1 (dumpable values), 1 and 2 (TSC modes, seccomp modes), 3 (none).
MCArgs2 == 0 .. 3

\* A null address is passed only as a filter program: PR_GET_TSC with it is
\* the violation run's.
MCCalls == {c \in [op : Options, a2 : Args2, ptr : Ptrs] : c.ptr = Null => c.op = "SET_SECCOMP"}

X1 == [nr |-> 1, ip |-> "user"]
X2 == [nr |-> 2, ip |-> "rdpage"]
MCInputs == {X1, X2}
MCRdPageSyscalls == {[privileged |-> TRUE, ip |-> "rdpage"]}

\* 2 data bits, as in MCSeccompFilterRewriter.
MCDataBits == 2
MCVerdict(act, data) == act * 2^MCDataBits + data

RetK(k) == [cls |-> "ret", rval |-> "K", k |-> k]
ErrnoProg == [code |-> <<RetK(MCVerdict(5, 3)), RetK(MCVerdict(15, 0))>>, sel |-> (X1 :> 1 @@ X2 :> 1)]
AccProg == [code |-> <<[cls |-> "ret", rval |-> "A", k |-> 0]>>, sel |-> (X1 :> 1 @@ X2 :> 1)]
MCPrograms == {ErrnoProg, AccProg}

\* The tasks of the thread group play the same part.
MCSymmetry == Permutations(Tasks)
=============================================================================
