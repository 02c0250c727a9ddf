------------------------ MODULE MCSeccompFilterRewriter ------------------------
(***************************************************************************)
(* Two threads; 2 data bits with BASE_CUSTOM_DATA 1, so the table holds   *)
(* two verdicts and a third distinct one trips the bound assertion; a      *)
(* fourth, without it, would reach the action bits.                        *)
(* Syscall inputs: two syscalls from user code and one from the            *)
(* privileged rd-page exit point.  Programs: one returning ERRNO for one  *)
(* syscall, one killing it, one trapping one syscall and failing the      *)
(* other with a new ERRNO (with a RET of the first program's ERRNO, a      *)
(* shared table entry), and one returning the accumulator.                 *)
(***************************************************************************)
EXTENDS SeccompFilterRewriter, TLC

CONSTANTS t1, t2

X1 == [nr |-> 1, ip |-> "user"]
X2 == [nr |-> 2, ip |-> "user"]
X3 == [nr |-> 1, ip |-> "rdpage"]
MCInputs == {X1, X2, X3}
MCRdPageSyscalls == {[privileged |-> TRUE, ip |-> "rdpage"],
                     [privileged |-> FALSE, ip |-> "rdpage_untraced"]}

RetK(k) == [cls |-> "ret", rval |-> "K", k |-> k]
Alu == [cls |-> "alu", rval |-> "K", k |-> 0]
Errno3 == Verdict(5, 3)
Kill == Verdict(0, 0)
Trap1 == Verdict(3, 1)
Errno2 == Verdict(5, 2)
Allow == Verdict(15, 0)

ErrnoProg == [code |-> <<Alu, RetK(Errno3), RetK(Allow)>>, sel |-> (X1 :> 2 @@ X2 :> 3 @@ X3 :> 2)]
KillProg == [code |-> <<RetK(Kill), RetK(Allow)>>, sel |-> (X1 :> 1 @@ X2 :> 2 @@ X3 :> 1)]
TrapProg == [code |-> <<RetK(Trap1), RetK(Errno2), RetK(Errno3)>>, sel |-> (X1 :> 2 @@ X2 :> 1 @@ X3 :> 1)]
AccProg == [code |-> <<[cls |-> "ret", rval |-> "A", k |-> 0]>>, sel |-> (X1 :> 1 @@ X2 :> 1 @@ X3 :> 1)]
MCPrograms == {ErrnoProg, KillProg, TrapProg, AccProg}
=============================================================================
