---------------------------- MODULE MCParamSize -----------------------------
(***************************************************************************)
(* Param lists of up to three sizes built with the constructors over one   *)
(* 4-byte size cell p1 (a socklen_t, say) and an 8-byte result: fixed      *)
(* sizes (one past i32::MAX), cells pre-initialised with a maximum, and    *)
(* results bounded by an incoming size, as readv / recvmsg / getsockopt    *)
(* pre-handlers build them.  i32::MAX is scaled to 6.                      *)
(***************************************************************************)
EXTENDS ParamSize

CONSTANTS p1, NoPtr

MCReadSizeOf == [p \in {p1} |-> 4]
MCIntMax == 6
MCWordMod == [rs \in ReadSizes |-> IF rs = 4 THEN 16 ELSE 256]

\* The sizes a pre-handler may register.
Shapes ==
  { FromSize(2), FromSize(7),
    FromInitializedMem(p1, 3), LimitSize(FromInitializedMem(p1, 5), 2),
    FromSyscallResultWithSize(8, 3), FromSyscallResultWithSize(8, 2) }

MCLists == UNION {[1..n -> Shapes] : n \in 1..3}
MCCellValues == 0..6
MCResults == -1..6
=============================================================================
