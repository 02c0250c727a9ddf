-------------------------- MODULE MCGdbDataRequests --------------------------
(***************************************************************************)
(* Eight addresses in four pages of two bytes, over the byte values 0 and  *)
(* 1.  The layouts have two adjacent mappings (a match may cross from one  *)
(* into the other), a gap between mappings, an unreadable page inside a    *)
(* mapping, and patch-stub mappings next to readable and unreadable pages; *)
(* search patterns of one to three bytes cross page boundaries.  Memory    *)
(* reads see memory of ones, so that every zero in a reply was put there   *)
(* by the intercept.  Words are two bytes on x86 and four on x86-64; the   *)
(* register numbering keeps its shape (general registers through ORIG,    *)
(* then the YMM high halves) with fewer registers, and one x86-64 number   *)
(* below ORIG_RAX that Registers cannot read.                              *)
(***************************************************************************)
EXTENDS GdbDataRequests

MCAddrs == 0..7

\* Readable memory is made of whole pages.
Pages(ps) == {a \in MCAddrs : a \div 2 \in ps}

MCLayouts ==
  { [maps |-> << MemoryRange(0, 4), MemoryRange(4, 8) >>,
     readable |-> Pages({0, 1, 2, 3}), stubs |-> {2}],
    [maps |-> << MemoryRange(0, 4), MemoryRange(4, 8) >>,
     readable |-> Pages({0, 2, 3}), stubs |-> {1}],
    [maps |-> << MemoryRange(0, 2), MemoryRange(4, 8) >>,
     readable |-> Pages({0, 2, 3}), stubs |-> {}],
    [maps |-> << MemoryRange(2, 8) >>,
     readable |-> Pages({1, 3}), stubs |-> {1}] }

MCContents == [MCAddrs -> {0, 1}]

MCMemContents == { [a \in MCAddrs |-> 1] }

MCPatterns == { <<1>>, <<0, 1>>, <<1, 0, 1>> }

MCWheres == { MemoryRange(0, 8), MemoryRange(1, 7), MemoryRange(3, 8) }

MCMemLens == 1..6

MCWordSize == [a \in Archs |-> IF a = "X86" THEN 2 ELSE 4]

MCOrigReg == [a \in Archs |-> IF a = "X86" THEN 2 ELSE 3]

MCTopYmmReg == [a \in Archs |-> IF a = "X86" THEN 4 ELSE 6]

MCGprSize ==
  [a \in Archs |-> IF a = "X86" THEN [rn \in 0..2 |-> 4]
                   ELSE [rn \in {0, 1, 3} |-> 8]]

MCXsaveSize ==
  [a \in Archs |-> IF a = "X86" THEN [rn \in 3..4 |-> 16]
                   ELSE [rn \in 4..6 |-> 16]]
==============================================================================
