--------------------------- MODULE GdbDataRequests ---------------------------
(***************************************************************************)
(* The requests of src/commands/gdb_server.rs that read the tracee's state  *)
(* for gdb.  The connection first advertises the CPU features             *)
(* (await_connection, get_cpu_features); then one request is served:       *)
(*                                                                         *)
(*  - qSearch:memory (search_memory): find the first occurrence of a byte  *)
(*    string in a range of the tracee's address space.  It walks the       *)
(*    mappings in address order; in each it reads a page at a time, plus  *)
(*    the len - 1 bytes after the page so that a match crossing a page (or *)
(*    mapping) boundary is seen, and skips what read_bytes_fallible cannot *)
(*    read.  Each step is one iteration of one of the two loops.           *)
(*  - DREQ_GET_MEM: the bytes read, passed through                          *)
(*    maybe_intercept_mem_request, which zeroes the word at the stack       *)
(*    pointer when the task stops in rd's patch stubs.                      *)
(*  - DREQ_GET_REGS (dispatch_regs_request): every register the target     *)
(*    description covers, each through get_reg.                             *)
(*                                                                         *)
(* The inputs (memory, mappings, readable pages, the task's registers, the *)
(* host's cpuid bits and the request) are chosen initially.                *)
(***************************************************************************)
EXTENDS Integers, Sequences, FiniteSetsExt

CONSTANTS
  PageSize,     \* page_size(), scaled down
  AddrLimit,    \* addresses are 0 .. AddrLimit - 1
  Layouts,      \* [maps : the mappings in address order, readable : addresses,
                \*  stubs : the indices of the IS_PATCH_STUBS mappings]
  Contents,     \* memory contents a search may meet, [Addrs -> byte values]
  MemContents,  \* memory contents a memory read may meet
  Patterns,     \* the find_s strings gdb may send (non-empty)
  Wheres,       \* the ranges [start, end) gdb may search
  MemLens,      \* the lengths of DREQ_GET_MEM requests
  WordSize,     \* word_size(arch), scaled down
  OrigReg,      \* DREG_ORIG_EAX / DREG_ORIG_RAX, per arch
  TopYmmReg,    \* DREG_YMM7H / DREG_64_YMM15H, per arch
  GprSize,      \* per arch: the registers Registers::read_register knows, and
                \* their sizes
  XsaveSize,    \* per arch: the registers ExtraRegisters::read_register
                \* knows when it holds an XSAVE area, and their sizes
  MaxSize,      \* GdbRegisterValue::MAX_SIZE
  NotFound,     \* None
  Searching,    \* no answer yet
  Panic         \* the server panicked instead of answering

Addrs == 0 .. AddrLimit - 1
Archs == {"X86", "X64"}
\* AVX_FEATURE_FLAG and OSXSAVE_FEATURE_FLAG of cpuid(CPUID_GETFEATURES).ecx.
CpuidBits == {"AVX", "OSXSAVE"}

VARIABLES
  mem, layout, task,  \* the inputs: memory, mappings, the stopped task
  ecx,                \* the replay host's cpuid feature bits
  req,                \* the request gdb sends
  features,           \* GdbConnection::cpu_features(), set at connection
  connected,          \* await_connection has returned
  mi,                 \* search: the mapping the for loop is at (0: not started)
  r,                  \* search: the range the while loop still has to search
  result              \* Searching, or the answer (or Panic)

vars == <<mem, layout, task, ecx, req, features, connected, mi, r, result>>

\* The search request's pattern and range.
pat == req.pat
where == req.where

\* MemoryRange::from_range and intersect.
MemoryRange(s, e) == [start |-> s, end |-> e]
Size(rg) == rg.end - rg.start
Intersect(a, b) ==
  LET s == Max({a.start, b.start})
  IN MemoryRange(s, Max({s, Min({a.end, b.end})}))

\* floor_page_size.
FloorPage(a) == (a \div PageSize) * PageSize

\* read_bytes_fallible(start, buf[0..l]): the bytes up to the first one
\* that cannot be read.
NRead(start, l) ==
  Max({k \in 0..l : \A j \in 0..k - 1 : start + j \in layout.readable})

\* find(haystack, needle): the offset of the first occurrence, or -1.
Find(hay, needle) ==
  LET offs == {o \in 0..Len(hay) - Len(needle) :
                 \A j \in 1..Len(needle) : hay[o + j] = needle[j]}
  IN IF offs = {} THEN -1 ELSE Min(offs)

\* The bytes at [start, start + n).
Bytes(start, n) == [i \in 1..n |-> mem[start + i - 1]]

\* buf: one page plus find_s.len() - 1 bytes.
BufLen == PageSize + Len(pat) - 1

\* A variant that reads whole mappings without the len - 1 tail.
MappingRangeNoTail(m) == MemoryRange(m.start, m.end)

\* The range searched in mapping m: up to len - 1 bytes past its end, within
\* where_.
MappingRange(m) == MemoryRange(m.start, m.end + (Len(pat) - 1))

\* A variant without the clamp to the end of the range.
NextChunkStartUnclamped(rg) == FloorPage(rg.start) + PageSize

\* A variant that forgets to add the page size.
NextChunkStartNoAdvance(rg) == Min({rg.end, FloorPage(rg.start)})

\* The next iteration starts at the next page boundary.
NextChunkStart(rg) == Min({rg.end, FloorPage(rg.start) + PageSize})

\* is_in_patch_stubs: ip lies in a mapping flagged IS_PATCH_STUBS.
IsInPatchStubs(ip) ==
  \E i \in DOMAIN layout.maps :
    /\ layout.maps[i].start <= ip /\ ip < layout.maps[i].end
    /\ i \in layout.stubs

\* A variant that also takes a stack pointer at the very end of the range.
MaybeInterceptMemRequestLoose(buf) ==
  LET size == WordSize[task.arch]
      offset == task.sp - req.addr
  IN IF /\ task.sp >= req.addr
        /\ task.sp + size <= req.addr + req.len + 1
        /\ IsInPatchStubs(task.ip)
     THEN IF offset + size > Len(buf) THEN Panic
          ELSE [i \in 1..Len(buf) |->
                  IF offset < i /\ i <= offset + size THEN 0 ELSE buf[i]]
     ELSE buf

\* maybe_intercept_mem_request: zero the word at sp when it lies in the
\* requested range and the task is in the patch stubs; slicing the result
\* past its end panics.
MaybeInterceptMemRequest(buf) ==
  LET size == WordSize[task.arch]
      offset == task.sp - req.addr
  IN IF /\ task.sp >= req.addr
        /\ task.sp + size <= req.addr + req.len
        /\ IsInPatchStubs(task.ip)
     THEN IF offset + size > Len(buf) THEN Panic
          ELSE [i \in 1..Len(buf) |->
                  IF offset < i /\ i <= offset + size THEN 0 ELSE buf[i]]
     ELSE buf

\* get_cpu_features: CPU_64BIT for x86-64 tasks, CPU_AVX when cpuid reports
\* both AVX and OSXSAVE.
GetCpuFeatures(arch, bits) ==
  (IF arch = "X64" THEN {"CPU_64BIT"} ELSE {})
    \cup (IF CpuidBits \subseteq bits THEN {"CPU_AVX"} ELSE {})

\* get_reg (the free function): Registers first, then ExtraRegisters, which
\* only know the AVX registers when they hold an XSAVE area.  0: None.
ReadRegister(rn) ==
  IF rn \in DOMAIN GprSize[task.arch] THEN GprSize[task.arch][rn]
  ELSE IF task.xsave /\ rn \in DOMAIN XsaveSize[task.arch]
       THEN XsaveSize[task.arch][rn]
  ELSE 0

\* GdbServer::get_reg: a defined value of the size read, an undefined one
\* for None, a panic for a size above MAX_SIZE.
GetReg(rn) ==
  LET siz == ReadRegister(rn)
  IN IF siz = 0 THEN [name |-> rn, defined |-> FALSE, size |-> 0]
     ELSE IF siz <= MaxSize THEN [name |-> rn, defined |-> TRUE, size |-> siz]
     ELSE Panic

\* The last register dispatch_regs_request sends.
RegsEnd(arch, haveAvx) == IF haveAvx THEN TopYmmReg[arch] ELSE OrigReg[arch]

\* Inputs a request does not read are fixed.
Task0 == [arch |-> "X64", sp |-> 0, ip |-> 0, xsave |-> FALSE]

SearchInit ==
  /\ req \in [kind : {"search"}, pat : Patterns, where : Wheres]
  /\ mem \in Contents
  /\ layout \in Layouts
  /\ task = Task0
  /\ ecx = {}

MemInit ==
  /\ req \in {q \in [kind : {"mem"}, addr : Addrs, len : MemLens] :
                q.addr + q.len <= AddrLimit}
  /\ mem \in MemContents
  /\ layout \in Layouts
  /\ task \in [arch : Archs, sp : Addrs, ip : Addrs, xsave : {FALSE}]
  /\ ecx = {}

RegsInit ==
  /\ req = [kind |-> "regs"]
  /\ mem \in MemContents
  /\ layout = CHOOSE l \in Layouts : TRUE
  /\ task \in [arch : Archs, sp : {0}, ip : {0}, xsave : BOOLEAN]
  /\ ecx \in SUBSET CpuidBits

Init ==
  /\ SearchInit \/ MemInit \/ RegsInit
  /\ features = {}
  /\ connected = FALSE
  /\ mi = 0
  /\ r = MemoryRange(0, 0)
  /\ result = Searching

\* await_connection: the CPU features of the task's arch and the host.
Connect ==
  /\ ~connected
  /\ connected' = TRUE
  /\ features' = GetCpuFeatures(task.arch, ecx)
  /\ UNCHANGED <<mem, layout, task, ecx, req, mi, r, result>>

Serving(k) == connected /\ req.kind = k /\ result = Searching

\* for (_, m) in maps: the while loop over the previous mapping has ended;
\* start on the next one.
NextMapping ==
  /\ Serving("search")
  /\ Size(r) < Len(pat)
  /\ mi < Len(layout.maps)
  /\ mi' = mi + 1
  /\ r' = Intersect(MappingRange(layout.maps[mi + 1]), where)
  /\ UNCHANGED <<mem, layout, task, ecx, req, features, connected, result>>

\* One iteration of the while loop: read a chunk, look for the pattern in
\* what was read, and return the first match or move on a page.
ReadChunk ==
  LET l == Min({BufLen, Size(r)})
      nread == NRead(r.start, l)
      off == Find(Bytes(r.start, nread), pat)
  IN /\ Serving("search")
     /\ Size(r) >= Len(pat)
     /\ IF nread >= Len(pat) /\ off # -1
          THEN /\ result' = r.start + off
               /\ UNCHANGED r
          ELSE /\ r' = MemoryRange(NextChunkStart(r), r.end)
               /\ UNCHANGED result
     /\ UNCHANGED <<mem, layout, task, ecx, req, features, connected, mi>>

\* Every mapping searched without a match: None.
ReturnNone ==
  /\ Serving("search")
  /\ Size(r) < Len(pat)
  /\ mi = Len(layout.maps)
  /\ result' = NotFound
  /\ UNCHANGED <<mem, layout, task, ecx, req, features, connected, mi, r>>

\* DREQ_GET_MEM (spec.md 7, UnreadableTraceeMemory): the bytes up to the
\* first unreadable one, zeros for the unreadable tail, passed through
\* maybe_intercept_mem_request.
ReadMem(start, l) ==
  Bytes(start, NRead(start, l)) \o [i \in 1..l - NRead(start, l) |-> 0]

GetMem ==
  /\ Serving("mem")
  /\ result' = MaybeInterceptMemRequest(ReadMem(req.addr, req.len))
  /\ UNCHANGED <<mem, layout, task, ecx, req, features, connected, mi, r>>

\* dispatch_regs_request: registers 0 ..= end, end chosen by the task's
\* arch and the CPU_AVX feature of the connection.
GetRegs ==
  LET rs == [i \in 1 .. RegsEnd(task.arch, "CPU_AVX" \in features) + 1 |->
               GetReg(i - 1)]
  IN /\ Serving("regs")
     /\ result' = IF \E i \in DOMAIN rs : rs[i] = Panic THEN Panic ELSE rs
     /\ UNCHANGED <<mem, layout, task, ecx, req, features, connected, mi, r>>

Next ==
  \/ Connect
  \/ NextMapping \/ ReadChunk \/ ReturnNone
  \/ GetMem
  \/ GetRegs

\* serve_replay serves the request and waits for its answer.
Spec == Init /\ [][Next]_vars /\ WF_vars(Next)

-----------------------------------------------------------------------------
RegValues == [name : Nat, defined : BOOLEAN, size : Nat]

TypeOK ==
  /\ mi \in 0..Len(layout.maps)
  /\ r \in [start : Nat, end : Nat]
  /\ r.start <= r.end
  /\ features \subseteq {"CPU_64BIT", "CPU_AVX"}
  /\ \/ result = Searching
     \/ req.kind = "search" /\ result \in Addrs \cup {NotFound}
     \/ req.kind # "search" /\ result = Panic
     \/ req.kind = "mem" /\ result \in Seq(Nat)
     \/ req.kind = "regs" /\ result \in Seq(RegValues)

\* The reference: the lowest address in where_ at which the whole pattern
\* lies in readable memory and matches.
Matches(a) ==
  /\ where.start <= a /\ a + Len(pat) <= where.end
  /\ \A j \in 0..Len(pat) - 1 : a + j \in layout.readable
  /\ Bytes(a, Len(pat)) = pat

FirstMatch ==
  LET hits == {a \in Addrs : Matches(a)}
  IN IF hits = {} THEN NotFound ELSE Min(hits)

(***************************************************************************)
(* search_memory answers gdb with the first readable occurrence of the      *)
(* pattern in the range, across page boundaries, mapping boundaries and     *)
(* unreadable pages: the overlap of len - 1 bytes and the order of the      *)
(* mappings and pages make the first match found the lowest one.           *)
(***************************************************************************)
FindsFirstMatch ==
  req.kind = "search" /\ result # Searching => result = FirstMatch

(***************************************************************************)
(* The page-by-page loop always ends: every iteration either returns or    *)
(* moves the start of the remaining range forward.                          *)
(***************************************************************************)
SearchTerminates == req.kind = "search" => <>(result # Searching)

(***************************************************************************)
(* spec.md 4.2 and 7 on DREQ_GET_MEM: gdb always gets an answer of the     *)
(* length it asked for, holding the readable bytes and zeros for the       *)
(* unreadable tail, except that when the task stopped in the patch stubs   *)
(* and the stack-pointer-sized slot at sp lies wholly within the request,  *)
(* exactly that slot reads as zeros (maybe_intercept_mem_request), at      *)
(* whatever offset, for either word size, and whether it was readable.    *)
(* The slice result[offset..offset + size] never runs past the reply.      *)
(***************************************************************************)
StubReturnAddressHidden ==
  req.kind = "mem" /\ result # Searching =>
    LET slot == task.sp .. task.sp + WordSize[task.arch] - 1
        hide == IsInPatchStubs(task.ip)
                /\ slot \subseteq req.addr .. req.addr + req.len - 1
        n == NRead(req.addr, req.len)
    IN /\ result # Panic
       /\ Len(result) = req.len
       /\ \A i \in 1..req.len :
            result[i] = IF hide /\ req.addr + i - 1 \in slot THEN 0
                        ELSE IF i <= n THEN mem[req.addr + i - 1]
                        ELSE 0

=============================================================================
