------------------------------ MODULE AsmCode ------------------------------
(***************************************************************************)
(* The code buffers of nanojit::Assembler, on top of CodeAlloc.            *)
(*                                                                         *)
(* One Assembler compiles one fragment after the other (compile).  It      *)
(* emits backwards, from the end of a block to its start, into two blocks: *)
(* the one for normal code and, while it is inside asm_leave_trace, the    *)
(* one for exit code; swapCodeChunks exchanges their pointers.  A full     *)
(* block goes on the fragment's CodeList and a jump joins the next block   *)
(* to it.  endAssembly gives back what was not used, or everything when    *)
(* there was an error.                                                     *)
(*                                                                         *)
(* The clients of the allocator are the fragments.  The buffers are those  *)
(* of the X64 back end: no byte limit, and holes only at the low end.      *)
(***************************************************************************)
EXTENDS CodeAlloc

CONSTANTS
  JumpSize,    \* the largest jump underrunProtect emits between two blocks
  MaxReleases  \* bound: finished fragments the embedder frees the code of

\* X64: a jump takes at most 14 bytes, a header 40, minAllocSize is 38.
ASSUME JumpAssumption ==
  JumpSize \in Nat /\ JumpSize <= MinAllocSize /\ JumpSize <= HeaderSpaceFor(2)
ASSUME ReleasesAssumption == MaxReleases \in Nat

\* alloc is called without a limit.  Chunks are whole pages, and a header ends
\* with a pointer; a page is 4096 bytes.
ASSUME BufferAssumption ==
  /\ 0 \in ByteLimits
  /\ BytesPerAlloc >= HeaderSpaceFor(4) + MinAllocSize
  /\ SizeofMinBlock % PtrSize = 0 /\ BytesPerAlloc % PtrSize = 0
  /\ \A m \in ChunkBase : m % PtrSize = 0
ASSUME NoBufferAssumption == NULL \notin [start : Nat, end : Nat, ip : Nat]

VARIABLES
  pc,      \* how far compile is, see the actions
  frag,    \* _thisfrag
  here,    \* codeStart, codeEnd and _nIns, or NULL
  there,   \* exitStart, exitEnd and _nExitIns, or NULL; the reverse in exits
  inExit,  \* _inExit
  want,    \* what is left of the bytes the last underrunProtect asked for
  error,   \* _err # None
  entry,   \* the fragments whose fragEntry is set
  written, \* history: the blocks this compilation has emitted to, and whether
           \* it was in an exit then
  releases \* finished fragments freed so far

compileVars == <<pc, frag, here, there, inExit, want, error, entry, written>>
asmVars == <<compileVars, releases>>
allVars == <<vars, asmVars>>

-----------------------------------------------------------------------------
Extent(p) == [start |-> p.start, end |-> p.end]
Buffer(r, used) == [start |-> r.start, end |-> r.end, ip |-> r.end - used]

\* Where the code generator emits, and where a new block is fetched for it.
PageFor == [gen |-> "genPage", prologue |-> "prologuePage"]
Emitting == pc \in {"gen", "prologue"}
Paging == pc \in {"genPage", "prologuePage"}

Fits(n) == here.start + n <= here.ip

\* What is recorded when code is emitted to p.
Writing(p) == [start |-> p.start, exit |-> inExit]

Alloc(f) ==
  \/ AllocReuse(f, 0)
  \/ \E m \in ChunkBase : AllocNewChunk(f, 0, m)

\* The block the Alloc of this step has returned.
Fresh(f) == CHOOSE r \in range'[f] : r \notin range[f]

AsmInit ==
  /\ Init
  /\ pc = "idle"
  /\ frag = NULL
  /\ here = NULL
  /\ there = NULL
  /\ inExit = FALSE
  /\ want = 0
  /\ error = FALSE
  /\ entry = {}
  /\ written = {}
  /\ releases = 0

\* beginAssembly: everything is reset and the first block fetched
\* (nativePageSetup).
BeginAssembly(f) ==
  /\ pc = "idle"
  /\ f \notin entry
  /\ Alloc(f)
  /\ frag' = f
  /\ here' = Buffer(Fresh(f), 0)
  /\ there' = NULL
  /\ inExit' = FALSE
  /\ want' = 0
  /\ error' = FALSE
  /\ pc' = "gen"
  /\ UNCHANGED <<entry, written>>

\* underrunProtect(n), and there is room for n bytes.
Protect(n) ==
  /\ Emitting
  /\ want = 0
  /\ Fits(n)
  /\ want' = n
  /\ UNCHANGED <<vars, pc, frag, here, there, inExit, error, entry, written>>

\* Some of the bytes asked for are emitted; what follows may need fewer.
Emit(k) ==
  /\ Emitting
  /\ k <= want
  /\ Fits(k)
  /\ here' = [here EXCEPT !.ip = @ - k]
  /\ want' \in {0, want - k}
  /\ written' = written \cup {Writing(here)}
  /\ UNCHANGED <<vars, pc, frag, there, inExit, error, entry>>

\* underrunProtect(n), and the block is full: codeAlloc saves it on the list.
\* The instructions of a protected sequence protect themselves once more.
SaveBlock(n) ==
  /\ Emitting
  /\ want > 0 => n <= want
  /\ ~Fits(n)
  /\ Add(frag, Extent(here))
  /\ want' = IF want = 0 THEN n ELSE want
  /\ pc' = PageFor[pc]
  /\ UNCHANGED <<frag, here, there, inExit, error, entry, written>>

\* The rest of that codeAlloc, and the jump that joins the new block.
NewBlock ==
  /\ Paging
  /\ Alloc(frag)
  /\ here' = Buffer(Fresh(frag), JumpSize)
  /\ written' = written \cup {Writing(here')}
  /\ pc' = IF pc = "genPage" THEN "gen" ELSE "prologue"
  /\ UNCHANGED <<frag, there, inExit, want, error, entry>>

\* asm_leave_trace, up to its first swapCodeChunks, which fetches the exit
\* block when there is none yet.
LeaveTrace ==
  /\ pc = "gen"
  /\ ~inExit
  /\ want = 0
  /\ inExit' = TRUE
  /\ there' = here
  /\ UNCHANGED <<pc, frag, want, error, entry, written>>

LeaveTraceFirst ==
  /\ there = NULL
  /\ LeaveTrace
  /\ Alloc(frag)
  /\ here' = Buffer(Fresh(frag), 0)

LeaveTraceAgain ==
  /\ there # NULL
  /\ LeaveTrace
  /\ here' = there
  /\ UNCHANGED vars

\* Faulty variant: no swap on the way out.
EndExitUnswapped ==
  /\ pc = "gen"
  /\ inExit
  /\ want = 0
  /\ here.ip < here.end
  /\ inExit' = FALSE
  /\ UNCHANGED <<vars, pc, frag, here, there, want, error, entry, written>>

\* asm_leave_trace from its second swapCodeChunks.  nFragExit has emitted code.
EndExit ==
  /\ pc = "gen"
  /\ inExit
  /\ want = 0
  /\ here.ip < here.end
  /\ inExit' = FALSE
  /\ here' = there
  /\ there' = here
  /\ UNCHANGED <<vars, pc, frag, want, error, entry, written>>

\* setError, from code generation or from the patching of branches; nothing is
\* unwound, the current instruction goes on to its end.
SetError ==
  /\ pc = "gen"
  /\ ~error
  /\ error' = TRUE
  /\ UNCHANGED <<vars, pc, frag, here, there, inExit, want, entry, written>>

\* The end of assemble, and endAssembly's test of error().
EndGen ==
  /\ pc = "gen"
  /\ ~inExit
  /\ want = 0
  /\ pc' = IF error THEN "freeList" ELSE "prologue"
  /\ written' = IF error THEN {} ELSE written
  /\ UNCHANGED <<vars, frag, here, there, inExit, want, error, entry>>

-----------------------------------------------------------------------------
(* endAssembly: success.                                                   *)

\* genPrologue has emitted code.
EndPrologue ==
  /\ pc = "prologue"
  /\ want = 0
  /\ here.ip < here.end
  /\ pc' = IF there = NULL THEN "keepCode" ELSE "keepExit"
  /\ written' = {}
  /\ UNCHANGED <<vars, frag, here, there, inExit, want, error, entry>>

KeepExit ==
  /\ pc = "keepExit"
  /\ AddRemainder(frag, Extent(there), there.start, there.ip)
  /\ pc' = "keepCode"
  /\ UNCHANGED <<frag, here, there, inExit, want, error, entry, written>>

KeepCode ==
  /\ pc = "keepCode"
  /\ AddRemainder(frag, Extent(here), here.start, here.ip)
  /\ pc' = "mark"
  /\ UNCHANGED <<frag, here, there, inExit, want, error, entry, written>>

Finish ==
  /\ pc = "mark"
  /\ MarkExec(frag)
  /\ entry' = entry \cup {frag}
  /\ pc' = "idle"
  /\ UNCHANGED <<frag, here, there, inExit, want, error, written>>

-----------------------------------------------------------------------------
(* cleanupAfterError, and the release of finished code by the embedder.    *)

\* Faulty variants: the list is cleared before its blocks are freed; the chunks
\* the failed compilation made writable stay so.
FreeListForgets ==
  /\ pc \in {"freeList", "release"}
  /\ code[frag] # <<>>
  /\ code' = [code EXCEPT ![frag] = <<>>]
  /\ UNCHANGED <<hdr, heapblocks, availblocks, isExec, range, freeing, chunks>>
  /\ UNCHANGED compileVars

AbandonUnmarked ==
  /\ pc = "markAll"
  /\ pc' = "idle"
  /\ UNCHANGED <<vars, frag, here, there, inExit, want, error, entry, written>>

FreeList ==
  /\ pc \in {"freeList", "release"}
  /\ FreeAll(frag) \/ FreeAllStep(frag)
  /\ UNCHANGED compileVars

EndFreeList ==
  /\ pc \in {"freeList", "release"}
  /\ code[frag] = <<>>
  /\ pc' = CASE pc = "release" -> "idle"
             [] pc = "freeList" /\ there = NULL -> "freeCode"
             [] OTHER -> "freeExit"
  /\ UNCHANGED <<vars, frag, here, there, inExit, want, error, entry, written>>

FreeExit ==
  /\ pc = "freeExit"
  /\ Free(frag, Extent(there))
  /\ pc' = "freeCode"
  /\ UNCHANGED <<frag, here, there, inExit, want, error, entry, written>>

FreeCode ==
  /\ pc = "freeCode"
  /\ Free(frag, Extent(here))
  /\ pc' = "markAll"
  /\ UNCHANGED <<frag, here, there, inExit, want, error, entry, written>>

Abandon ==
  /\ pc = "markAll"
  /\ MarkAllExec
  /\ pc' = "idle"
  /\ UNCHANGED <<frag, here, there, inExit, want, error, entry, written>>

\* The embedder passes a finished fragment's list to freeAll.
Release(f) ==
  /\ releases < MaxReleases
  /\ pc = "idle"
  /\ f \in entry
  /\ frag' = f
  /\ entry' = entry \ {f}
  /\ pc' = "release"
  /\ releases' = releases + 1
  /\ UNCHANGED <<vars, here, there, inExit, want, error, written>>

Compile ==
  \/ \E f \in Client : BeginAssembly(f)
  \/ \E n \in 1 .. MinAllocSize : Protect(n) \/ Emit(n) \/ SaveBlock(n)
  \/ NewBlock
  \/ LeaveTraceFirst \/ LeaveTraceAgain \/ EndExit
  \/ SetError
  \/ EndGen \/ EndPrologue
  \/ KeepExit \/ KeepCode \/ Finish
  \/ FreeList \/ EndFreeList \/ FreeExit \/ FreeCode \/ Abandon

AsmNext ==
  \/ Compile /\ UNCHANGED releases
  \/ \E f \in Client : Release(f)

AsmSpec == AsmInit /\ [][AsmNext]_allVars

-----------------------------------------------------------------------------

\* What underrunProtect has promised is there, and after a page break too: no
\* byte is emitted below codeStart, over the block's header (pageValidate), and
\* a protected sequence is never cut by a second page break.
ReservationKept ==
  Emitting => here.start <= here.ip /\ here.ip <= here.end /\ Fits(want)

\* The same while the embedder keeps all finished code.
ReservationFits == releases = 0 => ReservationKept

\* The buffers in use: obtained and not yet put on the list, given back or
\* freed.  Before the next block is fetched, here is the one just put away.
Filling ==
  CASE pc \in {"gen", "prologue", "keepExit", "freeExit"} -> {here, there} \ {NULL}
    [] pc \in {"genPage", "prologuePage"} -> {there} \ {NULL}
    [] pc \in {"keepCode", "freeCode"} -> {here}
    [] pc = "freeList" -> {here, there} \ {NULL}
    [] OTHER -> {}

\* While the embedder keeps all finished code no header is written to in a
\* chunk that is protected against writing (markBlockWrite, markAllExec).
WritesOnlyWritable == [][releases' = 0 => WritesWritable]_allVars

\* The code of exits and the main code, emitted in turns, never come to lie in
\* the same block, whatever page breaks there are in either: main code runs
\* from the start of its block to the end, and so would run into the exits.
StreamsApart ==
  \A v, w \in written : v.start = w.start => v.exit = w.exit

\* Code is written only where the chunk is writable: from the allocation of a
\* block to the end of the assembly no one marks its chunk executable.
EmitsToWritable ==
  Emitting => \A p \in {here, there} \ {NULL} :
                hdr[GetBlock(p)].terminator \notin isExec

\* Between two compilations all finished code can run, though each of them has
\* made chunks writable that it shares with the code of other fragments.
FinishedExecutable ==
  pc = "idle" =>
    \A f \in entry : \A i \in DOMAIN code[f] :
      hdr[code[f][i]].terminator \in isExec

\* No path leaks a block or frees it twice: the fragments hold exactly the
\* buffers in use, and between compilations every used block is code of a
\* finished fragment; a failed compilation leaves nothing behind.
NothingLeaked ==
  /\ \A f \in Client :
       range[f] = IF f = frag THEN {Extent(p) : p \in Filling} ELSE {}
  /\ pc = "idle" => /\ \A f \in Client : code[f] = <<>> <=> f \notin entry
                    /\ NoBlockLost

\* The code of a finished fragment stays as it is until it is released.
FinishedUntouched ==
  [][\A f \in entry \cap entry' :
       /\ code'[f] = code[f]
       /\ \A i \in DOMAIN code[f] :
            /\ code[f][i] \in DOMAIN hdr'
            /\ RangeOf(hdr', code[f][i]) = RangeOf(hdr, code[f][i])]_allVars

=============================================================================
