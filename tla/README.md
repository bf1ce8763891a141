# A TLA+ model of nanojit

nanojit turns a low-level intermediate representation (LIR) into machine code at
run time. This directory holds TLA+ modules of the parts of it that keep state,
the TLC configurations that check them on small instances, and proofs, checked
by TLAPS, of what matters most about them for every value of the constants.

`PROJECT.json` lists the components, the runs, the mutants that show each
property can be broken, the lines of the source every definition stands for, the
hazards of the code and the theorems. Line numbers below refer to `src/`.

    tlc -workers 2 -config MCCodeAlloc.cfg MCCodeAlloc     # a run
    tlapm CodeAllocProofs.tla                              # the proofs

## 1. The system

### Inventory

**Writing LIR.** A front end calls `insXXX` on a chain of `LirWriter`s, each of
which passes an instruction on, changes it or answers with an older one:

    ValidateWriter -> ExprFilter -> CseFilter -> VerboseWriter -> LirBufWriter -> LirBuffer

| component | state | operations | correct when |
|---|---|---|---|
| `LirBuffer`, `LirBufWriter` | chunks of memory, the unused end, the last skip | `makeRoom`, `insXXX` | the reader sees exactly the instructions that were written, in reverse |
| `CseFilter` | hash tables of instructions, `storesSinceLastLoad`, `knownCmpValues`, `suspended` | `ins*`, `suspend`, `resume` | what it answers with has run, on every way here, and has the same value |
| `ExprFilter`, `Interval` | none | `ins*` | the expression it answers with has the same value for every operand |
| `SoftFloatFilter` | none | `ins*` | the same, by way of calls |
| `ValidateWriter`, listers | types of operands, names | `ins*` | debug and verbose builds only |
| `Fragment` | last instruction, code pointer | `code`, `setCode` | - |

**Compiling.** `Assembler::compile` reads the buffer backwards through
`LirReader -> StackFilter` and emits code backwards, from high addresses to low
ones. It drives three stores of state of its own and the back end:

| component | state | operations | correct when |
|---|---|---|---|
| `RegAlloc` and the register side of `Assembler` | free and active registers, each value's reservation, labels' register states | `allocReg`, `evict`, `findRegFor*`, `findMemFor`, `prepareResultReg`, `freeResourcesOf`, merging of states at jumps | emitted code reads a value only where the value is |
| `AR`, the activation record | entries of the frame, high-water mark | `reserveEntry`, `freeEntryAt`, `clear` | no two values share a slot |
| code buffers of `Assembler` | pointers into a code block and an exit block, `_err` | `beginAssembly`, `underrunProtect`, `codeAlloc`, `endAssembly`, `cleanupAfterError` | it emits only into its own writable memory and loses no block |
| back ends: X64, i386, PowerPC, MIPS, ARM, Thumb2 | - | `asm_*` | what the code of an instruction reads is there when it reads it |
| `StackFilter` | bits of stack offsets | `read` | no live exit sees a store it drops missing |

**Underneath.** `CodeAlloc` hands out executable memory in blocks and gets it
from the embedder in chunks; `Allocator` does the same for data, and is never
freed piecemeal; `BitSet`, `Seq`, `HashMap`, `TreeMap` are containers.

**Back ends.** CMake builds X64 and i386. The sources of PowerPC, MIPS, ARM and
Thumb2 are compiled by no build file of the repository, but fit the interfaces
of this commit. Those of SH4 and Sparc do not: they use members of `RegAlloc`
that are gone (`free`, `allocTmpReg`) and lack one it calls
(`nInitManagedRegisters`).

**Above.** `nanojitextra` (the `NJX_*` functions) bundles one `LirBuffer`, one
`Assembler` and one `CodeAlloc` in a context, and gives a builder for each
function. `lirasm` is the test driver.

### How the parts interact

Everything is a call in one thread: nothing in nanojit is concurrent, nothing is
persisted and there are no messages. Components share state instead:

- the `Assembler`'s `_codeList` and the pointers into its two blocks are used in
  turn by the main code and by the exits;
- a chunk of `CodeAlloc` holds finished code of some fragments and the buffer of
  the one being compiled, and its protection is changed as a whole;
- a value's reservation (`LIns::sharedFields`) is shared by `RegAlloc`, by `AR`
  and by the back end;
- the embedder supplies memory, changes protection and may free code; any
  instruction may set an error, which is looked at later.

### What is hard here

- **Order.** Code is generated backwards. What `evict` emits runs *after* what
  is emitted next, so "first move it away, then overwrite" is written the other
  way round.
- **Joining of states.** At a label, the register states of all jumps to it
  meet, some of which were built before it and some after.
- **Neighbours.** Blocks in `CodeAlloc` are split and merged with neighbours
  that belong to other clients, through links in headers.
- **Errors half-way.** An error leaves the assembler in the middle of an
  instruction, and the clean-up must find every block.
- **Scratch registers.** A code generator takes a temporary, asks for an operand,
  and the restoring of what that evicts may take the same temporary.
- **Chunks.** The reader of LIR finds an instruction by the size of the one after
  it; where chunks end only a skip tells it where to go on.
- **Many rules.** A folding rule is right for some types and some operands.
- **Boundaries.** Alignment of holes and frame entries, blocks of minimal size,
  a full frame.
- **Staleness.** What `CseFilter` remembers is true only along the ways control
  took and until the next store.

The hazards at their lines, with the properties that would catch them going
wrong, are in `PROJECT.json`. Those without a property say why.

## 2. The modules

    CodeAlloc  <-- extended by --     AsmCode
    FrameSlots <-- implemented by --  AR
    LirLog     <-- implemented by --  StackFilter  --  LirBuffer  --  Allocator, BitSet
    RegState   --  RegAlloc           control flow, a machine of few registers
               \-- Native  --  Backends                      straight-line code, real machines
    Script     --  Upkeep  --/
    Script     --  Generators  --  NativeX64, NativeI386 (X86), NativePPC, NativeMIPS, NativeARM, NativeThumb2
    CseFilter
    LirValues  --  Interval  --  ExprFilter

Theorems are in modules of their own: `CodeAllocProofs`, `AsmCodeProofs`,
`ARProofs`, `RegAllocProofs` (which also holds those about `RegState` there),
`BackendsProofs`, `StackFilterProofs` (which also holds those about `LirBuffer`,
`LirReader` and `BitSet`), `CseFilterProofs` and `ExprFilterProofs`.

`MCx` modules and the `.cfg` files give constants their values for TLC. Some
definitions are named for a fault and used nowhere (`AbsorbKeepsLower`,
`FindMemForShared`, `FilterLiveGuardKeeps`, ...): each is the form a plausible
bug would give the definition after it, and `PROJECT.json` says which property
notices.

All modules describe the release build: where `NanoAssert` would stop, the model
goes on, and what is asserted is an invariant instead.

### CodeAlloc

`nanojit/CodeAlloc.{h,cpp}`. `hdr` is the map from addresses to the `CodeList`
headers of blocks, `heapblocks` the terminators of chunks, `availblocks` the
free list. Clients are the users of the allocator: `range[c]` is what `alloc`
gave client `c`, `code[c]` its `CodeList`. `chunks` is the embedder's account of
the memory it gave, `isExec` the chunks whose terminator is marked. `freeing` is
the client in the middle of `freeAll`, whose loop is one step per block.

One action is one call: `AllocReuse` and `AllocNewChunk` (the two halves of
`alloc`), `Free`, `Add`, `FreeAll` and `FreeAllStep`, `AddRemainder` with its
outcomes, `MarkExec`, `MarkAllExec`, `MarkBlockWrite`, `Reset`. `Carve` is the
splitting done for a byte limit, `Freed` the coalescing of `free`.

### AsmCode

`Assembler.cpp` from `compile` to `cleanupAfterError`, and `NativeX64`'s
`underrunProtect`. It EXTENDS `CodeAlloc`; the clients are the fragments. `here`
and `there` are the two triples of pointers (`codeStart`, `codeEnd`, `_nIns` and
their exit counterparts) which `swapCodeChunks` exchanges. `pc` is the position
in `compile`; `want` is what is left of the last reservation, so that emitting
without reserving shows.

`Protect` is a call of `underrunProtect`; when the block is full it is followed
by `SaveBlock` (the block goes on the list) and `NewBlock` (the next one is
fetched, and the jump emitted), which are steps of their own because the
allocator's state differs between them. `Release` is the embedder freeing
finished code, at most `MaxReleases` times; no code of the repository does, so
two properties (`ReservationFits`, `WritesOnlyWritable`) speak of what happens
before the first release, and the others of everything. What those two say is
false after a release: `ReservationKept`, the first without that condition, has a
counterexample (section 3), and `free` writes headers of finished code in chunks that
are protected.

`written` is no state of the code. It records which blocks a compilation has
emitted to, and whether that was in an exit (`_inExit`). `StreamsApart` is that no
block has both: code runs upwards to the end of its block, so main code below an
exit in the same block would run into it. Nothing in the code says so; it
depends on every path through `asm_leave_trace`, `codeAlloc` and the error path
swapping the two triples as often as it should.

### RegState and RegAlloc

`RegState` is the register side of `Assembler.cpp` as operators on a state:
`free`, `active`, `reg` and `ar` are the allocator's, and `needs` is not in the
code: it is what the code emitted so far reads at its entry, as pairs of a
location and the value that must be there. Every emitted instruction rewrites it
backwards (`Read`, `Write`, `Move`, `Clobber`), so that it is the meaning of the
generated code. An operator that chooses a register or a victim yields the set
of states it may leave.

`RegAlloc` drives it through control flow: definitions, uses, calls, exits,
jumps forward and backward, labels, `LIR_live`, fences. The main property,
`ValuesWhereNeeded`, is that the meaning of the code agrees with what the
allocator believes. The program is not fixed. At each step any instruction is
read that could stand there, so one run covers every program of that size; only
which values are constants, sums or parameters is a constant (`Programs`). The
loops over registers (`evictScratchRegsExcept`, `unionRegisterState`,
`intersectRegisterState`) go one register per step, in the order of the code, as
`job`.

Victims and registers are chosen in any way, which abstracts priorities and
hints: correctness may not depend on them. Of the front end it assumes that a
value live at a label is defined before the jumps to it; and that a loop has a
`LIR_live` below its end for each value defined before the loop and used in it
or after it.

### Script, Native, the back ends and Backends

What each back end contributes is some 150 functions `asm_xxx`, each a sequence
of calls to the allocator and of emitted instructions. A module of a back end
writes each one down as that sequence, a *script*, in the vocabulary of
`Script`: `Result(r, i, allow, but)` is `prepareResultReg`, `Find` is
`findRegFor`, `Temp` is `allocTempReg`, `Op(loc, i, reads)` an instruction that
puts value `i` in `loc` and reads what is listed, `Trash` what an instruction
overwrites without meaning to. The C++ variables that hold a register are names
in the script. `Either` stands for what depends on data the scripts leave out,
such as the size of a displacement. `Code` lays a script out as a sequence of
steps in which conditions and alternatives are jumps forward. `Native` gives it a
meaning, by way of `RegState` instantiated with the conditions of the machine (its
classes of registers, what it can rebuild, which temporary `asm_restore` takes):
`Do` is one step, `Run` the states a whole script may leave.

`Upkeep` says what the allocator asks of a script so that the register state stays
consistent: its assertions, such as that `allocSpecificReg` is given a free
register (RegAlloc.cpp:139) or that `findSpecificRegForUnallocated` is (Assembler.cpp:666),
and that values are only found in registers of their class. A script is not run
for this. `Ends` goes through its steps with what is known on each way: which
variable has the register of which value (`of`), which values are in some register
(`held`), which variables have a free one (`open`), which values have been given up
(`dead`). A step is allowed by `Follows`, and `After` is what is known then. `Upkeep`
does not know the state, so what may be evicted is no longer known to be anywhere.

`Backends` is `Assembler::gen` over all machines: `target` and `kind` (the
program: the kind of each value) are chosen at the start, and then the program
is read backwards, each value with any of the instructions that can define it
(`DefsOf`), and any instruction that defines none (`UsesOf`) between them. Machines
and code are constants, for which the runs have those of the back ends
(`Generators`, `MCBackends`); `UpkeepAssumption` says that the code follows the rules of
`Upkeep`, and TLC evaluates it for every instruction of every program of the run. After
each instruction `missing` is what its code reads and nothing provides, neither
itself nor, where the register state says it is, the code still to come. The
prologue is the last step (`Finish`): what it needs must be what the caller
provides. A failing assertion of the code is a read of something nothing
provides, so it shows in the same way.

| module | machine |
|---|---|
| `NativeX64` | AMD64; `X64Float4` is the same with the comparison of float4 values |
| `NativeI386` | with SSE2 (`I386`) and with the x87 stack alone (`X87`): the one managed x87 register is full or empty, and ESP is followed through calls |
| `X86` | what the two share: flags, copies, blinding of addresses |
| `NativePPC`, `NativeMIPS` | 32 bits, with floating point |
| `NativeARM` | with VFP, float4 included |
| `NativeThumb2` | the functions that are line by line those of ARM are taken from `NativeARM` (`A == INSTANCE NativeARM`), the others written down |

### FrameSlots and AR

`FrameSlots` is what the register allocator is promised: a value takes slots
nobody has, in one piece, and keeps these until it drops them. `AR` is
`reserveEntry`, with its search below the high-water mark in steps that depend
on size and type, its padding above it, and its failure; `freeEntryAt`; and
`clear`, which a release build does not make overwrite the entries. `FrameSpec`
states that `AR` implements `FrameSlots`, with

    place[i] = the slots 1..hwm whose entry is i

The debug-only checks of the class are the invariants.

### LirBuffer, StackFilter and LirLog

`Allocator` is the bump allocator, `LirBuffer` the buffer on top of it: memory
is counted in words, an instruction has the size of its representation, and a
pointer to it is the address of its last word. `makeRoom` may move to a new
chunk before an instruction, or after one that fills the chunk, and leaves a
skip at the beginning of the new one. The reader steps back by sizes and follows
skips, one step each. `StackFilter` is the filter on that reader, with the bit
set of `BitSet`; `kept` is which of the instructions read it has passed on, `live`
which guards it was told are live.

`LirLog` is what they promise: a log that is appended to, of which a reader
delivers everything back to a `LIR_start`, each instruction once, and does
arrive there. `LogSpec` states that buffer and reader implement it; `LirBuffer`
may put chunks anywhere, above or below each other. `ExitsSeeTheirStack` says
what the filter must not drop.

### CseFilter

The filter and, beside it, the truth: `paths` is the set of ways control can
have come to the end of what is written, each with the instructions that have
run, those loads memory still agrees with, and how comparisons came out.
`waiting[l]` is the same for each label that has been jumped to. Stores, calls,
labels, jumps and guards change the truth; the filter changes `nl`, `loads`,
`stores`, `known`.

`TablesTrue` says the tables hold nothing that is not true on every path, and
`ResultExact` that an answer is as good as the instruction asked for.

Hash tables are sets. A base and a displacement together are a place. What LIR.h
asks of the front end is assumed: operands are defined on every way, access sets
and qualifiers are right, a label inserted while CSE is suspended is reached
only from inside the suspended code (LIR.h:2435-2439). Nothing in the repository
calls `suspend`; the contract is what the model goes by.

### LirValues, Interval and ExprFilter

`LirValues` is arithmetic: what each operator is worth, for ints of `IntWidth`
bits and quads of `QuadWidth`, with wrapping, and for doubles with NaN and a
zero with a sign. `Interval` is the class of that name. `ExprFilter` holds the
folding rules (`Ins1`, `Ins2`, `Ins3`, `InsGuard`, `InsLoad`, ...), in the order
of the code because the first that matches wins, and a state machine that asks:
the front end of a family (ints, quads, doubles, narrowing) starts with a pool
of parameters and constants and makes up to `MaxRequests` requests, each of
which may have any earlier answer as an operand. Beside the instructions it
keeps what each one is worth in every environment. `AnswerExact` compares that
with what was asked for, and `IntervalHolds` with the bounds `Interval::of` gives.
The latter is false of an unsigned shift, by a constant of at least one bit, of
what may be negative (`expr_rshu`); `IntervalSound` is `IntervalHolds` for code
without such a shift.

## 3. The runs

| run | bounds | distinct states | shows |
|---|---|---|---|
| `code_alloc` | 2 clients, a chunk of 24 units, headers of 2, blocks of at least 3, alignment 2, limits {0, 12} | 17 thousand | in every order of calls, with every left and middle hole `addRemainder` can be given: block list, free list and what clients hold agree, ranges stay usable and the code around a hole is kept |
| `asm_code` | 2 fragments, 2 chunks of 12 units, 1 release | 5.2 million | the assembler emits only into its own writable memory, the code of exits never into a block of the main code, leaks nothing, errors included, and leaves finished code alone; free list and lists of code stay right over two chunks |
| `reg_alloc` | 3 registers (1 saved), 3 values in 2 programs, 3 instructions without a value, 1 label | 2.8 million | every value is where the code reads it, past labels, around loops and out of exits |
| `native` | 7 machines, programs of 3 to 5 values and 1 or 2 instructions without a value | 91 thousand | whatever an `asm_` function reads is there, and the register state is sound after it; every `asm_` function follows the rules the proof of that asks for |
| `frame` | 3 values of 1, 2, 3 or 4 slots, 11 slots, 2 fragments | 259 thousand | `AR` implements `FrameSlots`; nothing of a fragment shows in the next |
| `lir` | chunks of 8 words at 3 places, 5 instructions, argument blocks | 402 thousand | buffer and reader implement `LirLog`; the reader arrives; no live exit misses a store |
| `cse` | 3 instructions beside a parameter, loads from 2 regions, 1 label, suspension once | 3.0 million | the filter's answers are exact |
| `expr` | ints of 4 bits, quads of 5, doubles; 2 requests | 593 thousand | answers are exact and well typed; intervals sound, but for the shifts of `expr_rshu` |
| `asm_reserve`, `expr_narrow`, `expr_rshu`, `native_float4` | | | disagreements, see below |

**Why these bounds are enough.** In `code_alloc` a chunk of 24 units holds a
terminator and three blocks and more, which lets a block have a free neighbour
on both sides, and the middle hole its three parts; the second
client lets lists interleave. The smallest sizes would hide rounding, so headers are
aligned and the least block is no multiple of the alignment. Two chunks are left
to `asm_code`, which checks `AvailRight` and `HoldingsSound` as well. There a
fragment fills several blocks, and may find its chunk shared with finished code,
itself new, or both. Three registers, of which division wants two, make
registers scarce; three instructions are what a loop needs to have a top, code
in it that evicts, and a jump back. In `native` the scarcity is in the machine:
the classes of registers are cut down to between one and five members, one for
each role the source gives a register (result, argument, saved, address) and no
more of the same, so that the operands, results and temporaries of one
instruction already fill a class; the programs (`MCBackends`) are chosen so that
constants that can be rebuilt, sums, blinded constants, stack space, saved
registers and arguments on the stack each meet values that compete with them.
Eleven slots are fewer than the values may want. A chunk of eight words holds
the skip and the largest instruction and little more, so every kind of break
happens. Three instructions and a label are enough for a store or a jump to come
between a load and its repetition, and for two ways to meet. Two requests are
what a folding rule can see: an operator and the operator below it. Every bound
is a constant: `MaxInstr`, `NumIns`, `MaxFragments`, `MaxReleases`, `MaxIns`,
`MaxSuspended`, `MaxLog`, `MaxRequests`, `MaxLim`, the chunks in `ChunkBase` and
`Places`; the one that is not is how deep scripts nest (`Depth5` of `Script`), which
is deeper than any of them does.

**Deadlock** is checked in the runs of `CodeAlloc` and `CseFilter`. In the
others it is not: they stop where a bound does, when there is no chunk, value,
fragment or request left.

**Fairness** is assumed in one place. `StackFilter` has weak fairness of
`FilterRead` and `FollowSkip`: `Assembler::compile` reads until it has the
`LIR_start` and nothing can keep it from the next step. `ReaderArrives`, and the
liveness of `LirLog`, follow only because the skips lead back to the start.
Elsewhere nothing waits for anything, and no liveness is claimed.

**What the mutants show.** Each property of each passing run fails on a faulty
variant of the code, under the bounds of that very run.

### Disagreements between code and documentation

- `asm_reserve` / `ReservationKept`: the jump between two blocks is emitted
  after the space was checked (NativeX64.cpp:2956). In a block of minimal size
  less is left than was promised. It takes freed code for `alloc` to return such a
  block; while code is kept `ReservationFits` holds.
- `expr_rshu` / `IntervalHolds`: for `rshui(x, y)` with a constant `y > 0`
  `Interval::of` answers `[0, x.hi >> y]` (LIR.cpp:3786-3790) also where `x` may be
  negative. Then the result may be as large as `2^(32-y) - 1`: `rshui(ldc2i, 1)` gets
  `[0, 63]`, and `-1 >>> 1` is the greatest int. If all of `x` is negative the bounds
  are not even in order, against `isSane` of LIR.h:2648.
- `expr_narrow` / `AnswerExact`: `d2i(q2d(x))` is folded to a constant made of the
  bits of an operand field (LIR.cpp:1030).
- `native_float4` / `NothingMissing`: the temporary of `asm_cmpf4` is overwritten
  where a constant is rebuilt (NativeX64.cpp:2084).

### What the passing runs leave out because it is known to be wrong

For a hole at the upper end of its range `addRemainder` does nothing
(CodeAlloc.cpp:439, a `todo`), where CodeAlloc.h:183 says that the rest is added to
the list and the hole is freed: the block is lost. No back end of the repository
asks for such a hole, and the runs have none (`HoleShapes`; with `"right"` among them
`NoBlockLost` fails).

`free` writes headers (CodeAlloc.cpp:160-219) without making their chunk writable
first, which `alloc` and `reset` do. What the compiler frees lies in writable chunks. Where the
embedder frees finished code the chunk may be one that `markCodeChunkExec` was called
for, which "might remove write" (CodeAlloc.h:144). `WritesOnlyWritable` is about what
happens before that; without `releases' = 0` it fails.

`IntervalSound` asks nothing where an unsigned shift by at least one bit is of what
may be negative by the bounds of its operand; `expr_rshu` is about those.

A full frame gives a value index 0, and the end of the same instruction may free
it (Assembler.cpp:717, 2700). After that step (`FreeOutside`) a release build reads
before the array and what follows is undefined: the model stops there, and the
properties of `frame` speak of everything up to it, a full frame included.

In the scripts of the back ends, `Exclude`, or a narrower choice of operands,
marks cases in which the code generated is wrong. Taking one away makes the run
`native` fail.

| where | case left out |
|---|---|
| NativeX64.cpp:2084 | a float4 comparison with a constant to rebuild (`native_float4` has it) |
| NativeX64.cpp:2451 | `LIR_std2f` at an address that can be computed again: the temporary is found after the address |
| Assembler.cpp:486 | a blinded address that is also the value stored |
| RegAlloc.h:140 | a tainted constant, which `canRemat` claims and `asm_restore` spills |
| NativeX64.cpp, `asm_regarg` | a negative tainted constant as an argument |
| Nativei386.cpp:2598 | a load from the sum of a value and itself |
| Nativei386.cpp, x87 | the stack register as operand of `asm_recip_sqrt` and `asm_cmov`; conversions from the address of stack space, which read its content |
| Nativei386.cpp:1960 | a 4-byte store of a tainted constant, which falls through to an 8-byte one |
| NativeMIPS.cpp:341 | a constant of two equal halves stored |
| NativeMIPS.cpp:551 | `d2i` of a double that is in a register, and truncated there |
| NativeMIPS.cpp, `asm_cmov` | a condition of one class and values of the other |
| NativeARM.cpp:2473, and Thumb2 | a result of `d2i` with both a register and a slot |
| NativeARM.cpp:3263, and Thumb2 | a far `LIR_ldc2i`, loaded to the register of its base |

## 4. The proofs

### CodeAlloc

The lemmas at the beginning of `CodeAllocProofs` are about operators on any
well-formed header map: `Split`, `Absorb`, `Freed`, `AddMem`, and unlinking from the
free list preserve it. The theorems take the state machine through them. The inductive invariant,
`IInv`, is

- `HeapOK`: headers are linked both ways up to the terminator of their chunk,
  blocks do not overlap and lie in their chunk (`HOK`); no two free neighbours
  (`HCoalesced`); the free list holds the large enough free blocks once each
  (`HAvail`);
- `Placed`: the terminators are those of the embedder's chunks;
- `Holding`: what clients hold are distinct used blocks, with the extents told;
- the types of `isExec` and `freeing`.

The parts need one another. `free` may merge only because what it frees is not
what somebody else holds; a held block keeps its extent only because neighbours
merge when free and never otherwise; the walk from a terminator ends at the
first byte of its chunk only because blocks lie inside it (`HWithin`), which
none of the checked invariants says. `AllHeld`, that every used block is held,
is preserved unless holes may be at the right; hence the hypothesis of
`NothingLost`.

Proved for any number of clients and chunks, any sizes, alignment, byte limits:
`TypeOK`, `Linked`, `NoOverlap`, `ChunkCovered`, `ChunksAccounted`, `Coalesced`,
`AvailExact`, `HoldingsIntact`, `OneHolder`, `RangesUsable`; from these the
properties of the runs, `WellFormed` (`AlwaysWellFormed`), `AvailRight`
(`AvailAlwaysRight`) and `HoldingsSound` (`HoldingsAlwaysSound`); and
`NoBlockLost` under the hypothesis (`NothingLost`).

The last part of `CodeAllocProofs` says what a step leaves alone and keeps.
`RemainderAlwaysKept` is the action property of the run `code_alloc`, under
the same hypothesis: after `addRemainder` the parts of
the range outside the hole are bytes of blocks on the client's list, and so is all
the code that was on it. It rests on the cuts leaving every other block its extent
(`CutUsed`) and on the hole being rounded inwards, so that merging what is freed
with its neighbours never reaches a byte that is kept.

Assumptions: `SizesAssumption` (sizes are positive, a header is smaller than a
page, a chunk is whole pages and holds a block and a terminator),
`ChunkAssumption` (the embedder's chunks are page aligned and apart),
`LimitAssumption` (alloc's own assertion on its argument), `ShapeAssumption`,
`NULLAssumption`. TLC evaluates them in every run.

### AR

`IInv` of `ARProofs` is `ARTypeOK /\ EntriesMatch /\ SlotsAligned /\ Reached`.
`Reached` says values already passed hold nothing: without it `clear`, which
leaves old entries in place, could not be shown to leave nothing behind. Proved
for any number of values, any frame size and any mixture of sizes: the four
properties of the run `frame`, and `FrameImplemented`, that every step of `AR`
is a step of `FrameSlots` or a stutter. Assumption: `ARAssumption` (sizes are
positive, a float4 has four slots).

### AsmCode

`AsmCodeProofs` builds on the two modules above: what `AsmCode` does to the
variables of `CodeAlloc` are steps of that, so its invariant is one of the
assembler, and `CodeAllocProofs` says what each step of the allocator leaves
alone (the blocks of other clients, the protection of other chunks, and a lower
bound on the size of free blocks). On top of `IInv` and `AllHeld`, `AsmInv` says

- `BuffersRight`, `RangesAreBuffers`: at each position of `compile`, which of
  `here` and `there` exist, that they are different blocks, and that the ranges
  `alloc` has given out are exactly the buffers still to be finished;
- `CodeIsFinished`: a fragment has code when it is finished or under way, never
  both;
- `ProtectionRight`: buffers are in writable chunks, and a finished fragment's
  chunks are executable, or have blocks of the fragment being compiled in them,
  which `markExec` will mark. Without the second half the invariant breaks at the
  first `alloc` from the chunk of finished code;
- `RoomLeft`: until finished code is released, every free block has room for two
  headers, a jump and a reservation. This is why `ReservationFits` holds although
  the jump is emitted after the check; `asm_reserve` shows that it does not after
  a release;
- `Aligned`: headers are at multiples of the pointer size, so that the hole that
  `addRemainder` is given is never smaller than it looks.

`StreamsApart` needs more than `AsmInv`. `StreamsRight` adds that every block emitted
to still belongs to the fragment being compiled, as a buffer or on its list, so
that `alloc` cannot return it again; that what was recorded of `here` was recorded
with the present `inExit`, and of `there` with the other; and that nothing is
recorded between compilations. Swapping the triples keeps this because it changes
`inExit` with them (`LeaveTrace`, `EndExit`).

Proved for any number of fragments and chunks: the seven properties of the run
`asm_code` that are about the assembler; `AvailRight` and `HoldingsSound` are part of
`IInv`.
Assumptions: those of `CodeAlloc`, and `BufferAssumption`, `NoBufferAssumption`.

### RegAlloc

`RegAllocProofs` has three layers. First, what the operators of `RegState` do to
any state that is `Sound(S, L, X)`: registers and reservations name each other,
but for the values in `L`, whose register is retired and not yet replaced; no two
values share a slot; and whatever the code reads is in the place the state says,
but for what is in `X`, which the next operators have to provide. `L` and `X` are
needed because the code passes through states in which neither holds, such as
between `retire` and `allocReg` of `findRegFor`, or after a call that wants its
arguments in registers still to be found. `FindMemForSound`, `EvictSound`,
`AllocRegSound`, `FindRegForSound`, `PrepareSound`, `MoveSound` and `FreeSound` are
the lemmas, one for each operator; that `findMemFor` always finds a slot is a
counting argument (`SlotLeft`).

Second, the instructions: `UnarySound`, `BinarySound`, `LoadSound`, `DivSound`,
`CmovSound`, `RetSound`, `CallCodeSound`, `CompareSound` and the rest take each from
a sound state with nothing pending to another, and say what it keeps (`Grows`,
`Replaces`): slots stay, and no value comes to life but those the instruction
names.

Third, control flow. The inductive invariant, `Inv`, is

- `Core`: the state is sound with nothing pending; what holds a register or a
  slot is still to be read; what `LIR_live` has named has a slot until it is
  passed; and `LabelOK` of each label;
- `LabelOK`: what the code below a placed label reads is in the registers of its
  state or in slots that values have to this day (`PlacedOK`), and what jumps to
  the top of a loop were promised is there for as long as the loop is read
  (`AwaitedOK`): every value in the label's state has a slot too, which is why
  `asm_jcc` evicts everything at the first jump to a label and why what
  `LIR_live` names is given one;
- `JobOK`: what each loop over registers or values has still to do. `Merged` is the
  central part: a register is to be visited, or to be filled, or already as in the
  other state. `CallOK` keeps the result of a call in its register and out of
  every slot while the scratch registers are evicted, `EvictOK` says everything
  evicted so far has a slot.

None of the checked properties would carry itself: that the registers agree with
what the code reads after `intersectRegisterState` needs the merge to be exact, and
that a jump back finds what the loop reads needs slots not to have moved since the
jump was emitted. `Inv` was checked by TLC under the bounds of `reg_alloc` before it
was proved.

Proved for any number of registers, values and labels, any set of well-formed
programs and any choice of victims and registers: the five properties of the run
`reg_alloc`. Assumptions: `RegAssumption` (registers are numbered, finitely many,
those of a call's result and argument are different and not preserved) and
`ProgramAssumption` (sums are of earlier values; parameters come first, in
different saved registers).

### Backends

`BackendsProofs` is about any processors, programs and code, as long as
`UpkeepAssumption` holds: the proof replaces running the code generators in every
register state by going through each script once. There are four layers.

- *A good register state* (`Good(S, n, L)`): registers and reservations name each
  other, but for the values in `L`, whose register is retired and not yet replaced
  (`Agree`); no two values share a slot (`Disjoint`); a value is in a register of its
  class (`Sorted`); and only values up to `n` have a register or slot (`Below`). The
  lemmas `EvictGood`, `FindRegGood`, `FindMemForGood`, `EvictAllGood`,
  `IntersectGood` and so on say that the operators of `RegState` and `Native` keep it. That
  there is a slot left when `findMemFor` wants one is a counting argument. What is
  emitted plays no part (`Quiet`).
- *What Upkeep knows is true* (`Models(S, F)`): the registers of its variables are
  what `of`, `held`, `open`, `in` and `dead` say, and on the way out (`asm_leave_trace`)
  the captured state is a good one too. The hard cases are evictions. To restore a
  double constant `asm_restore` may take a general register and evict what is there,
  so that evicting from a set of registers can empty one outside it; `Safe` is what
  `Upkeep` still knows then. `MachineAssumption` ends that there: what needs a
  temporary is a double, and the temporary is no register for doubles.
- *Steps and scripts*: a step that follows the rules, from a state of which `F` is
  true, leads only to states of which one of `After(F, s, n)` is (`StepCovers`, with a
  lemma for each kind of step). `RunModels` is the same for whole scripts, by
  induction over their steps, written with the least step at which it fails.
- *The compilation*: `Inv`, that the state is good and `next` bounds what has registers
  and slots. It is inductive because `Define` runs code that, by the assumption,
  ends with the value it defines among the `dead` (`BackendsInvariant`). The checked
  invariants alone would not carry themselves: `NothingLeftBehind` is only preserved
  where what is evicted is what the registers say (an eviction gives a slot), and
  within an instruction, between `retire` and the next `allocSpecificReg`,
  `RegistersConsistent` is false, which is what `L` is for.

Proved: `RegistersAlwaysConsistent` and `NothingEverLeftBehind`. Assumptions:
`ProgramsAssumption` (kinds are names), `MachineAssumption` (the order of registers has
each managed register once; classes as above), `UpkeepAssumption`. The last is
about the code generators, and is where the proof stops and TLC takes over: that
all of those of the back ends follow the rules is checked in the run `native`, for
its programs. A script depends on the program by the kinds of its operands and by
which of them are the same value, so a longer program has more scripts but hardly
other ones.

### LirBuffer, StackFilter, BitSet

`LirInv` of `StackFilterProofs` is `BufInv /\ ReadInv`. `BufInv` says that chunks
are apart, that memory from the first word to `unused` holds what the log has,
each entry within one chunk and apart from the others, and that each entry leads,
by its size and over one skip at most, to the entry before it. `ReadInv` says that
what the reader has delivered is the end of the log, backwards, and that it
stands on the entry before, or on the skip in front of that. Both properties of
memory and the refinement of `LirLog` follow from it. `LirImplementsLog` is the
safety part: `LogInit` and `[][LogNext]`; the fairness of `LogSpec` stays with TLC.

`BitSetIsSet` is about `BitSet` alone: with any word size, initial capacity and
growth, `get` answers as the set of the numbers given to `set` would.

`FilterInv` says in terms of what was read so far: `top` is that of the last live
guard; the bit set has the entries below it stored to since (as distances from
`top`); and each instruction not passed on is a store before which no live guard
stands below, or whose entry is above the top, or stored again. `DroppedRight`
speaks of stores at any place and not of the last, or the reader's next step
could not be taken: a live guard changes what counts for all that is read after.

Proved for chunks of any size at any place, any vocabulary: `NothingOverwritten`,
`ReaderOnInstruction`, `ExitsSeeTheirStack` and the refinement. Assumptions:
`BufferAssumption` (a chunk holds a skip and the largest instruction and more;
every instruction has one of the representations), `VocabularyAssumption` (front
ends write no skips), `StackAssumption` (displacements and tops of the stack are
counts), `BitSetAssumption`.

### CseFilter

`IInv` of `CseFilterProofs` is `Remembered` (the types; that a load is in the table
of its access set; that a label waits only for code that was suspended) and
`TrueOn(p)` of every path that reaches the end of the code, by falling through or
to a label of suspended code. `TrueOn` is stronger than `TablesTrue` where
that would not carry itself: a guard in the tables has its condition among what
has run, every comparison came out one way on a path, and a load that a store
has yet to invalidate need only have run. Proved for any number of instructions,
labels and regions: `TablesTrue` and `ResultExact`. `CseAssumption` is what is
assumed: the front end's access sets are right, and there are finitely many
regions.

### ExprFilter

`TypeInv` of `ExprFilterProofs` says that the code is `WellTyped` and that the last
answer has the type of what was asked for. `WellTyped` adds to `AnswerWellTyped`
that there is such an operator for such a type, that constants are in the range
of theirs, and that operands are written before what uses them: without it an
operand of an operand, which most rules look at, need not be there. There is a
lemma for each rule (`Ins1OK`, `FoldByOK`, `FoldRhsOK`, `Ins2OK`, `Ins3OK`,
`ConditionalOK`, `OverflowOK`, `InsLoadOK`, `InsChooseOK`): from well-typed code and
operands of the right types it answers with well-typed code that begins with the
old one, and a result of the right type. A choice that negates a condition, which
may be a constant, stays a choice on a condition only because comparing a
constant with zero is folded (`InsEqI0OK`). Where guards strip comparisons with
zero off their condition (`StrippedOK`), that the loop ends and what it leaves is
shown by induction, written with a set of numbers (`NatInduct`).

`ValueInv` adds that `val` is what the code computes: each instruction has, in each
environment, the value that its operator gives to those of its operands
(`Worth`), and so one of its type (`WorthTyped`). The values of code, and its
intervals, are functions defined by recursion over the code; that they exist, and
satisfy their equations, is again induction with a set (`ValuesFromOK`,
`IntervalsOK`). From there `IntervalSound` is an induction along the code:

- for each operator a lemma says that its bounds are bounds (`IsBounds`) of its
  value (`Holds`): `AddBoundsOK`, `MulBoundsOK` (a product lies between the products
  of the corners), `HullOK`, `RshuOK`, `RshOK`, `MaskOK`;
- if the bounds of a sum, a difference or a product lie within the type, it has
  not wrapped (`WrapHeld`);
- each lemma says too that tighter bounds of the operands give tighter bounds of
  the result (`Tighter`). `IntervalSound` asks nothing where an unsigned shift by at
  least one bit is of what may be negative (`ShiftsAway`), and the bounds in that
  condition are those to depth `MaxLim`, where the shift itself looks at the bounds
  of its operand to a smaller depth: it follows only since deeper bounds are
  tighter (`Good`, `GoodStep`).

`AnswerExact` is not proved for every request, because it is false of one: a quad
that became a double and is narrowed to an int (run `expr_narrow`). `Narrowed` says
that this is what was asked for last, and `AnswersExactUnlessNarrowed` is
`Spec => [](Narrowed \/ AnswerExact)`: rule by rule and through every chain of rules,
the answer is worth what was asked for, in every environment. The argument:

- The lemmas say what an answer is worth once the code that holds it is `Valued`,
  that is, well typed and each instruction worth what it computes. `ValueInv'` gives
  that for what is written, and since code only grows (`Extends`) for every
  intermediate answer too (`ValuedBefore`). What goes through several rules, as
  constants added to sums and `insChoose` do, then follows from what each of them
  answers.
- Under that is arithmetic: wrapping changes a number by a multiple of `2 ^ w`
  only, so that sums and products may be wrapped late or early; masks, exclusive
  or and negation on bits; shifts whose count is cut to the width; order, signed and
  unsigned, at the least and the greatest number; NaN and the two zeros.
- `Ins1Exact`, `FoldByExact`, `FoldRhsExact`, `Ins2Exact`, `Ins3Exact` and
  `InsChooseExact` have a case for each rule.
- A guard is to exit where its request does. Where its condition is stripped of
  comparisons with zero, the parity of what was stripped decides (`StrippedExact`,
  by induction along the code).
- Arithmetic that checks for overflow exits where it does not fit. Two constants are
  folded only if the result fits, and what is simplified exits nowhere; and an
  answer to anything else writes nothing that exits on overflow (`Calm`), so an
  earlier check is never repeated in its name.

Proved for ints of any even width from 4 bits, quads of any larger width, any
well-typed code to start from, any requests, displacements and depth of search:
`AnswersAlwaysWellTyped`, `AlwaysValueInv`, `IntervalsAlwaysSound` and
`AnswersExactUnlessNarrowed`. Assumptions: `WidthAssumption` (the width is 32 in the
code: even, since `insIsS16` asks about the lower half of an int, and not so small
that 0, 1 and -1 are all there is), `PoolAssumption` (a front end's own code is well
typed and its parameters are of their types), `RequestAssumption` (it asks for
operators there are) and `LimAssumption`.

### Only model-checked

`NothingMissing` of `Backends`, that the code of an instruction reads nothing that is not
there. It is about what each of the 150 `asm_` functions of a back end emits and in
which order, which `Upkeep` leaves out; for the allocator's own code `ValuesWhereNeeded` of
`RegAlloc` has a proof. That the code generators follow the rules of `Upkeep` is
`UpkeepAssumption`, evaluated by TLC. Of the requests `Narrowed`
names, `AnswerExact` is what the runs say: none among the families of `expr`, and a
counterexample in `expr_narrow`. Liveness under fairness (`ReaderArrives`, the
fairness of `LogSpec`) is out of the prover's reach.

## 5. What is not modelled

- Of `CodeAlloc`: cache flushing, statistics, logging.
- Of `AsmCode`: what is emitted, patching of jumps and of guards, labels that are
  never inserted, the constant pools of ARM and MIPS.
- Of `RegAlloc`: hints and priorities, `LIR_jtbl`, the reuse of exits through
  `_branchStateMap`. Values have one slot and the frame is never full; several
  slots and the full frame are in `AR`.
- Of the back ends: encodings, `nPatchBranch`, profiling counters, the choice
  between instructions that read and write the same, labels and jumps between
  instructions (these are in `RegAlloc`), soft floating point, and on ARM frames so large
  that spills go through IP, the joining of loads (`do_peep_2_1`) and the
  overlap of S, D and Q registers: each floating-point value has a quad of its own.
- SH4 and Sparc, which do not compile against this commit (section 1): there is
  no behaviour to model.
- Of `CseFilter`: hashing and growing of tables; switches `insSwz` and tainted
  constants, which are not subject to CSE.
- Of `ExprFilter`: division and modulus, floats and vectors (floats are folded as
  doubles are), joins of soft floats.
- Of `LirBuffer`: comments of verbose builds, statistics.
- NJX, `lirasm`, printers, the debug-only readers and writers, profiling,
  configuration, `SoftFloatFilter`: `PROJECT.json` has the reason for each.

## 6. What could follow

Proofs: `NothingMissing`, with rules like those of `Upkeep` for what emitted code reads
and overwrites; the lemmas on `needs` in `RegAllocProofs` are about one machine and
would have to be stated for stack registers and temporaries too.

Models: the hash tables of `CseFilter` (LIR.cpp:2789-3370) against the sets they
stand for; `SoftFloatFilter`; labels that are jumped to and never inserted.
