# XenonRecomp, specified

XenonRecomp translates an Xbox 360 executable, ahead of time, into C++: it
finds the functions of the executable (XenonAnalyse, `XenonRecomp`), prints one
C++ function for each of them (`Recompiler::Recompile`), and writes them to
`.cpp` files that are compiled and linked with a small runtime
(`XenonUtils/ppc_context.h`). The modules in this directory specify it, from
the file on disk to the threads that run the printed code; TLC checks them on
small instances, and TLAPS proves the most important of their invariants for
instances of every size.

- [The system](#the-system): its parts, their state, what is hard about them
- [The modules](#the-modules): what each specifies, and how it relates to the code
- [The runs](#the-runs): what TLC checks, the bounds, the fairness
- [The proofs](#the-proofs): what is proved, from what, and how
- [Findings](#findings): where the code does not do what is said of it
- [Noted differences](#noted-differences): what the models leave out because the code does it otherwise
- [Not modelled](#not-modelled)
- [Plan](#plan)

`PROJECT.json` is the index: components, runs, the source lines behind every
definition, hazards, findings and theorems. To run a check:

    tlc -config MCFlushMode.cfg MCFlushMode
    tlapm VectorProofs.tla

## The system

| Part | Code | State it keeps | Operations | Module |
|---|---|---|---|---|
| Function boundary analysis | `XenonAnalyse/function.cpp` | vector of blocks, stack of pending blocks, cursor | `Function::Analyze`, `SearchBlock` | FunctionAnalyzer |
| Function discovery | `recompiler.cpp` 97-256, `symbol_table.h` | `functions`, `image.symbols`, cursors | `Recompiler::Analyse`, `SymbolTable::find` | FunctionDiscovery |
| Translation of control flow | `recompiler.cpp` 258-808, 3437-3654 | labels, the jump table held, printed text | `Recompile(fn)`, `Recompile(fn, base, insn, ...)` | Translation, GuestFunction |
| Denormal flush mode | `recompiler.cpp`, `ppc_context.h` 200-265 | `csrState` while printing; `fpscr.csr` and MXCSR while running | `printSetFlushMode`, `enableFlushMode`, `loadFromHost`, ... | FlushMode |
| Recompilation runs | `recompiler.cpp` 14-95, 3656-3823, `main.cpp` | the patched file, the output directory, the text being built | `LoadConfig`, `Recompile(headerFilePath)`, `SaveCurrentOutData` | Recompilation |
| Integer instructions | `recompiler.cpp` 533-626, 810-2252, 3030-3235, `ppc_context.h` 36-151 | none of its own; at run time `ctx.r*`, `cr*`, `xer`, memory | one case per instruction | IntegerUnit, GuestIntegers, Words |
| Atomic memory access | `recompiler.cpp` 1190, 1342, 1741, 1914, 1997 | `ctx.reserved`, memory shared by threads | lwarx, stwcx., ldarx, stdcx., barriers | IntegerUnit |
| Vector instructions | `recompiler.cpp` 1296-1332, 1838-1895, 2254-3022, 3309-3390, `ppc_context.h` 510-725 | at run time `ctx.v*` (bytes reversed), `cr6`, memory | one case per instruction, shuffle tables | VectorUnit, GuestVectors, VectorTerms |
| Title updates | `xex_patcher.cpp` | one buffer with old and new header and image | `XexPatcher::apply`, `lzxDeltaApplyPatch` | XexPatcher, XexFormat |
| Loading | `xex.cpp`, `image.cpp` | image, sections, symbols of imports | `Xex2LoadImage`, `Image::Find` | XexImage, XexLoading |
| Jump table detection | `XenonAnalyse/main.cpp`, `recompiler_config.cpp` 83-104 | the tables found, the TOML file, the configuration | `SearchMask`, `ScanTable`, `ReadTable`, `main`, `Load` | JumpTables |
| Disassembler | `thirdparty/disasm` | the `ppc_insn` that callers hand in again and again | `decode_insn_powerpc`, insertion and extraction of operands | Disassembler, PowerPCOperands |
| Configuration | `recompiler_config.cpp` | the TOML file's values | `Load` | inputs of the others |
| Registers as locals | `recompiler.cpp` 266-358 | local variables of the printed function | the `_as_local` options | none |
| XDBF, tests, scripts | `xdbf_wrapper.cpp`, `test_recompiler.cpp`, `*.py` | - | lookups, formatting | none |

**How they interact.** `main` loads the TOML file and the executable (patched
if there is a title update, from a file that earlier runs may have left),
`Analyse` fills `functions` and `image.symbols`, and `Recompile` walks
`functions` and saves chunks of text. `Analyse` relies on
`Function::Analyze` for a size to advance by; `Recompile` relies on `Analyse`
for a symbol at every address that is called, and on the boundaries for what
is a `goto` and what a tail call; it relies on XenonAnalyse's TOML file for
jump tables. Two things couple a word's translation to the words before it:
the jump table that is held for the next `bctr`, and `csrState`, the tracked
flush mode. At run time all printed functions share `ctx`, and in it the
cached copy of MXCSR, and all threads of the game share the memory.

**What is hard about them.** The recompiler is a single thread, what it prints
is not. The difficulties are

- *walks with a saved position*: the analyzer's block stack and cursor, the
  sweep's `base` and `data`, `cppFileIndex` and the text that is saved one
  function late, must stay consistent over pops, skips and early exits;
- *knowledge in address order used in execution order*: what the printer knows
  at a word is what it knew at the previous word in the file, while control
  may arrive from anywhere (`csrState`, `switchTable`, labels);
- *tables filled from four sources that contradict each other*: helpers and
  `functions` of the TOML file, `.pdata`, calls, and the sweep;
- *files that outlive a run*: kills, full disks and edited inputs between
  runs;
- *one buffer for several things*: a title update is applied inside the buffer
  that holds what it is applied to, decompression included, and the image is
  built by blocks that read what earlier blocks wrote;
- *threads whose steps interleave*: lwarx and stwcx. become a load and a
  compare-and-swap, barriers become nothing, and stores wait in a buffer;
- *two orders of bytes*: vector registers are kept in reverse, so that each of
  some 150 instructions has to make up for it on its own;
- *several rows for one word*: the disassembler takes the first that matches,
  and the recompiler knows some of the names only;
- *numbers at their edges*: offsets that wrap below zero, 64-bit registers
  compared as 32 bits, carries and masks, sizes off by a word.

**What makes each part correct.**

- Boundary analysis: the walk ends; it decodes only what control reaches; the
  extent has no hole and, for local control flow, is complete; the caller can
  advance by it.
- Discovery: no word of code is lost, no function is defined twice, given
  boundaries win, calls find a symbol.
- Control flow: the printed function takes the branches, makes the calls and
  returns as the guest function does; every goto has a label.
- Flush mode: every FPU and vector instruction runs in its own mode, on every
  path.
- Instructions: run on registers as the host keeps them, each does what the
  console's processor does; sequences of several compute what they are for;
  threads lose no update and exclude each other.
- Title updates and loading: the image is the one the update's author had,
  whatever way the base is encoded; damage is found; accesses stay inside.
- Jump tables: a jump gets its own labels and index register, whatever is next
  to it; what is no such jump gets none.
- Disassembler: what is printed for a word that branches does what the word
  does, whatever word was decoded before; targets have labels; operands come
  back from the word they were put into.
- Runs: the output directory says what the inputs say, whatever earlier runs
  left; files that are right are not touched; nothing unpatched or incomplete
  is recompiled.

## The modules

### FunctionAnalyzer

`Function::Analyze(code, size, base)`. One state is one pass of the `for` loop
at `function.cpp:65`; each way through its body is an action: the projection
reached (`FallThrough`), `CondBranch` (op BC), `Branch` (B), `Return` and
`CondReturn` (bclr), `Invalid`, and `Straight`. `Enter` is the code before the
loop with the shortcut for a shifted tail call, `Finish` the code after it:
the sort by base (`std::sort` is unstable, so blocks with one base may come in
either order: `LastOfBase`), the cut at the first discontinuity and the size.
Blocks are records of base, size and projected size, the stack is a sequence
of their indices, and offsets that lie before the function are negative here
and `Unsigned` (mod `Modulus`) wherever the code compares them as `size_t`.

### FunctionDiscovery

`Recompiler::Analyse`. `given` holds the register helpers and `functions` of
the TOML file in the order in which they are inserted (`Helpers` computes the
families), `pdata` the decoded `.pdata` entries. The actions are the bodies of
the loops: `AddGiven`, `AddPdata`, `ScanWord` (the search for `bl`), then
`SkipInvalid`, `SkipKnown`, `AnalyzeHere` (the sweep), with an `End...` action
where a loop ends. `symbols` is the multiset as a sequence in the order of
insertion and `Found` what `SymbolTable::find` returns: because of its
`equal_range`, only symbols that begin at the address. What
`Function::Analyze` answers is any map from addresses to sizes above zero,
which is what FunctionAnalyzer's `SizeIsUsable` says of it.

### GuestFunction and Translation

GuestFunction is the abstract specification: one invocation of a guest
function as the processor runs it, with one action per kind of branch. It is
external to the repository. Translation is `Recompiler::Recompile`: the words
are printed in order (`PrintWord`: `TakeUp` the table that is listed here if
none is held, print `Text`, `UseTable`) and then the printed statements run
one by one, with C++'s control flow between them. `Text` has the statements of
every branch, call and return; a statement is what it does, under a condition
on the count register and one bit of a condition field. `bd...` prints two
statements, so the refinement maps the state between them to the guest still
at its branch. `WellFormed` lists what the translation takes for granted of
its input (control does not run past the last word; what is called has a
symbol; jump tables are listed before their `bctr`; bdnzf and bdnzt test eq).

### FlushMode

The same printer, as far as the flush mode goes, and one invocation of what it
prints. While printing, `csrState` is tracked as `Recompile` does, and reset
at labels and calls; `printed[w]` is the switch printed in front of word `w`.
While running, `csr` is the cached copy in `ctx.fpscr` and `host` is MXCSR,
both as sets of the bits of `FlushMask`. Callees, the caller of `longjmp` and
mid-asm hooks are the environment.

### Recompilation

One directory over many runs. A run is a process whose steps are the
system calls and loops of `LoadConfig`, `Recompile(headerFilePath)` and
`SaveCurrentOutData`; it may be killed before any of them and its writes may
fail part-way (`WriteFails`, `WritePatchedFails`), which leaves a proper
prefix on disk. Between runs the user edits inputs. A file's text is a
sequence of pieces, each of which says from which image it was made, so that
identical, stale and incomplete files can be told apart. Hash collisions of
the comparison with an existing file are ignored; a crash of the process on an
unusable file handle is a kill. `OutputsBecomeCurrent` says that run after run the
directory comes to say what the executable and its title update say (`Wanted`),
but for two cases: the title update is refused, or a patched file that is not
what is wanted lies at its path and is reused (`Misleading`). It also says how the
latter comes about: only by a write of that file that was cut short, which is
finding 2 and makes the outputs wrong until the user deletes it, or by a change
of the user's to what it was made from, which includes removing the XEXP file.
A kill or a failed write at any other place never makes the outputs wrong for
good.

### VectorTerms, GuestVectors and VectorUnit

A byte of a register is where it came from: a byte of another register, of
memory, a constant, or one byte of the result of an operation on lanes
(`Term`), which is not computed. That keeps apart all that the properties are
about, which byte goes where and which lanes meet, and abstracts from
arithmetic. GuestVectors is the processor (external), with byte 0 the most
significant. VectorUnit is the host: registers reversed, the shuffle tables
and helpers of `ppc_context.h`, and a case for every instruction the
recompiler prints. Most are one intrinsic that works lane by lane and are rows
of a table (operation, width of a lane, order of the operands). What is
printed as several statements writes its destination lane by lane and reads
its sources in between (`WriteLane`), which matters where they are the same
register. `Store` and `Calculate` are the actions. The refinement mapping
reverses every register. `Accounted` says which instructions and operands the
model accounts for: fields that an encoding has room for, and none of the cases
under Noted differences. That the programs consist of such is an assumption
(`ListingsAssumption`), which TLC evaluates on those of the run.

### Words, GuestIntegers and IntegerUnit

Words has numbers of a fixed width; a word has `W` bits, a doubleword 2`W` and
a byte `W` / 4, so that instances are small and every rule about widths is
kept. GuestIntegers is the processor (external): several threads, a
reservation each that any store to the address loses. IntegerUnit is what is
printed: the C expression for every integer instruction with its widths, casts
and the order of its statements (a destination written before a source is
read), the condition register and XER, loads and stores with byte reversal,
traps, `LoadReserve` as a load and `StoreConditional` as a compare-and-swap.
A thread's plain stores pass through `buffer`, from which `Drain` performs the
first at any time, since barriers print nothing; a load sees the newest store
of its own thread (`View`); an atomic instruction waits
until it is empty, as on the host. The refinement adds `held`, what the
console's thread would have reserved.

### XexFormat, XexPatcher, XexImage and XexLoading

XexFormat is the content of files: a sequence of cells, each a piece of data, a
number or something encrypted, compressed or hashed (terms, as is usual for
such functions: a hash equals only itself), the parts of a header at their
offsets, and `lzxDecompress`. XexPatcher is `XexPatcher::apply`, a step
for each stage: `Validate` (the ladder of tests, `Verdict`), `Deltas` of the
header by `ApplyEntry`, `Append_` the old file, `CheckKeys`, `DecryptBody`,
`Decompress` and `DecompressBlock` (in place and backwards), `Reformat`,
`NextBlock` with its hash, then `ApplyEntry` and `EndDelta` on the image. An
access outside a buffer is the result "Undefined", and so is a cell that is
taken for what it is not, such as data for a delta entry. Numbers in files
are words: `WordSize` is 2^32 in the program. Where the code adds sizes up in
`int32_t` and tests them in `uint32_t`, the model does (`Signed`, `Unsigned`), so
that sums wrap, pass the test and lead to "Undefined". XexImage is
`Xex2LoadImage`: `Decode`, `MapSection` for each section, `Import` for each
thunk, `EndImports`. XexLoading composes them as `LoadConfig` does: patch if
there is a title update, then load.

### JumpTables

XenonAnalyse's `main` and the reading of its output. The four patterns are
searched for one after the other in every code section (`ScanMatch`,
`ScanSection`); a match is taken if `ScanTable` finds a bounds check within
`ScanLimit` words before it, `ReadTable` reads as many labels as the check
allows, and `LoadTables` puts what was written into the recompiler's
configuration. The images are made from pieces, so that it is known which jump
has which table.

### PowerPCOperands and Disassembler

PowerPCOperands is the operand table of `ppc-dis.c`: fields as bits and shifts,
and the pairs of functions that insert and extract what is not a plain field.
Disassembler is `decode_insn_powerpc` with the rows for branches, built from the
macros that build them there (mnemonics are names with an option, conditions and
hints expanded as the macros do), the test of dialects, masks and invalid
operands, the second search without the dialect, and the clearing and setting
of operands. A state is one instruction handed to it in a `ppc_insn` that an
earlier call filled. `Printed` and `Labels` are what the recompiler makes of
the result, `Executed` what the processor does with the word.

## The runs

| Run | Instance | Shows |
|---|---|---|
| analyzer | every stream of 3 words with one word on each side readable, targets before, in, at the end of and behind the function | `TypeOK`, `SanityCheck` (the assertion in the loop), `OnlyReachableDecoded`, `ExtentIsReachable`, `SizeIsUsable`, `ExtentIsComplete`, `Termination` |
| discovery | sections of 4 and 2 words with a gap; every placement of calls and invalid runs; six tables of boundaries that overlap, repeat and contradict; three analyzers | `CodeIsCovered`, `LocalCallsResolve`, `UniqueFunctions`, `GivenBoundariesWin`, `Termination` |
| translation | functions of 4 words: one of any instruction, or several `bctr` with every listing of tables that is well-formed | `GotosResolve`; `DoesWhatTheGuestDoes` (refinement) |
| translation_index | the same, with indices that are sums | violates `DefaultIsUnreachable` |
| flush_mode | every function of 3 words over every kind of word and three hooks | `TypeOK`, `FlushModeCorrect`, `CachedModeIsHostMode`, `TrackedStateIsTrue` |
| recompilation | two executables, a patch for one of them; images of 0, 1, 3 and 4 functions, two per file; two faults, one edit | `OutputsAreCurrent`, `PatchIsApplied`, `IdenticalUntouched`, `OutputsBecomeCurrent` |
| recompilation_killed | one fault | violates `ImageIsWhole` |
| vectors | every vector instruction alone, destination and sources equal or different, every alignment, lane number and immediate that matters; sequences for unaligned loads and stores, and for widening and narrowing | `SequencesMove`; `ImplementsGuest` (refinement) |
| threads | every integer instruction alone on values at the ends of the signed and unsigned ranges; sequences of several; threads that count in a word or a doubleword, or count under a lock | `SequencesCompute`, `NoLostUpdate`, `MutualExclusion`, `ImplementsGuest` (refinement), `Termination` |
| xex | bases that are plain, encrypted, stored in blocks and LZX-compressed; headers and images that grow and shrink; pairs of delta entries of every kind; damaged bodies; patches that do not fit; entries, copies, blocks, chunks and header sizes that leave their buffers, sizes that wrap; loading with and without a title update | `PatchedImage`, `DecompressesInPlace`, `StaysInside`, `DamageIsFound`, `LoadsImage` |
| jump_tables | jumps of four kinds with checks in many forms, in pairs and next to code that looks like parts of them; sections that are divided in a jump or overlap | `JumpsGetTheirTables`, `FindsEveryJump` |
| disassembly | every BO with conditions in several fields, links and both directions, after two earlier words, under several sets of options; every operand with sample values | `BranchesAreKept`, `TargetsAreCollected`, `ConditionsAreKnown`, `OperandsComeBack` |

**Bounds.** `CodeWords`, `Length` and the sections' sizes bound the code; the
cases that matter (a block that waits while another is decoded and is then
resumed, a branch back into a block, a projection, a discontinuity) need three
or four words, and the programs are all there are of that size, up to words
that control does not reach. `Modulus` is the width of an offset: large enough
that offsets before the function wrap to values above all others, as
`size_t` does. `MaxBlocks` bounds the blocks opened before the function's
base, which the analyzer opens without end; it is above what any other program
of the instance needs. In Translation `Modulus` is the half of a register: 3
values, so that a table of two labels has an index outside it. Four words hold
a table, its `bctr`, a second `bctr` without a table, and a label. In
IntegerUnit a byte has 1 bit, a word 4 and a doubleword 8: carries, signs and
masks have their edges there, and every value of a word occurs. A vector
register has its 16 bytes. In JumpTables the scan goes 8 words back (32 in the
code) and half an address has 32 values, so that low halves are negative too.
A XEX file is a few cells, an image of 8 cells with two sections, and one
block or two; `WordSize` is 32, above every sum of a file that fits and small
enough that others wrap. In the disassembler everything has the width it has; the words
are chosen, all BO with a few of BI. In
Recompilation `PerFile` (256 in the code) is 2, so that images have files that
are full, begun and absent, and a broken image has fewer files than a whole
one; `Faults` = 2 lets a run fail on what an earlier failure left.

**Fairness.** `Function::Analyze` and `Recompiler::Analyse` are loops of one
thread that nothing blocks: `WF_vars(Next)` says that they keep running.
In Recompilation, `WF_vars(Run)` says the same of the process and
`WF_vars(Start)` that the user runs it again; kills, failures and edits have
no fairness and are bounded by `Faults` and `Edits`, so "eventually" means
after the last of them. In IntegerUnit every thread of the host is scheduled
and its store buffer drains (`WF` for each): no more is needed for
`Termination`, because a thread's stwcx. fails only if another's succeeded.
Translation and FlushMode are safety only: the guest function need not end.
VectorUnit, XexLoading, JumpTables and Disassembler are safety only as well:
each is a loop over its input without a choice, whose bound is a guard.

**Deadlock.** The runs of Translation, vectors, threads, xex, jump_tables and
disassembly do not check for it: there a run is one function, program, file or
instruction, and nothing happens after its end. All other runs check for it.

**Mutants.** For every property of a passing run `PROJECT.json` names a faulty
variant of one definition (a bug the code could have: `RESTORE_DATA` without
the size, a jump table that is not used up, a branch target that is not
compared with the function's bounds, the last file not saved, ...) under
which the run reports that property. They stand in the modules, in front of
what they vary, under "A faulty variant".

## The proofs

| Theorem | Module | For every |
|---|---|---|
| `TypeCorrect`, `AssertionHolds`, `NothingPendingTwice`, `WalkIsSound`, `ExtentIsSound`, `SizeAdvances` | FunctionAnalyzerProofs | program of every number of words |
| `ExtentCompletes` | FunctionAnalyzerProofs | the same, with control flow that stays inside, loaded at `CodeWords` or above |
| `TypeCorrect`, `NoCodeIsLost`, `NoFunctionTwice`, `BoundariesAreKept`, `CallsResolve` | FunctionDiscoveryProofs | sections, tables, calls and answers of the analyzer |
| `TypeCorrect`, `FlushModeIsCorrect`, `CacheIsCoherent`, `TrackingIsSound` | VectorProofs | function of every length, with hooks |
| `HostImplementsGuest` | VectorProofs | sequence of vector instructions (`Accounted`), number of registers, contents of registers and memory |
| `OutputsCurrent`, `IdenticalFilesUntouched`, `PatchAlwaysApplied`, `TypeCorrect` | RecompilationProofs | number of functions, size of output files, number of runs, faults and edits |
| `ImplementsGuest`, `GotosHaveLabels`, `TypeCorrect` | TranslationProofs | well-formed function of every length, with every listing of its jump tables |
| `LockExcludes`, `NothingLost`, `AtomicsHold`, `Swapped`, `RawAfter`, `DoExchange` | IntegerUnitProofs | width of a word, number of threads |
| `LoneThreadAgrees`, `ValuesAgree`, `ViewAppended`, `ViewDrained` | IntegerUnitProofs | width of a word, numbers and program of a thread that runs alone |
| `EveryJumpIsFound` | JumpTablesProofs | image, with sections in whatever order |
| `BlocksFindTheirPlaces` | XexPatcherProofs | file, title update and list of compression blocks whose sizes fit into 32 bits, whatever `WordSize` is |

They rest on the `ASSUME`s of the modules, which say that constants have their
types, and in Translation that the programs are `WellFormed`; TLC evaluates
them in every run. The theorems on the flush mode assume `Quiet` besides: hooks leave the
mode alone and `longjmp` restores MXCSR. The second condition depends on the C
library: Windows' `jmp_buf` has MXCSR, glibc's has not. With `LongJmpKeeps =
TRUE` (glibc) TLC finds `CachedModeIsHostMode` violated: the context that
`setjmp`'s second return puts back has the cached mode of then, and MXCSR is
as the callee left it.

*FunctionAnalyzerProofs.* The assertion `cursor = End(top block)` is not
inductive: after a pop the cursor is recomputed from a block that nothing else
mentions. `Shaped(blocks, stack)` says what makes that right: the stack is
strictly increasing and its entries are blocks, so a pop never uncovers a
block that has been popped before, and only the block on top grows.
`WalkIsSound` takes an arbitrary set of offsets closed under control flow and
carries `Sound(blocks, stack, S)`: the words of every block are in it and so
is the word a pending block is to go on with. The result needs more: blocks
before the entry have offsets that wrapped and are sorted last. `Unwrapped`
says that no other offset comes near those, which is what the assumption on
`Modulus` is for, and `CutAtGap` that where no block of those sorted up to `o`
ends behind `o`, whatever is sorted behind `o` is cut off, in whichever order
`std::sort` leaves equal bases. Taken at an offset `o` that was not decoded
that is `ExtentIsSound`; taken just below the wrapped ones it says that no size
wraps. `SizeAdvances` needs besides that a word of the first block is decoded
before anything else (`Begun`), so that the function is never empty.

*Completeness of the extent*, in the same module. Soundness says that what the analyzer takes is
reachable; `ExtentIsComplete` is the converse, that nothing the function
reaches is left behind, where a function stays inside its code (`LocalFlow`).
That needs an account of what the walk still owes. `WalkInv` says for the
blocks and the stack between two passes of the loop that what control reaches
from a decoded word is decoded or is what a pending block goes on with
(`Remembered`); a block that is no longer pending has ended in a word that
does not fall through, or where its neighbour begins (`Ended`); blocks are
straight but for their last words (`StraightRuns`), which is why one that is
pending has lost nothing (`Resumable`); a projected block does not grow beyond
its neighbour (`Projected`), and only a conditional return opens a block where
one begins already (`Duplicates`). Within one pass the successors of the word
decoded are owed, so `Walk` has them as a parameter. When the stack is empty
nothing is owed or pending and the decoded words are closed under control flow
(`DecodedClosed`); where the blocks are cut, what lies in front of the gap is a
closed set with the entry in it (`CutKeepsExtent`). `LoadedHigh` is there for
one line: behind a conditional return `SearchBlock` is handed the offset
instead of the address (`function.cpp:189`), and finds a block that begins at
that number only if the code is loaded so low that it is an address of the
code; images are loaded at 0x82000000.

*FunctionDiscoveryProofs.* `CodeIsCovered` speaks of the end; `CoverInv` says
what the sweep has accomplished so far (all of the earlier sections, and the
words before `base` in this one), and `TableInv` that every symbol is a
function or an import, so that what the sweep skips is accounted for.
`UniqueFunctions` needs `Recorded`: every function is in the table under its
address with a size above zero, which is when `find` finds it. For
`GivenBoundariesWin`, `BoundaryInv` says that a given entry is `Settled`, the
only one at its base, and that until the sections are entered nothing but
given entries (`Given`) is in the table: what the analysis adds it adds where
nothing is known. `CallInv` keeps, for each word the search has passed, that
what it calls is known.

*VectorProofs*, the flush mode. `PrintInv` relates what was tracked for a word to what was
tracked for the one before it, or to nothing at a label; `RunInv` that what
was tracked is true whenever the word is reached. The step that needs both is
a jump: its target is a label, where nothing is assumed.

*The refinement of the vector unit*, in the same module. `HostImplementsGuest`
is `ImplementsGuest` for programs of every length: what is printed for each
instruction does to the registers, seen reversed, to the memory and to CR6 what
the console does. Everything rests on `LaneReversed`: lane `l` of a register is
lane `N - 1 - l` of the reversed one, byte for byte, whatever the width.
Host and guest list what works lane by lane in tables of their own, made from
the two sides of the code; that the rows agree, the order of the operands
included, is `RowsAreSame`, `ComparesAreSame` and `ShiftsAreSame`, from which
`LanewiseAgrees` and its like conclude for all rows at once. Each class of
other instructions has a lemma that ends in `Agrees`: merges and widenings
take the other half of the reversed register, packs swap their sources, splats
and `vrlimi128` count lanes from the other end, and `vperm` inverts its
controls. `HostDispatch`, `GuestDispatch` and `FileDispatch` say that no
mnemonic is in two classes, so that each case is that of its own lemma. What is
printed as several statements (`PackWordsAgrees`, `PackColourAgrees`,
`PackHalvesAgrees`) is followed through them, and there the first source must
not be the destination. `vsl` and `vsr` shift the whole register by fewer than
eight bits and are compared bit by bit (`Moved`, `BitsAgree`). A record form's CR6 is
computed from a mask of all lanes (`MaskShowsLanes`). Loads and stores go
through the shuffle tables, at every address and hence every alignment:
`StoreLeftAgrees` and `StoreRightAgrees` write the bytes of the line on their
side of the address and no others. The invariant, `UnitInv`, says only
that the program is one of those listed and that there are still the registers
there were, so that the next instruction is `Accounted`. The theorem's other hypothesis is `ControlsKnown`: the controls of a `vperm` and
the counts of `vsl` and `vsr`, where one comes next, are numbers and not
results of operations that are not computed; that is so in every state of the
run. Since values are terms, the theorem says which lanes meet in which
operation and where the result goes, and nothing of the arithmetic.

*RecompilationProofs.* `OutputsAreCurrent` speaks of the end of a run;
`OutputInv` says how far the run has come: which headers are saved
(`HeadersDone`), which numbered files are (`Saved`), and that the text in `out`
is that of the next file up to function `i` (`Begun`). A file is saved one
function late, so `Begun` allows a full file, and `Full` is the arithmetic that
says which of the two cases `i % PerFile = 0` is. What earlier runs left in the
directory is not mentioned: a file is only relied on once this run has compared
or written it. That the run may write under the names it forms needs to know
how far it is, so types and progress are inductive only together (`IInv`). A
file that is being written is incomplete (`SaveInv`), which is why no identical
one is ever touched.

*TranslationProofs.* `ImplementsGuest` is the refinement. Its invariant first
does away with the order of printing: by `HeldInv` the table held in front of
a word is one of those listed since the last `bctr` (none if there are none),
so that by `PrintInv` each printed word is what that word calls for (`Wanted`),
whatever was held. `PlaceInv` says that only a branch on the count register
has a second statement. From there each action is simulated by a lemma of its
own: the decrement is a stutter, and the guest's count is the decremented one
plus 1 until the branch behind it has been decided. Where a switch runs into
`__builtin_unreachable` the printed function has no further step in the model,
so the theorem says nothing of what follows: that is what finding 1 is about.
`GotosHaveLabels` and `TypeCorrect` follow from the same invariant.

*IntegerUnitProofs.* Memory is bytes and both instructions swap them, so what
a counter is has to be computed first. `Swapped` says that a number that is
swapped, stored and loaded is the number cut to its bytes and swapped back
twice, `RawAfter` that a store is read where it was made and disturbs nothing
beside it. Both rest on sums of bytes (`Sums`), on division with remainder,
and on powers of two: the library knows 2^n only as the number of subsets of a
set of n elements, from which `PowerSum` and the bounds of a byte, a word and
a doubleword follow for every `W`. `DoExchange` is the compare-and-swap that
`stwcx.` is printed as. For threads that count, `CountInv` says that the
counter is the number of threads whose exchange has succeeded, modulo the
width: what a thread has in `reserved` is what it incremented, so an exchange
that finds it adds exactly one, whoever wrote meanwhile. For threads that
lock, exclusion alone is not inductive: a thread that has stored 0 into the
lock still owns it while the store is in its buffer, and another may take it
as soon as that leaves. `LockInv` therefore says of each thread what its
registers and its buffer hold at every place of the program (`Locking`,
`Pending`), that the lock in memory is 1 if and only if a thread owns it,
that no two do, and that the counter is the number of threads whose store of
it has reached the memory (`Stored`); it is first in, first out order of the
buffer that lets the counter out before the lock. The assumptions are that
there are finitely many threads and that these programs are started by all
threads with cleared memory (`StartsAssumption`).

*The refinement of the integer unit*, in the same module. `LoneThreadAgrees` is `ImplementsGuest` for every
`W`: a thread that runs alone, with whatever program, registers and memory,
does at each step what GuestIntegers allows, or nothing the console sees. TLC
compares values next to the ends of their ranges at `W` = 4; here they are all
numbers. A number is known by its bits (`On`, `Numbers`), so that logical
instructions, shifts, rotations and masks are compared bit by bit, the masks
that wrap included; sums are compared modulo the width and their carries by
the truncated sum the printed code looks at (`CarriesAgree`); products and
quotients with what the console leaves undefined left open. Loads and stores
need the buffer: what the thread sees is the memory with its stores in it, a
store changes that when it enters the buffer (`ViewAppended`) and not when it
leaves (`ViewDrained`), so `Drain` is a stutter. The invariant, `LoneInv`,
says that registers hold numbers of their width and that the other threads are
idle: no program, no stores under way, no reservation. The hypothesis
`Admitted` is about the next instruction, in every state: fields that an
encoding has room for, addresses that are memory, and none of the operands
under Noted differences (a division the host faults on, addme and subfme of
numbers that are not sign-extended words, a shift of the most negative number
by all its bits, rlwimi with a mask that wraps). Every single instruction and
every sequence of the run is admitted in all states it reaches, but for the
one sequence with stwcx. and stdcx.: a thread that stores to the address
between its own lwarx and stwcx. keeps its reservation on the console and
fails on the host. Of these instructions `LockExcludes` and `NothingLost`
speak, for several threads.

*JumpTablesProofs.* `FindsEveryJump` says what the loaded file has: a table
for every place in the code at which one of the four patterns matches and a
bounds check is near enough, the one its own pattern reads there, and no
other. On the way, what was found are the jumps behind the cursors
(`FoundInv`): `Passed` orders the places of the program by pattern, section
and address, as the three loops of `main` do. `SearchMask` takes the least
address that matches (`Least`, about `Min` of a set of numbers), and the next
search begins one instruction behind it, so nothing between two matches is
passed over, nor a jump that begins inside another. What `LoadTables` does
with two entries of one base does not matter: no two patterns match at one
address, because their third and fourth instructions differ (`OnePattern`), so
that entries with one base, which overlapping sections make, are equal.

*XexPatcherProofs.* `DecompressesInPlace` says of the body compressed with
zeros left out that every block ends up where the sizes of the blocks before
it put it. The stored blocks lie at partial sums of their data sizes, the
decompressed ones at partial sums of data and zeros, so a block is never read
from behind where it is written (`BlockOrder`), and from the last to the first
none is overwritten before it is read. The partial sums are a recursive
function; that it exists, that it grows and that it is no larger for data
alone are shown with a least counterexample, since the library's induction
cannot be used. `BodyInv` says that the cells of the buffer up to the read
cursor are as they were stored, `BlockInv` that the blocks from the write
cursor on are in place, and `MoveBlock` what one block's zeros and `memmove`
leave of either. The size test before the loop is what keeps the last block
inside the buffer (`RoomInv`). Nothing is assumed of the inputs but that files
are memory and that sizes are words (`XexAssumption`). The property itself is
about blocks whose sizes together are less than half of `WordSize`, and with the
new header less than it (`SizesFit`): for others the `int32_t` sums and the
`uint32_t` test are not the sums and the test that were meant, and the cursors
may begin anywhere. The code does not look for that; an image of 2^31 bytes is
four times the memory of the console.

**Only model-checked.** Liveness (`Termination`, `OutputsBecomeCurrent`), which
is beyond the prover. `ImplementsGuest` for stwcx. and stdcx. and for several
threads at once. `SequencesCompute`: particular programs, each step of which
`LoneThreadAgrees` covers, and `SequencesMove`, each step of which
`HostImplementsGuest` covers.
`JumpsGetTheirTables`, `PatchedImage`, `LoadsImage`, `DamageIsFound`,
`StaysInside` and the properties of Disassembler: they compare with a corpus
of images, files or words whose intended result is known, and most compute on
it by recursion over data, for which the prover has no induction.

## Findings

1. *A jump table's index with a carry reaches the default that is asserted to
   be unreachable* (`recompiler.cpp:650`): the switch reads 64 bits of a
   register of which the guest has compared 32. Run translation_index.
2. *A patched file that a killed run left incomplete is reused*
   (`recompiler.cpp:42`), against README.md:221. Run recompilation_killed.

## Noted differences

Met while modelling, without a run of their own. The models either do what the
code does here, or leave the case out of their inputs as said.

*Analysis.*

- A conditional branch before the entry is chased (`function.cpp:113`), against
  "Branches before base are just tail calls, no need to chase after those"
  (`function.cpp:156`); every visit of it opens another block, so a loop there
  does not end. `Termination` speaks of streams without one.
- Bit 0x10 of BO ignores the condition register, not the counter: bdzlr and
  bdnzlr are taken for the end of their path (`function.cpp:184`), though the
  recompiler prints them as conditional (`recompiler.cpp:697`).
- The target of a call into another code section does not become a function
  (`recompiler.cpp:215`), though README.md:138 says that functions are found
  by their calls. `LocalCallsResolve` is about calls within a section.
- XenonAnalyse reads the executable without its title update.
- A bgt of another field between a jump table's check and its jump is taken
  for the check; a check more than 32 words before the jump is not found
  (`main.cpp:170`). `JumpsGetTheirTables` excepts both.

*Runs.*

- Without an XEXP file in the configuration the patched file of an earlier run
  is recompiled all the same (`recompiler.cpp:19`), against README.md:221
  ("It does nothing if no XEXP file is specified"): `Misleading`.
- Output files beyond the last one are left in the directory.

*Flush mode.* A mid-asm hook that switches the mode is not noticed
(`recompiler.cpp:474`), against README.md:116: `HookMoves = FALSE`.

*Title updates and loading.*

- An LZX-compressed base is decompressed behind the larger of the two headers
  and read behind the new one (`xex_patcher.cpp:455`): wrong if the title
  update shrinks the header. `LzxMisplaced`.
- Sizes that a file states are trusted. The old file is copied and decompressed
  into a buffer with room for the new image (`xex_patcher.cpp:318`); header sizes
  are not tested against the files; nor are the places of delta entries against
  the header or image (`xex_patcher.cpp:198`), the copy of a part of the image
  (`xex_patcher.cpp:500`), the sizes of blocks and chunks against the data
  (`xex_patcher.cpp:427`, `xex_patcher.cpp:444`, `xex_patcher.cpp:513`), nor the
  window's against what is put into it. `StaysInside` says that an access
  outside needs one of these: its conditions `HeadersFit`, `ImageFits` and
  `PatchFits` name them all.
- Sizes of compression blocks are added up as `int32_t` and tested in `uint32_t`
  (`xex_patcher.cpp:382`), so that a sum may wrap, pass the test and be
  decompressed in front of the image; `xex.cpp:180` adds up each block in 32
  bits. `SizesFit`.
- `Image::Find` takes the last section that begins before an address
  (`image.cpp:15`), also if it ends before it.

*Instructions*, left out of the inputs of vectors and threads:

- vavgsw adds in 32 bits before it halves; vpkuhus packs as if its halfwords
  were signed; vslo takes its count from the wrong byte and shifts zeros in at
  the wrong end; vcmpbfp. looks at signs only, vcmpgtub. and vcmpgtuh. set no
  CR6; vpkswus, vpkuwum and vpkuwus are wrong if the destination is the first
  source, and vpkd3d128 of type 5 if it is the source.
- addme, subfme and subfze carry out of 64 bits; sraw and srad of the most
  negative number by its width or more lose the carry; rlwimi with mb > me;
  lhbrx; mfocrf, which returns CR6 whatever is asked for;
  mtcrf and bgtla name things that do not exist; record forms that set no CR0
  (nand., nor., orc., mulhw., mulld., divd., the rotations but rlwinm., rlwnm.
  and rotlwi., the shifts of doublewords, cntlz*.); traps on doublewords with a
  negative immediate; a negative displacement without a base register.
- Divisions by zero, and of the most negative number by -1, trap on the host.
- A stwcx. that is not paired with a lwarx of its address, and ABA.
- Barriers print nothing: Dekker's algorithm, which needs a store to be seen
  before a later load, does not exclude. Locks made with stwcx. do.

## Not modelled

- **Registers as local variables** (`recompiler.cpp` 266-358): how the
  `_as_local` options rename registers, and what a longjmp does to them.
- **The rows of instructions that do not branch** in the disassembler's table:
  data, one row per instruction, used through the functions that are modelled.
- **Floating point instructions**: one C++ expression each, about the
  arithmetic of floating point; what is about more than the expression, the
  flush mode, is in FlushMode.
- **Instruction cases left out** of IntegerUnit and VectorUnit: those under
  Noted differences, and stvebx, which goes through a namespace that is not in
  the repository; mulhd; cache hints.
- **XDBF, memory-mapped files, the test generator, export tables, scripts**:
  pure lookups, system calls in a row, formatting, data. `ElfLoadImage`, which
  maps sections as they are.
- Inside the modelled parts: names of symbols, wording and layout of the
  output, logging; window sizes that LZX does not have; `ctx.lr`; rounding bits of MXCSR; `blrl`, which is printed
  as a trap; conversions of the TOML file; hash collisions; copies whose source
  and target overlap; memory accesses beyond what a section holds, other than
  the word behind it that the analyzer reads; the default label of a jump
  table, which nobody reads.
- The image always has a `.pdata` section: without one the program ends
  (`recompiler.cpp:178`).

## Plan

Done: all modules above. What would come next:

1. LocalRegisters: the `_as_local` options under calls, setjmp and longjmp.
2. Composition of XexImage with FunctionDiscovery, whose imports would then be
   computed.
3. `ImplementsGuest` for stwcx. and stdcx. in programs that do not store
   between lwarx and stwcx., and for threads whose stores do not meet;
   `SequencesCompute` from `ValuesAgree`, for every width.
4. `SequencesMove` at every address, from `HostImplementsGuest` and the console's
   own loads and stores.
5. Proofs about JumpTables (`JumpsGetTheirTables`, from `EveryJumpIsFound` and
   what the pieces of an image are) and about XexLoading where no recursion is
   involved: that every index `StaysInside` speaks of is within its section.
