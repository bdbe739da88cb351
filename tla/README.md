# Two RISC-V cores: models, checks and proofs

The repository holds two SystemC models of a RV32IM core, an assembler that
turns C code into their memory images, a small runtime library, and a script
that drives it all. This directory holds TLA+ models of these parts, the
instances TLC checks and the theorems TLAPS proves about them.

The question the project asks is the one the repository is about: does a
program that goes through the assembler execute on the five-stage pipeline and
on the scalar core as on a RISC-V machine, one instruction after the other?

* The control of the scalar core implements the sequential machine. The pipeline
  does until one of seven named situations occurs, and does so to the end for
  programs whose neighbouring instructions satisfy the conditions of `Tame`. All
  of it is proved.
* The data paths of the two cores agree with each other and with RISC-V except
  in the operands that two properties name exactly, and their data memories are
  one memory of bytes. Both are proved for every width.
* The assembler's words decode to what was written, values arrive, calls land,
  branches and jals land exactly if their fields hold the distance, and data that
  follow their labels are where the program reads them exactly under a
  condition on their sizes. All of it is proved for every source.
* `memcpy`, `memset` and `memmove` where it goes on to `memcpy` do on the pipeline
  what their callers rely on, for every call with whole words in areas that do not
  overlap. This is proved; the reverse loop of `memmove` does not.
* The driver runs the program it was asked for unless a step has failed.

## 1. The system

| part | source | state | operations |
|---|---|---|---|
| scalar core | `scalar/scriscv_scalar.cpp:115-661` | `pc`, `instruction`, `regs[32]`, the `wait()` it stands at, its requests | one loop: fetch, decode and execute, wait for the memory, next |
| scalar memories | `scalar/scriscv_scalar.cpp:4-113` | `i_data`, `d_data`, `instruction_ft`, `dmem_dataOut`, `stallDm` | `icache`, `dcache`, at the falling edge |
| pipeline: fetch | `pipeline/scriscv_core.cpp:219-303` | `imem_address`, request, `we_ft` | next address: stall, branch from exec, branch from decode, pc+4 |
| pipeline: decode, decode_comb | `:305-644` | the latched instruction, its pc and registers | latch or hold, squash, JAL |
| pipeline: exec, exe_wecomb | `:646-1165` | operands, pc, enables | forward, bubble, ALU, branch |
| pipeline: mult, mult_res, glbmet_regs | `:1182-1521` | division state, quotient, remainder, operands, four reuse flags | MUL at once, DIV/REM over several cycles or from the last quotient |
| pipeline: mems, result_mem_arhb | `:1523-1748` | result, request, `dmem_flag` | latch, request, withdraw |
| pipeline: wrbk | `:1750-1843` | `registerFile`, the value it forwards | write, print |
| pipeline: forwardUnit | `:1847-1962` | none (combinational) | forwarding sources, load-use stall |
| pipeline memories | `:1-217` | `data[]`, `instruction_ft`, `imem_addOut`, `stallIm` | `icache`, `dcache`, at the falling edge |
| test bench | `sc_main` of both headers | clock, reset | 25 ns and a reset |
| assembler | `ass2bin/ass2bin_wrap.py` | symbol tables, the word being packed | expand, number, pack data, substitute addresses, encode |
| runtime library | `doc/memcpy_test.txt` | its registers | `memcpy`, `memmove`, `memset`, appended to every program |
| driver | `bin/update_mem.py` | working copies of the images, both `test.exe`, both outputs | compile, assemble, copy, build, run, end after 30 s |
| benchmarks, templates, tables | `bench_cpp/`, `doc/` | - | - |

**Interaction.** Threads of the pipeline talk through SystemC signals: what is
written at an edge is seen after it. The combinational methods settle between
two edges. Core and memories run at opposite edges, so a memory answers within
the cycle of the request. The assembler leaves four files: `imem.txt`,
`dmem.txt` and the headers of both cores, which hold the address of `main`. The
driver copies them to both cores and builds each core with its own copies.

**What is hard.** In the pipeline, five instructions are under way, each of
which may be held (load-use stall), frozen (division), squashed (branch) or
redirected (branch from exec, JAL from decode), all at once. Operands come from
four places of different age. The divider keeps results for reuse. In the
scalar core, the hard part is the handshake: a word, a stall level and a data
word that are each half a cycle or a whole access old. In the assembler, a label
is a position in a list that later passes must not change, and a number too
wide for one instruction is split into two of which the second is signed. In
the driver, files of earlier invocations are still there, and the child may be
ended at any point.

**What makes each part correct.**

* fetch, decode, exec: the enabled instructions in the stages are a stretch of
  the program's own control flow (`Ordered`, `InOrder`), and each is the word at
  its pc (`FetchedAtPc`).
* forwardUnit, exec, mems, wrbk: every operand is the value that program order
  gives it (`ExactUntilLost`).
* mult: every division ends (`Progress`), divides by no zero (`TypeCorrect`) and
  returns its own quotient (`ExactUntilLost`).
* memories: each answer belongs to the request (`Handshake`).
* both cores: implementation of `Isa`.
* data paths: both cores give the results of RISC-V (`BitwiseIsRiscv`,
  `ProductIsRiscv`, `EuclideanButOne`) and the same results
  (`CoresAgreeButProducts`); the bits of a division come to a quotient
  (`DivisionUnderWay`, `DividesInCycles`).
* data memories: each is a memory of bytes (`IsByteMemory`, `MemoriesAgree`).
* assembler: every field of an instruction decodes to what was written
  (`DecodesAsWritten`), every call, and every jump within the reach of its
  field, goes where its label stands (`JumpsLand`), and the data are where they are
  read if half words and bytes fill their words (`InPlace`, `DataReachesBelow`).
* library: the words a call covers arrive and no others change (`CopiesExactly`).
* driver: the two simulations run the program that was compiled
  (`OutputsUnlessFailed`), and none outlives it (`NothingLeftRunning`).

## 2. The modules

| module | what it is |
|---|---|
| `RiscvISA` | words, registers, decoded instructions, memory accesses and the M extension's division; the parameters of both cores |
| `Isa` | the abstract machine: one instruction at a time |
| `Pipeline` | the five-stage core with its memories, one action per clock edge |
| `PipelineRefinement` | what the pipeline promises, and the inductive invariant |
| `PipelineHazards` | the situations in which it loses a value or an instruction, a history variable for them, and the programs that meet none |
| `ScalarCore` | the scalar core with its memories, one action per `wait()` |
| `ScalarRefinement` | its refinement of `Isa`, and the inductive invariant |
| `DataPath` | ALU, comparisons, products and sub-word lanes of both cores |
| `Restoring`, `BitPipeline` | the division bit by bit, and the pipeline with it in place of `Pipeline`'s single step |
| `Arithmetic` | the results of both cores next to what the instructions mean |
| `ByteMemory`, `DataMemory` | the abstract memory of bytes, and both `dcache`s |
| `Encoding` | the assembler's instruction formats and the cores' decoders |
| `Addresses`, `DataLayout`, `Assembler` | splitting a word in two immediates; packing data; the passes of `ass2bin.run`, which use both |
| `Instructions` | decoded instructions by their names in assembly |
| `Library` | `memcpy`, `memmove` and `memset`, as programs on `Pipeline`, and what a call promises |
| `Driver` | `update_mem.py`: parent, child and files |
| `SmallMachine`, `MC...` | the instances TLC checks |
| `PipelineProofs` | proofs about the pipeline: types and order, what it computes, the calls of the library on it, the bit loop of its divider |
| `ScalarProofs` | proofs about the scalar core |
| `DataPathProofs` | proofs about the results of both cores, their lanes and data memories |
| `EncodingProofs`, `AssemblerProofs`, `DriverProofs` | proofs about the assembler's words, its passes, and the driver |
| `RiscvLemmas` | words stay within words: what the proofs about both cores need |
| `NumberLemmas` | facts on `\div` and `%`, least numbers, induction and recursion up to a bound |

**Isa** is the loop of the scalar core with every memory access taken as one
step; its state is the program, `pc`, `regs`, `mem` and the printed output. Its
actions are the cases of the `switch` of `scriscv_scalar.cpp:242-645`.

**Pipeline.** `Posedge` is the conjunction of the six threads (`fetch`, `decode`,
`exec`, `mult`, `mems`, `wrbk`), each a definition of its own that reads only the
old state, which is what the signals give it. `Negedge` is `icache` and
`dcache`. Each thread has one variable, a record of what it latches and of the
signals it drives: `ft`, `dc`, `ex`, `mu`, `mm`, `wb`, with `rf` for
`registerFile` and `ic` for the outputs of `icache`. What the combinational
methods drive is a state function with the signal's name (`isBranch_ex`,
`result_ex_ex`, `localStall`, `forward1`, `stallSignals`, ...).

**ScalarCore.** `at` is the `wait()` the core stands at; `LoopHead`, `Fetch`,
`Execute`, `StartLoad`, `EndLoad`, `StartStore`, `EndStore`, `Stopped` are the code
between two `wait()`s.

**DataPath, Restoring, BitPipeline, Arithmetic.** `exe_OPI`, `exe_OP`, `exe_BR`,
`mult_MUL`, `dcache_LOAD` and `dcache_STORE` are the pipeline's results, `core_...`
and `scalar_...` the scalar core's, each with its own casts. Powers of two are a table,
`Weight`, and `^`, `|` and `&` are a sum over the bits of their operands (`Gate`).
`Arithmetic` changes
one input of a combinational method at a time and looks at both results.
`BitPipeline` is `Pipeline` with `mult` replaced by `mult_bits`, four rounds of
`OneBit` a cycle; its refinement mapping hides the partial quotient and
remainder and counts cycles in place of bits.

**DataMemory** sends the same requests to both `dcache`s; `InBytes` maps their
words to `ByteMemory`, in which a load or store of n bytes is n bytes.

**Encoding.** A word is the set of its bits that are 1; `Weight` are the powers of
two by which the bits of a number are found. `R_type` .. `UJ_type` put
the fields in place as the methods of that name do, `Decode` takes them out as
`decode` and the scalar core do. `instr_data` is `doc/instr_map.txt`.

**Assembler.** A line is a record of its kind, its label or value, and where it
comes from. `Expand` and `InsertZeros` are `expand_ins` and the insertion of nops
at `main`, `FilterLabel`, `FilterDatum`, `FilterRest` the branches of
`__pre_mapfilt`, `Interpret` the line's way through `subsidmem` and `__interpret`,
`WriteHeaders` the end of `run`. The code runs `subsidmem` over all lines before
`__interpret` starts; here both are done line by line, which is the same since
neither reads what the other has done to another line. `Field` is what the slices
of `SB_type` and `UJ_type` leave of a distance, and `Refused` where `to_bytes` in
`__binary` stops the assembler: a branch is cut to 13 bits but refused from 2^15 on
only, a `jal` to 21 bits and from 2^23 on. `__read_in_advance` between them filters by the test that `__pre_mapfilt` has already applied, and is
left out.

**Library.** The three routines instruction by instruction, called by a program
of four instructions on the pipeline: three load the arguments, a jump goes to
the routine. `li` is one instruction with a whole word here; that the two the
assembler makes of it leave that word is `LiLoadsValue`.

**Driver.** `child` and `parent` are the two processes' positions, a file is the
program version it was made from. Every command may fail; `failed` keeps which
did. The 30 seconds may be over at any point. A simulation runs until
`TestEnds`, which need not come. A build takes from `StartMake` to `EndMake`; if the
child is ended in between, the build is an orphan and comes to its end at any
later time (`OrphanEnds`), since `terminate` reaches only the child and `pkill` only
what is called `test.exe`. The commands before are taken as instantaneous.

**Abstractions.** An instruction word is the record of its fields. The results
of the OPI, OP, BR and MUL instructions and the lanes of sub-word accesses are
operator parameters (`OpiAlu`, `OpAlu`, `Compare`, `MulAlu`, `Extract`, `Insert`):
nothing the control does depends on them, and the proofs are about all of them.
The divisions are not parameters, since their sign, zero and overflow cases are
control in both cores; the overflow test is the code's (divisor `0xfffffffc`).
In `Pipeline`, the 32 steps of a restoring division are one quotient and
remainder, taken at the last cycle; the run `divider` shows that this is what
the bits come to. A print adds to a count modulo
`PrintMod` and shows its value; this is the one bound that is not in the code.
An access outside of `data[]` has no defined outcome in the code; memories are
total here, as for a program that stays within them. `JALR` with a funct3 other
than 0 has destination `x0`, as the assembler emits it.

**Names.** An operator called `Name_Variant` is `Name` with a plausible mistake in
it (an unbounded sign, a missing squash, a wait too few). No specification uses
them; they show that a property would notice the mistake.

## 3. What is checked

| run | instance | properties | what it shows |
|---|---|---|---|
| `exact` | 12^3 x 19 programs of four instructions, the second of any kind; a jump to `RAADDRESS`, a load in the word a jump leaves out; 6^5 of the M extension over operands of both signs | `TypeOK`, `FetchedAtPc`, `Ordered`, `HaltsComplete`, `TameLosesNothing`, `ExactUntilLost`, `InOrder` | the pipeline follows the program's control flow always, and computes what `Isa` computes until one of seven situations occurs, which is never in the third of the programs that are tame; nothing is lost at the end |
| `progress` | 19^3 programs | `Progress` | stalls, squashes and divisions end |
| `scalar` | 19^3 programs, either edge first | `TypeOK`, `Current`, `Handshake`, `ExecutesIsa`, `ReturnsToHead` | the scalar core is `Isa`, and every wait ends |
| `divider` | words of 8 bits, divisions among sums, differences, products | `DivisionUnderWay`, `DividesInCycles` | the pipeline with the bit loop implements the pipeline without |
| `library` | each routine, one to three words, three areas | `CopiesExactly`, `ImplementsIsa`, `Returns` | a call does what its caller relies on, and its tight loops meet none of the seven situations |
| `arithmetic` | words of 8 bits around 0, the sign, half a word, the end | `BitwiseIsRiscv`, `ProductIsRiscv`, `EuclideanButOne`, `CoresAgreeButProducts` | both data paths against RISC-V and each other |
| `data_memory` | two words of four 2-bit bytes, any requests | `MemoriesAgree`, `IsByteMemory` | both memories are one memory of bytes |
| `encoding` | every mnemonic, registers and immediates that exercise each bit | `DecodesAsWritten`, `PseudoButUnsigned` | what is written is what is decoded |
| `assembler` | two functions in either order around any lines; every value of `li`; any six lines of data | `JumpsLand`, `LiLoadsValue`, `StartsAtMain`, `NothingDropped`, `InPlace`, `DataReachesBelow` | the passes keep positions, values and data right |
| `driver` | two invocations, two versions of a program, any failures, any time limit, builds that go on after it | `OutputsUnlessFailed`, `MixedOnlyByCopy`, `NothingLeftRunning`, `ComesBack` | the outputs are of the program asked for, and the driver comes back |
| `load_use` | one program | `ImplementsIsa` | violated: one of the seven situations (section 4) |
| `unsigned_branch` | as `encoding` | `PseudoAsNamed` | violated: `bgtu` and `bleu` are signed (section 4) |

The runs of the cores use words of 4 bits (8 in `divider` and `library`), one
instruction per address, four lanes in a data word, and 4 or 5 registers (32 in
`library`). Programs are all sequences over a menu of instructions, placed at
address 8; every other word is `ret`. `RAADDRESS` is 7, which a program does not
run into by counting up before the words have wrapped around.

**The properties.**

* `ExactUntilLost` is the refinement of `Isa` up to the first loss. The mapping:
  an instruction counts as executed at the edge that moves it from exec to mems.
  The abstract `pc` is that of the oldest enabled instruction before mems; the
  registers, memory and output are the concrete ones with what the instruction in
  mems is going to do already done. The disjuncts of `Loses` are conditions on the stages at
  one edge; that no program needs an eighth is proved (section 5).
* `InOrder` holds without exception: an executed instruction is followed by its
  successor, whatever the data.
* `HaltsComplete`: when the return address is fetched the simulation exits at
  once, with stores and prints possibly still under way; none are, as long as
  nothing has been lost.
* `TameLosesNothing` gives a programmer, or a compiler, conditions under which none
  of the seven situations can occur, each on two or three words at successive
  addresses: what reads a loaded register reads no other; what stands behind a
  division reads nothing but its result, and a load stands in front of one only
  if the division waits for it; no M instruction reads the result of the one
  before it; no print or division stands where a jump squashes it; no `jal` leads
  to `RAADDRESS` or in front of it; and products are not mixed with divisions by which a quotient is
  taken again (`QuotientsApart`). The words in the shadow of a jump count too, and
  that is why these are conditions on words and not on executions. `StaysAway` is
  about the program as such: none counts up to `RAADDRESS`, which is 2^30 and in
  the memory of no program. The library's programs are tame (`CallsTame`, section 5).
* `DividesInCycles`: every edge of the bitwise pipeline is an edge of `Pipeline`, so
  what `exact` shows and what is proved of `Pipeline` holds with the loop in it.
* `EuclideanButOne` and `CoresAgreeButProducts` are exact: the operands they set
  apart do differ, in the way they say (section 4).
* `DataReachesBelow` is exact too: it says which addresses are reached and that no
  others are. So is `InPlace`: where data stand directly behind their labels
  (`Contiguous`), all of them are read back at their distances from their labels
  if and only if they agree with the counts (`Agrees`). A count runs through the
  whole file, for each size by itself, and says on which byte of a word the next
  datum of that size goes; the distance from the label must say the same. That
  fails for a half word after one left over under an earlier label, or for a word
  after a single byte, and then some datum is elsewhere or written over. Data with
  other directives between them are not part of the property: `.zero` and strings
  are left out by the assembler, so that what follows moves up.
* `JumpsLand` follows each `auipc` and `jalr` together to the word they lead to, and
  asks that it be the first word of what the label stands before: an
  instruction, or the nops of `main`. For a branch or `jal` it asks that this be so
  exactly if the distance is within -`Span` .. `Span` - 1, which is what its field
  can hold: beyond that there is a word in the image that leads elsewhere.
* `NothingDropped`: the words of a finished image come from the instructions of
  the source and `main`'s nops, from each of them, in their order. The bits of a
  word are `Encoding`'s.
* `MixedOnlyByCopy`: a simulation built from the instructions of one program and
  the data of another needs a copy that failed in this very invocation, not in
  an earlier one, or a build that an earlier one left running and that ended
  between this one's `make clean` and the start of its simulation.
* `StartsAtMain` says where `main` is without its nops: after another label that
  ends in "main", since `main:` is looked for anywhere in a line (`:418`).
* The sources are what a compiler writes (`Compiled`): no label twice, an
  instruction behind every label of code, and a file that `auipc` and `jalr` reach
  across (fewer than 2^28 lines). How far its branches go is not restricted.
* `Handshake`: a request stands exactly while the core waits for it, and neither
  `stallDm` nor `dmem_dataOut` is that of an earlier access when it is read.

**Why these bounds are enough.** Five stages hold at most five instructions, of
which two at most are wrong-path; a hazard is between an operand and the three
older instructions in exec, mems and wrbk, so sequences of four over registers
that keep meeting give every combination of writers among the twelve kinds that
move data and control, and the other seven (LUI, FENCE, BLT, MULH, REM, REMU,
DIVU) between any two of them. Jumps that wrap around make a program longer than
its text, so loops are among them. Words of 4 bits
have the most negative value, -1, the code's -4 and both signs of every
operand. Two division cycles are the least that have a first, a last, and a
cycle in which the pipeline is frozen and nothing ends. `PrintMod` = 3 tells
none, one and two prints apart. Five M instructions are a division, a
multiplication, a division, and two to change registers between them.

Two cycles of four bits are a first and a last for `divider`; all 16 and more
boundary words of 8 bits meet each other in `arithmetic`, which is where carries,
signs and the code's -4 are. Two words of memory are one that is written and one
that must not change. The assembler's immediates are 5 and 3 bits in place of 20
and 12, so that a program of a dozen lines has distances and data on both sides
of the sign of the lower part. A branch spans 8 and a `jal` 16 bytes in place of 2^12
and 2^20, and they are refused from 16 and 32 in place of 2^15 and 2^23, so that
the same program has branches that reach their label, that are cut, and that
end the assembler, in either direction; `AssemblerProofs` covers the real widths. Six lines
of data are enough for a half word left over under one label, another label's
word, and a half word under a third. Two invocations of the driver are one that
leaves files behind and one that meets them.

**Fairness.** For the cores, weak fairness of `Next`: the clock does not stop.
All threads run at their edge, so the code's scheduler needs no more. Without
it nothing ever has to happen; with it, `Progress`, `ReturnsToHead` and `Returns` are
about stalls, waits and loops only. `Progress` allows the end of the program
(`stallIm`). For the driver, weak fairness of `Parent`: `time.sleep(30)` ends, and
`terminate`, `join` and `pkill` do. Nothing is assumed of the child, which may be
stuck at any point; `ComesBack` does not need it.

## 4. Where the code and its documentation differ

**The pipeline.** `readme.md:38` calls it a "5 stage pipeline risc-v core",
`readme.md:5` gives it the M extension. Seven situations disagree. Each is excluded
by name in `Loses`, and each violates `ImplementsIsa` on a program of `MCPipeline`:
`load_use.cfg` names `LoadUsePrograms`; with `DivisionWbPrograms`,
`DivisionLoadPrograms`, `MulMulPrograms`, `SkippedPrintPrograms`,
`StaleQuotientPrograms` or `EndOvertakesPrograms` in its place TLC finds the other six.

| name | where | what happens |
|---|---|---|
| `LoadUseDropsWb` | `scriscv_core.cpp:443` | decode reads `registerFile` once; an operand in wrbk leaves it during a load-use stall of the other operand, and the old value is used |
| `DivisionDropsWb` | `:1805` | a division freezes the destination in wrbk, not the value it forwards |
| `DivisionDropsLoad` | `:1678` | a load in mems when a division starts loses `dmem_flag`, and its address is taken for its data |
| `EndOvertakes` | `:44` | `icache` ends the program when fetch comes to `RAADDRESS`; by a `jal` in decode, or by counting up, that is before what is in exec has been stored |
| `MulAfterMul` | `:1290` | mult forwards `result_ex`, which is 0 for an M instruction |
| `SquashedPrint` | `:1833` | a print behind a taken branch is printed |
| `StaleQuotient` | `:1319` | every M instruction overwrites the operands by which the last quotient is looked up |

**The data paths** (both cores unless noted). `DIV` and `REM` take the divisor
`0xfffffffc`, -4, for the -1 of the overflow (`scriscv_core.cpp:1378`,
`scriscv_scalar.cpp:451`): the least word divided by -4 is not divided; divided by
-1 it comes out right by the loop (`EuclideanButOne`). The scalar core computes
`MULH` and `MULHSU` on unsigned registers (`scriscv_scalar.cpp:430`), so that with a
negative operand it answers as `MULHU` (`CoresAgreeButProducts`).

**The assembler** (`ass2bin_wrap.py`).

* `bgtu` and `bleu` are assembled as signed branches (`:647`; run
  `unsigned_branch`).
* `R_instr` names `mulu`, `mulsu` and `slrw` where `doc/instr_map.txt` has `mulhu`,
  `mulhsu` and `srlw`; these, and `beqz`, `bnez`, `la`, `not`, `seqz`, `snez`, which
  `pseudo_instr` lists and `__interpret` does not handle, are passed on as text, and
  `run` stops at them (`:720`). `Known` and `handled_pseudo` are what is left.
* `%hi` takes the bits from 16 on and `lui` puts them at bit 12, so that `%hi` and
  `%lo` reach the data below 2^11 only (`:499`; `DataReachesBelow`), and the
  assembler stops where the lower part has bit 15 set. `%lo` replaces all behind
  the last comma, the `(a5)` of a load included (`:524`).
* A half word or byte is packed into the last word, whatever that is (`:457`), so
  that one left over under a label writes over the next label's word; `.zero`
  and other directives leave no room. `InPlace` says which data are right.
* A branch or `jal` to a label that its field cannot reach is assembled without a
  message and goes elsewhere: `__binary` drops the upper bits of the distance
  (`:97`), from 2^12 bytes on for a branch, which are 1024 instructions, and from
  2^20 on for a `jal`. Only a distance of 2^15 or 2^23 ends the assembler (`:90`).
* A branch to a label that is not defined gets the distance -10 (`:318`), where a
  call to one ends the assembler. The nops of `main` go to the first label that
  ends in "main" (`:418`).

**The library.** `memmove` copies in reverse when the destination is *below* the
source (`memcpy_test.txt:14`), starts one word past the areas and adds the size
again in each round; `CopiesExactly` is about its other direction, and about
`memcpy` and `memset`. `Returns` holds of both.

**The driver.** The status of a copy is not looked at (`update_mem.py:35-49`); the
simulation then runs on older images, and the output shows no error
(`MixedOnlyByCopy` and `OutputsUnlessFailed` are about the rest). A build that is
under way when the 30 seconds are over is not ended with the child and may
replace the `test.exe` of the next invocation. `&>` is a
redirection in bash only; where `sh` takes it for `&` and `>` the simulations start
in the background and the driver goes on. The model takes it as bash does.

## 5. What is proved

For every value of the constants that satisfies the assumptions of `RiscvISA`
(sizes, and that the data path's operators map words to words, which
`DataPathFits` proves of the data path the code has) and `DivSteps` >= 1. For the
divider and the data path `Weight` is the table of powers of two and the word has
2^`DivBits` values (`WeightAssumption`, `WidthAssumption`); the bit loop divides
them evenly over its cycles (`CyclesAssumption`, used for the divider only); the
inputs of `Arithmetic` are words (`OperandsAssumption`), `DataMemory` has at most as
many words as addresses (`CellsAssumption`). For the assembler
`WidthsAssumption` (a word is an upper and a lower part), `SourcesAssumption` (the
sources are `Compiled`), `LabelsAssumption` (`main` is no label of data) and
`JumpsAssumption` (the reach of a branch and of a `jal` are numbers); for
the formats, immediates are integers (`ImmediatesAssumption`).

**The pipeline (`PipelineProofs`).**

* `TypeCorrect`: `Spec => []TypeOK`. `TypeOK` alone is not inductive: the quotient
  is a word only because the divisor is not zero when a division is under way.
  The invariant is `Typed`, which adds that (`DivisorNotZero`).
* `LatchesInOrder`: `Spec => []Ordered`. `FetchedAtPc` is not inductive: what exec
  gets is what decode holds, which is what `instruction_ft` shows, which is the
  word at `imem_address` only if no new address waits for the falling edge; and
  a bubble lets younger instructions close up. `Ordered` says it of every stage,
  and that neighbouring stages hold successive instructions wherever no branch
  is about to replace the younger. The proof splits a rising edge into frozen,
  load-use stall and advance; the stall needs that it only happens for an
  enabled load in exec, which is no branch.
* `ExecutesWhatIsStored`: `Spec => []FetchedAtPc`, and
  `ExecutesInOrder`: `Spec => InOrder`, both from `Ordered`.

**The scalar core (`ScalarProofs`).**

* `ScalarTypes`, `ScalarCurrent`, `ScalarHandshake`: the three parts of the
  inductive invariant `IInv`. `Current` says that the word in hand is the one at
  `pc` and that `x0` is 0, `Handshake` that the answer is to the request.
* `ScalarImplementsIsa`: `Spec => ExecutesIsa`, the refinement. Initial states map
  to initial states; `Execute`, `StartStore` and `EndLoad` are steps of `Isa`, all
  other edges leave the abstract state alone. With `Current` the abstract
  machine is about to execute the instruction in hand, with `Handshake` the word
  it reads is the word the memory returned.

`RiscvLemmas` holds what both need: sums, magnitudes, quotients, divisions and
memory accesses stay within the words.

**What the pipeline computes (`PipelineProofs`).**

* `ExactUntilFirstLoss`: `HSpec => ExactUntilLost`. For every program, word size,
  data path and division length, each edge of the pipeline is a step of `Isa` or
  none, until one of the seven situations occurs.
* `EndsComplete`: `HSpec => []HaltsComplete`.
* `TameProgramsLoseNothing`: `HSpec => []TameLosesNothing`.
* `TameProgramsAreExact`: if all programs are tame, `HSpec /\ []StaysAway =>
  ImplementsIsa`, the refinement without exception. Its hypotheses are not empty:
  calls of the library satisfy both (`CallsTame`, `CallStaysAway`).

The refinement mapping looks at registers, memory and output only; the invariant
`HInv` says where each value is. Its part `Exact` has, apart from facts that hold
always (`Enabled`, `NeverPastReturn`), what holds while nothing is lost:
`DecodeExact` (an operand in decode that no instruction in exec or mems will
write is the one in wrbk or the one decode has read), `ExecExact` (the operands
in exec are those of `Isa`), `MultFollowsExec` and `MultExact` (mult holds what exec
holds, shows its result or is dividing its operands, and the quotient it keeps
is that of the operands it keeps), `Drained` (after `RAADDRESS` nothing is under
way). `OperandExact` is the heart: a forwarded operand, from whichever stage, is
the abstract register, and what it cannot show are three of the situations.
`CommitImplements` is the edge at which an instruction leaves exec. The proof
found the seventh, `EndOvertakes`: `Drained` could not be proved at the edge
where fetch comes to `RAADDRESS` from decode, and the program `EarlyEnd` shows why.

`TameLosesNothing` is not inductive: a situation is about what two or three
stages hold, and `Tame` about what stands at neighbouring addresses. `Unlost` is
the bridge. `Straight` says that decode holds the word behind the one in exec, if
both are enabled, and what a redirection leaves empty; `FromProgram` that what
decode and mult hold, enabled or not, are words of the program. `Kept` is what
stays true of a tame program: no print and no division is squashed, but for a
division whose successor is squashed as well (`Squashed`), mems has no load while
mult divides, and decode has nothing but what stands behind the division
(`Divides`), and operands that could be taken for those of an earlier quotient are
those of one (`NoneReused`). From these
`NothingLost` rules out the seven situations one by one.

**Calls of the library (`PipelineProofs`).**

* `CallsCopy`: `LibraryInstance => (HSpec => []CopiesExactly)`. For any set of
  programs that are each one call, with whole words, areas that do not overlap
  and any contents of the memory: when the pipeline has stopped, the call has done
  what it promises and changed nothing else. `LibraryInstance` has what makes
  such a machine: 32 registers, words of four bytes, room for the text,
  `RAADDRESS` neither in it nor right behind it, for `memmove` areas in the lower half
  of the addresses (its test has signs), and the meaning of `addi`, `slt`,
  `beq`, `bne`, `lw` and `sw`. It is an assumption of `MCLibrary`, where TLC
  evaluates it, and its last part is proved of the data path the code has
  (`DataPathServesLibrary`).

The proof has two halves. `Point` says where a call is in the sequential machine:
loading its arguments (`InCall`), comparing the areas (`InMove`), at the head of the
routine (`Entered`), in the n-th instruction of the loop with k words done
(`CopyAt`, `SetAt`), or finished. What the registers and the memory hold there is a
function of n and k; `Done(c, k)` is the promise for the first k words, `DoneMore`
adds one, and that the word loaded is still the old one is where `Disjoint` is
needed. `StepAddi` to `StepRet` are the instructions, `FromCall` to `FromFinish` the
steps between points, `CallStep` all of them. The other half brings this to the
pipeline: `CallsTame` shows that no words of such a program stand together that
should not, `CallStaysAway` that it does not count up to `RAADDRESS`, so each edge is
a step of `Isa` or none (`StaysExact`), and `HaltsComplete` that at the stop the
memory is that of `Isa`. `memmove` in its reverse direction is left out of the
property and of `CallInv`, as it does not do what it should (section 4).

**The divider (`PipelineProofs`).**

* `DividesBitByBit`: `BSpec => []DivisionUnderWay`, for every width and number of
  cycles. The inductive invariant `BTyped` is `DivisionUnderWay` with the types and
  the range of the count. `Round` is the step in numbers: if the
  bits above w are divided, after `OneBit` the bit at w is too.
* `DividerRefines`: `BSpec => DividesInCycles`. Every edge of the bitwise pipeline is
  an edge of `Pipeline`; the last cycle has `\div` and `%` by the above. With it
  what is proved of `Pipeline` holds with the loop in it.

**The data path and the data memories (`DataPathProofs`).** For words of every
width that is a power of two, as 32 is:

* `CoresAgree`: `ASpec => []CoresAgreeButProducts`. The case that takes work is the
  division: the scalar core's loop is an iteration (`ScalarRound` is one step of
  it, as `Round` is of the pipeline's), and signs are put back at different places
  (`DividedIsDivision`).
* `DividesButOne`: `ASpec => []EuclideanButOne`, from `UnsignedIsExact` and
  `SignedIsExact`. It is an equivalence: the one pair of operands that is taken
  for the overflow does come out wrong, at every width.
* `ProductsAreRiscv`: `ASpec => []ProductIsRiscv`. Two words hold every product
  (`ProductBounds`), so the upper one, taken with its sign, loses nothing.
* `BitsAreRiscv`: `ASpec => []BitwiseIsRiscv`. `WordBits` finds the bits of a number
  and `BitAdded` those of a sum of different powers of two; a shift is a product or a
  quotient (`LeftBits`, `RightBits`), SRA of a negative number a quotient rounded
  down, which is why copies of the sign come in.
* `BothMemoriesAgree`: `MSpec => []MemoriesAgree`, from what one request does to
  both.
* `DataIsByteMemory`: `MSpec => IsByteMemory`, the refinement of `ByteMemory`. A word
  is the number of its four digits (`NumberOfDigits`, `DigitsOfWord`), a
  load puts some of them together (`LoadsBytes`), a store replaces some and leaves
  the others (`StoresBytes`). The invariant `DataOK` is the types.
* `DataPathFits`: the results and lanes of the code's data path are words. It is
  what the theorems about the pipeline and the scalar core assume of their
  parameters.

None of these properties needs a stronger invariant than the types, since they
are about what combinational code answers; the work is in the numbers. The
module has no recursion the prover could not use: what is defined over the bits
of a word is unfolded by `Recursion` and `Induction` of `NumberLemmas`, which rest
on least counterexamples up to a bound.

**From a line to the decoders (`EncodingProofs`).**

* `Decoding`: `Spec => []DecodesAsWritten`, for every mnemonic, register and
  immediate its format holds.
* `PseudoDecoding`: `Spec => []PseudoButUnsigned`. Each pseudo-instruction but the
  two is expanded to the line the manual gives, and that is decoded by the above.

A word is a union of fields moved to their places. `FieldsApart` and `SplitWord`
show that a slice of it at a field's place is that field, `WideWord` so for `U` and
`UJ`. The pieces of a branch's or jump's immediate are windows of its bits that
the encoder moves to the word and the decoder moves back (`MovedFrom`,
`BranchBits`, `JumpBits`, `StoreBits`), and the sign bit spread over the upper bits is
what a negative number has there (`Extends`). `CodesR`, `CodesI` and `CodesRest` list
what `doc/instr_map.txt` has of each mnemonic. Decoding needs of a line only that
it is an instruction with an integer for an immediate; this is the invariant
(`LineShape`).

**The assembler (`AssemblerProofs`).** For every source, of any length, every set of
custom functions and every width:

* `DropsNothing`: `Spec => []NothingDropped`.
* `LoadsValues`: `Spec => []LiLoadsValue`; `MainStarts`: `Spec => []StartsAtMain`;
  `ReachesBelow`: `Spec => []DataReachesBelow`.
* `LandsJumps`: `Spec => []JumpsLand`. Calls land in every source; branches and jals
  exactly as far as their fields reach, whatever that reach is.
* `KeepsInPlace`: `Spec => []InPlace`, both directions of the equivalence, for every
  source whose data are `Contiguous`.

None of these is inductive: they are about the image, and nothing in the image
says how its lines came to stand where they stand. `Inv` says of each pass what
it leaves to the next. `Expanded`: every line of the source that has been read has
its one or two lines in the text, in order, with the two of a `li` or a call next
to each other (`Paired`). `Complete`: so it is with the nops of `main` put in, and a
label stands behind all that comes from earlier lines and, with its nops, before
all that comes from later ones (`WithMain` is the step from the one to the
other). `Kept`: there is an increasing map from `imem_contents` to all the
instructions of the text, and the position of a label splits it where the label
stands (`Splits`). `Made`: every word of the image has the immediate of its line at
its position. The instruction a label stands before is then the first behind
the split (`Follows`), pairs stay next to each other since what is left out
between them would be between two neighbours (`PairsKept`), and the nops of `main`
are the words from its position on (`ZerosInImage`, by the least counterexample,
as the prover has no induction).

The values come from three facts about numbers: `LiExact`, `CallExact` (one
argument, `PutTogether`: if the lower part has its sign bit set, the carry into the
upper part makes up for what its sign extension takes away, modulo the word,
also where the carry runs out of the upper part), and `DataExact`, which says
that %hi and %lo are wrong for every address from 2^11 on.

A jump that is cut lands a multiple of twice its span away from its label, which
is another place; this and the distances of `Splits` give the equivalence of
`JumpsLand`.

`InPlace` needs an invariant of its own, `DataInv`, since packing has no memory of
what it has packed but the counts of half words and bytes left over. `Mirrors`
says that the data of the text are those of the source in order. The place of a
datum is that of its label and its distance from it, a sum over the data in
between, which `Recursion` and `Induction` unfold one datum at a time. `Laid` is what
is known of the data handled so far. `Counted`: a count is the number of data of
that size modulo what goes into a word. `Marked`: a datum that is found in the
words at all stands on the byte that its count gave it, which shows that the
condition is necessary: where it does not agree, the datum cannot be at its place,
which is another byte of a word. `Named` and `Lays` are for the other direction:
a label that has just been read stands before the next word, and if the counts
agree, every datum is in its place and the one read last ends in the last word.
There the place of the next datum and the byte its count gives it are both in
the last word, or both at the start of a new one, and agree modulo 4, so
they are the same (`NextPlace`), and what is packed there writes over nothing
(`LaysKept`).

While the proof was planned, it became clear that the earlier `JumpsLand` and
`StartsAtMain` spoke of the line after the label, which is wrong where a label
stands directly before `main:` (the nops come first). They now say `FirstFrom`,
and `MCAssembler` has such a source.

**The driver (`DriverProofs`).** For any programs and benches, any number of
invocations and any failures:

* `LeavesNothingRunning`, `MixesOnlyByCopy`, `LeavesItsOutputs`: `NothingLeftRunning`,
  `MixedOnlyByCopy`, `OutputsUnlessFailed`. The inductive invariant `Inv` says, for
  each position of the child, which files are already of the program asked for
  (`Fresh`, in the order of the commands), and that a simulation runs only while
  its child waits for it (`RunsAwaited`). `Fresh` holds unless a copy of this
  invocation failed or an orphan's build came late (`Good`): these are the two
  ways in which a step leaves an older file without ending the child.

**Only model-checked.** The liveness properties `Progress`, `ReturnsToHead`, `Returns`
and `ComesBack`, since liveness under fairness is out of reach of the prover.
`CopiesExactly` says what has been done when a call has come back; that it comes
back is `Returns`.

## 6. What is not modelled

* The reset of the pipeline's test bench: the model starts at the rising edge
  that follows it. The scalar core's test bench releases the reset at the time
  of a falling edge; both orders are initial states of `ScalarCore`.
* Signals no thread reads, the `LONG` accesses and the `STORE` of `icache`, which
  no thread requests; the pipeline's `stallDm`, which is only ever 0.
* `print_cycle` and other output under `CHECKCYCLES`.
* Text: how the assembler splits, strips and matches lines, comments, the
  `output_as.txt` it leaves for inspection, and `jalrcus`, whose word the two
  cores only take as a print. The sizes it writes into the headers are
  constants of the script.
* The benchmark (`bench_cpp/fft/fft.cpp`) is a program that runs on the cores, not
  a part of them; the files under `bench_cpp/jpegen` are data. The header
  templates in `doc/` are the two headers before the assembler fills in their
  constants, and `scalar/riscvISA.h` is the pipeline's once more.

## 7. Plan

Done, in this order: `RiscvISA`, `Isa`, `Pipeline`, its refinement and hazards,
its first theorems; `ScalarCore`, its refinement and proof; `DataPath`, `Restoring`,
`BitPipeline`, `Arithmetic`; `DataMemory`; `Encoding`; `Assembler` with `Addresses` and
`DataLayout`; `Library`; `Driver`; the proofs about the driver, the divider, what
the pipeline computes, and the assembler; the proofs about the data path, the
data memories, the layout of data and the formats; tame programs, and the calls
of the library.

Nothing of the plan is left. What could follow: `memmove` against a specification
for areas that overlap, once its reverse loop is mended.
