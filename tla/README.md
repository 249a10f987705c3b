# Ria in TLA+

Ria is an out-of-order RV32 core in SystemVerilog (`src/src/`) with a C++
simulator around it (`src/sim/`), which loads programs and carries out their system
calls, and programs that run on it (`src/software/`, `src/spike-software/`). This
directory holds TLA+ models of all three, the TLC runs that check them on small
instances, and proofs that TLAPS checks for every instance.

## The system

Fetch, decode and rename work on groups of four instructions; up to six micro-ops
retire in a cycle; the re-order buffer (ROB) has 64 entries, the physical register
file 64 registers. In the models of the core one rising clock edge is one step: all
registers change together, and everything computed in `always_comb` is an operator
over the current state. In those of the simulator a step is a turn of a loop or a
handler, and in those of the programs a statement of `main`.

| Component | State | What it does in a cycle | What is hard | What makes it correct |
|---|---|---|---|---|
| `core.sv` stage registers | `id_insts_in`; `rr_uops_in`, `rob_uops_in`, `is_*_uop_in`, each with a saved group (`*_tmp`) and a `*_stall_prev` flag; `iq_full_reg`; `recover`, `uop_retire` | moves groups, saves one when a stall begins, clears all on a flush | two stall signals from three places, one of them a cycle late, and a flush that two modules see a cycle apart | no group lost, repeated or overtaken; nothing survives a flush |
| `inst_fetch.sv`, `branch_pred.sv` | `pc`; BHT, PHT, BTB | fetches a group, predicts, redirects on a retired mispredict | the redirect lasts one cycle | no redirect missed |
| `inst_decode.sv` | none | decodes | formats that share bits; instructions that get no queue, or no micro-op | a micro-op reads and writes what its instruction says |
| `rat.sv`, `mapping_table.sv` | `mp_tb`, `r_rat`, `arf_valid`, `arf_recover` | renames a group, follows retirement, recovers | dependencies inside a group; recovery while retiring | each source is its nearest older writer's register |
| `free_list.sv` | `free_list`, `free_num`, `prf_recover`, `prf_recover_num` | releases, allocates, recovers | all three in one cycle; counters apart from vectors | no register leaks or is shared |
| `rob.sv` | `op_list`, `rob_head`, `rob_size` | completes, retires, flushes, inserts, all in one pass | wrap, early stops, insertion while retiring | a bounded queue in program order that drains |
| `dispatch.sv`, `scoreboard_int.sv` | busy bit per register | routes to the queues, tracks operands | a group is split between two queues and packed | every micro-op waits in one queue, until its operands are there |
| `issue_queue_int.sv` | 32 slots, `free_count_reg` | loads, wakes up, selects three | the full threshold; loading, issuing and flushing in one cycle | every micro-op issued once and executed |
| `issue_queue_mem.sv` | 16 slots, `tail_reg` | loads, compresses, selects one | compressing while loading | stores issue in order and after older loads |
| `prf_int.sv`, `execution_unit.sv`, `function_unit.sv`, `external/` | register file; pipes; multiplier, divider | reads with bypass, executes, writes back | a value is read in the cycles around its write back | each micro-op reads its operand's value |
| `store_buffer.cc`, `sim_memory.cc`, `sim_main2.cc` | queue of stores, memory | answers loads, writes retired stores, flushes | commit, flush and add in one cycle | memory as in program order |
| `memif.cc`, `sim.cc`, `sim_memory.cc` | memory in buckets; what is left of a call | splits each access at chunks and buckets | two splits with borders of their own; partial chunks are read and written back; zeros take another way | memory changes where the call says and nowhere else |
| `htif.cc`: arguments | `targs`, `payloads`, `optind` | tells options, the program and its arguments apart | an argument that is no option is put back | the program and all behind it are `targs` |
| `elfloader.cc`, `htif.cc`: loading | symbols, `entry`, addresses of the mailbox | writes segments, finds symbols, loads payloads, boot code | a bad file stops in the middle; files overlap | memory is what the last file over each byte says |
| `htif.cc`, `device.cc`: the loop | `fromhost_queue`, `exitcode`, `stopped` | polls `tohost`, handles a command, answers in `fromhost` | both sides write the mailbox; answers wait for a free word; signals | one answer for each command that has one, in order |
| `ExecLib.c` with all of these | the mailbox, the program's block of eight words | a system call from program to host and back | the answer is loaded out of order and on a prediction | each call is carried out once and returns its own answer |
| `syscall.cc` | the table of descriptors; the host's files | opens, reads, writes, closes, ... | descriptors are used again; any call may fail | a descriptor means the file that it was given for |
| programs | their variables and files | `main` | borders, overflow, calls that fail | the output is the result |

The parts of the core interact through wires only. Groups flow IF, ID, RR (rename), DP (ROB and
dispatch), IS (issue queues); `rr_full` and `cm_full` flow back. The ROB's
`recover` clears every stage at once (`clear`) and reaches the rename table and the
harness one cycle later; `uop_retire` reaches the rename table one cycle
later and the branch predictor at once. The harness stands for the caches: it answers
fetches and loads, and keeps stores until they retire. After each half of a clock cycle it
calls `process_htio`, which meets the program in memory, in the words `tohost` and
`fromhost` that the loader found among its symbols.

## Modules

| Module | Models | Checked by |
|---|---|---|
| `SkidStage` | the stage register with its one-entry skid that `core.sv` writes three times | (in the ones below) |
| `FrontEnd` | `inst_fetch.sv`'s pc and the pipeline registers of `core.sv` from IF to IS, moving numbered groups | `MCFrontEnd`; `FetchProofs` |
| `MicroOp` | the micro-op, its groups and the sizes | (below) |
| `FreeList`, `MappingTable`, `Rob` | `free_list.sv`; `rat.sv` and `mapping_table.sv`; `rob.sv`: one operator per `_next` variable or output of the code, under its name | (below) |
| `RenameCommit` | those three as `core.sv` connects them, with the RR to DP register, the delayed `recover` and `uop_retire` | `MCRenameCommit`; `RenameCommitProofs` |
| `CommitQueue` | abstract: a bounded queue in program order | |
| `RobQueue` | `Rob` alone; implements `CommitQueue` | `MCRobQueue`; `RobProofs` (the ring), `RobQueueProofs` |
| `Decode` | `inst_decode.sv` and `dispatch.sv`: from an instruction to the one queue its micro-op waits in, and through an abstract back end to retirement | `MCDecode` |
| `IssueInt` | `scoreboard_int.sv`, `issue_queue_int.sv`, `prf_int.sv`, pipes 0 and 1, as `core.sv` connects them | `MCIssueInt`; `IssueIntProofs` |
| `StoreBuffer` | `store_buffer.cc` and the memory behind it, byte by byte | (below) |
| `LoadStore` | `issue_queue_mem.sv`, the registers behind it, pipe 3, and the harness's clock cycle with the store buffer (extends `StoreBuffer`, `SkidStage`) | `MCLoadStore`; `LoadStoreProofs` |
| `FetchPath` | abstract in the predictor: `inst_fetch.sv`, the outcome of branches, the misprediction tests of `rob.sv` and `branch_pred.sv`, the redirect | `MCBranchPred`; `FetchProofs` |
| `BranchPred` | `branch_pred.sv`; implements `FetchPath` | `MCBranchPred`; `FetchProofs` |
| `RemoteCalls` | abstract: every system call is carried out once, in order, with its own answer | |
| `HostCall` | `ExecLib.c`'s exchange with `process_htio`, between a core that speculates and reorders and its memory; implements `RemoteCalls` | `MCHostCall`; `HostProofs` |
| `MemIf` | `memif.cc` and `sim_memory.cc`, loop by loop | `MCSession`; `SessionProofs` |
| `Arguments` | `htif_t::parse_arguments` | `MCSession`; `SessionProofs` |
| `Loader` | `elfloader.cc`, `load_program`, `setup_rom` (extends `MemIf`, `Arguments`) | `MCSession`; `SessionProofs` |
| `Session` | a whole run of `sim_main2.cc` or `fesvr450.cc`: `Loader`, then the loop with `device.cc` and the handler of system calls, `stop()` | `MCSession`; `SessionProofs` |
| `Syscalls` | `syscall.cc` with the host's files behind it | `MCPrograms`; `HostProofs` |
| `ExecLib` | the functions of `ExecLib.c` and `151_library`, as functions | `MCPrograms`; `HostProofs` |
| `Sobel` | the arithmetic of the three sobel programs | `MCPrograms`; `HostProofs` |
| `Harness` | the older harness `sim_main.cc`, without store buffer and host | `MCPrograms`; `HostProofs` |
| `Programs` | the programs, statement by statement, on `Syscalls` or on `Harness` | `MCPrograms`; `HostProofs` |

**FrontEnd.** A fetch group is its number on the current path, 0 is the bubble; `pc_group` is
that of the group the `pc` addresses. The
answers of the rename table (`rr_alloc`), the ROB (`cm_alloc`, `rob_takes`, the flush),
the queues (`iq_full`) and the instruction cache (`hit`) are chosen freely in every
cycle, within `Answers`: a recovering ROB reports itself allocatable, a refusal needs
a group to refuse. A group the ROB takes in part counts as taken. `Flush` is a cycle
that retires a mispredicted micro-op, `Advance` any other. The variables `first`,
`last`, `accepted`, `dropped` and `loaded` record history; no action reads them.

**RenameCommit.** The decoder supplies any group of `DECODED`; any set of pending
micro-ops completes in a cycle, any branch among them mispredicted. The bit vectors of
the free list are sets, and the two counters count modulo `PRF_INT_SIZE` as their
width says. Left out of a micro-op: rs2, which is looked up exactly as rs1, and all
that rename and commit only pass on. Array indices that exceed the ring wrap, as the
indexing of a 64-entry array does in the simulator. A ROB slot that is not occupied
holds `NoUop`; the code leaves the old contents there.

**Rob.** The retire loop tests `i >= rob_size_next` after having decremented
`rob_size_next` i times; `CanRetire` keeps that, `i < rob_size - i`.

**Decode.** An instruction is its kind and the three numbers in its register fields,
which are there in every format, whatever it uses the bits for. `Decoded` has a line
for each group of cases of `inst_decode.sv`; immediates and operations are left out.
`Enter` is a group on its way through decode, ROB and `dispatch.sv`. What other modules
show step by step is one step here: renaming finds the youngest older writer
(`Producer`; `Dataflow` of `RenameCommit`), a micro-op whose operands are there executes
(`IssueInt`, and by the rule of the memory queue, `LoadStore`), and the oldest complete
one retires (`RobQueue`). FLW and FSW decode as the integer LW and SW; no run has them.

**IssueInt.** A micro-op is a number in program order, the unit it needs and the one
micro-op whose result it reads (or none); rs2 wakes up and is read as rs1. Its physical
register is its own, so a value is known by the micro-op that computed it, and the
model can say whose result is on the bus or in a register. Reuse of registers is
`RenameCommit`'s matter. Pipe 2, the multiplier and the divider, is left out: no
instruction is decoded to a micro-op for it (`Decode`), so it never gets one and
presents the empty micro-op it has from reset. Groups arrive packed, as `dispatch.sv`
leaves them, and none arrives in the cycle after a stall, which is what `FrontEnd`
proves (`SkidsSuffice`). `Flush` is the retirement of a mispredicted branch: all up to it
are complete.

**LoadStore.** A load or store is its number in program order, its address and its
size; the value of byte i that store s writes is the pair of s and i, so a load that
gets a byte from the wrong store is seen. In each step the harness's half of the clock
cycle (`HarnessCycle`) comes first, in the order of `sim_main2.cc:86-96`: commit what
the core announced as retired, flush on `recover`, then add the store or answer the
load in pipe 3; then the registers change. `dcache2core_data_valid` is always 1 in the
harness, so pipe 3 is done with a micro-op after one cycle. Which operands are there,
whether the integer queue is full, how much of what is complete retires, and when a
branch behind it is mispredicted are free inputs in every cycle. Beyond the last slot the
compression reads zero, as the simulator does. The host's own writes to
memory (`htif.cc`) are left out. The two addresses that the harness treats
specially, the console and the halt request, are constants, and the bytes kept are
those of ordinary memory, which stores to the console do not reach
(`StoreBufferAssumption`). The harness hears of what retires one cycle later; the history
variable `told` is how much of the path it has heard of, so that buffer and memory can be
compared with the path and not with the messages.

**FetchPath, BranchPred.** Between fetch and retirement there is one queue that
loses nothing: that the front end is such a queue is proved in `FetchProofs`, that
the ROB is one is the run `RobQueue`; finding 1 is the exception. In `FetchPath` the
predictor may take any branch of the group to any address; `BranchPred` gives it the
three tables and must stay within that. The target of an indirect jump is any of
`RETURNS`, the outcome of a conditional branch free. Addresses are counted in words, so
the low bit of a jump's target is not modelled. `is_valid` of `inst_fetch.sv:38` is
driven by nothing; `sim_main2.cc:36` has the simulator fill such wires with random bits,
so it is a constant chosen in the initial state.

**HostCall.** The program's accesses of one call: number and argument into `tohost_cmd`, its
address into `tohost`, polls of `fromhost`, zero into `fromhost`, the load of the result.
The core fetches them along a prediction of each poll, issues by the rule of
`issue_queue_mem.sv` (`MayIssue`), and retires in order; `LoadStore` shows that its queue
keeps this rule, that the store buffer holds the executed stores that have not retired
(`BufferExact`: here those of `window`, `Buffered`), and that it answers as `LoadData` does. `HostIo` is one
`process_htio`; it falls between any two steps of the core, and the stores that retire in
one cycle become visible to it one by one, which is more than the code allows. High words
are zero throughout and left out.

**MemIf.** A call of `memif_t` goes through the loops of `read` or `write` (`HeadBlock`,
`TailBlock`, `BodyBlock`), and each chunk through `walk_through` of `BucketMemory`.
`chunk_align()` is 1 in `sim_t`; the model also takes larger values, which `memif_t`
promises to handle. `BodyBlock` is one turn for one piece in one bucket, for `clear_chunk`
as for `write_chunk`. Calls beyond the end of the address space are left out.

**Arguments, Loader.** An argument is its kind and its value, which `Kinds` lists. The
mains pass `argv[1]` alone to `htif_t`, so only the class by itself makes use of the rest.
A file is a record of what `load_elf` looks at, with the ends of its tables instead of offsets
and sizes, one record for the 32- and 64-bit layouts, which one macro reads. An assertion
that fails and an exception that nobody catches are both `Die`.

**Session.** `driver` says which main runs. In `sim_main2.cc` the target may write a command
to `tohost` or take an answer in each turn, or do neither, when it likes: also while
earlier answers wait in the queue or in `fromhost`. `Signal` may come at any time. A word of
the mailbox is two bytes, payload and route; the block of a system call is the number and
an argument, and a system call that is not `SYS_EXIT` answers with its number, so that the
model sees which answer belongs to which call. What the calls do is the matter of `Syscalls`.
Two assumptions state the contract of a program with the simulator, which nothing in `htif.cc`
tests. `IoAssumption`: `tohost` and `fromhost` are words of the program's own, apart from each other and
from the boot code, and zero in its image and in the payloads, as both sides take a word that is not zero for a
message. `SessionAssumption`: a command is not zero, and what the host writes for it, the block
of a system call or a name, lies in memory and not over these two words. Symbols
that are no such words, and misaligned ones, on which `memif_t` throws, remain
(`Odd` in `MCSession`). A word is written and read at
once. The core stores 32 of its 64 bits at a time; but each program of the repository uses the first device and
its first command alone, so that the upper half is always zero and the store of the lower one is the
message. A program that wrote other halves could be polled between its two stores, which is not modelled.

**Syscalls.** `fds`, `lookup`, `alloc`, `dealloc` are the code's; the host's files are
external: the host hands out its least free descriptor, and every call may fail with any
error. One that fails has done nothing, except `close`, which may fail having released the
descriptor (EINTR, EIO); `sys_close` then keeps it in the table. `torn` is the program's descriptors
whose close failed, until they are closed with success, and `retried` says that one of them was
closed again, which closes whatever the host has given the number to in the meantime. `holds` records what a program was
given. No action's guard reads these three. A negative result stands for the `reg_t` of the same bits.

**Programs.** `Main` is the list of statements of a program, one step each; the programs under
`src/software` whose `main` returns end with `Leave`, as their `start.s` sends nothing to anybody, those under
`src/spike-software` send what `main` returns; loops without system
calls (a convolution, the insertion of a value) are one statement. The program `any` makes
any system calls with any arguments out of small sets, `files` any sequence of three of
them. On `Harness` a program is its list of stores. The core comes to the next one when it
likes; and since this harness carries out a store when it executes, `c_hello` may write more
when its loop is left on a misprediction.

What the programs rely on, and nothing tests, is assumed. `SobelAssumption` and `SquaresAssumption`: `mula`,
the approximate product, which no module of the repository decodes, makes 0 of 0 (pixels outside of the image add
nothing), is off by less than a factor of two, and makes no square negative (`int_sqrt` would find no
root). `ArraysAssumption`: the programs' arrays are 0 at the start and as large as declared.
`DisksAssumption`: no path is the terminal, and no two paths lead to the same file. `WordAssumption`: an
`unsigned` holds a power of ten above every checksum, without which `uint64_to_str` would hang on it; this bounds the
size of an image.

## Runs

| Run | Instance | Shows |
|---|---|---|
| `FrontEnd` | 7 groups on a path; the cache always answers, as in the harness | `SkidsSuffice`, `Conservation`, `DispatchConservation`, `NothingSurvivesFlush`, `RedirectTaken`: the stalls and flushes of `core.sv` lose, repeat and reorder nothing; under fairness `GroupsArrive` |
| `RenameCommit` | 3 architectural and 5 physical registers, width 2, retire 2, ROB 3 | `Dataflow`, `RegisterAccounting`, `NoAliasing`, `NothingPastMispredict` |
| `RobQueue` | ROB 4, groups of 2 | `ImplementsQueue`; under fairness `HeadRetires` |
| `Decode` | one instruction of each RV32I format, FENCE and a floating-point one, groups of 2, 3 instructions | `OperandsAgree`, `EachQueuedOnce`; under fairness `EveryInstructionRetires` |
| `IssueInt` | groups of 2, 3 slots, ALU and branches, 4 micro-ops | `QueueExact`, `NoneLostOrDoubled`, `OperandsArrive`; under fairness `EveryUopCompletes` |
| `LoadStore` | 3 slots, groups of 2, 3 micro-ops out of the load of a line, a store over each of its ends and the store that halts | `QueuePacked`, `ExecutesOnce`: the queue loses and doubles nothing; `BufferExact`, `MemoryInOrder`, `LoadsInProgramOrder`: loads and memory are as in program order; `StopsOnRequest`; under fairness `EveryAccessCompletes` |
| `BranchPred` | 8 addresses, 2 branches, 2 jumps; groups of 2, 6 in flight; 2 histories, 2 sets of 3 ways | `FetchChains`, `RetiresProgram`, `ImplementsFetchPath` |
| `HostCall` | two calls, 6 accesses in flight | `ImplementsRemoteCalls`; under fairness `EveryCallReturns` |
| `Session` | 32 addresses in buckets of 8 and chunks of 4; 9 files; all argument lists of up to 3; both mains, 3 turns, 7 commands | `MemoryExact`, `ArgumentsSplit`, `OnlySoundFiles`, `ImageLoaded`, `ConversationExact` |
| `Programs` | 12 programs; images of 4 by 4 pixels; 5 host descriptors, 6 files | `FdsExact`, `SobelExact`, `ResultsExact`, `LibraryExact` |
| `RenameCommitSkips` | as `RenameCommit` | finding 1 |
| `DecodeSkips` | as `Decode`, with a multiplication | finding 2 |

Bounds. The front end holds at most five groups (two skids are full only
together with an empty input), so seven numbers fill it and move on; `MAX_GROUP` only
stops fetching, and the proofs remove it. Five physical registers are two more than
the architectural ones, so the rename table runs out and refuses, which with a ROB of
three and groups of two happens within a few cycles; a ROB of three makes groups wrap,
and fill it while another retires. Two register writers that read each other, one
register written twice in a group, and a branch behind a writer are the
dependencies a group of two can have.

`RenameCommit` explores no state after the ROB's first refusal
(`NothingRefusedByRob`), and its properties assume there was none: once the ROB has
dropped a micro-op (finding 1), its register is never released and the accounting is
wrong for good. A refusal by the rename table needs no such exception.

In `Decode` all instructions name registers 0 and 1, also in the fields that their formats use for
something else, so a field that is read or written by mistake meets a writer or a reader; FENCE
names none. Groups of one and of two instructions, in either order, are split between the queues in
every way. Deadlock is not checked there, since the path ends with its third instruction.

In `IssueInt` three slots and groups of two put the queue at its threshold as soon as
two micro-ops wait for an operand, with two more in the IS register or its skid.

In `LoadStore` three slots and groups of two bring the queue to its threshold with
one micro-op in it, so that slots, IS register and skid hold groups at once. Three
accesses suffice for a load between two stores of which one covers it in part, for a
load that overtakes a load, for two stores to one byte, and for a wrong-path store
behind a retired one in the buffer; stores over either end of the line have negative and
positive offsets in `Covered`. The program of
`BranchPred` wraps around the end of its addresses and has two branches that share a
set and a history, and an instruction that is no branch but shares set and tag with
one. `LoadStore` does not check deadlock, since the harness leaves
its loop when the program halts. A cache that misses is in the proofs of `FrontEnd`
only (`ICACHE_HIT`): under a miss a redirect is lost, which is why `RedirectTaken` is
stated for the harness's cache.

In `HostCall` a call has six accesses while its poll succeeds at once, so that six in
flight reach past the result into the next call, whose stores overwrite the block that
the host reads. Two calls with other numbers and arguments tell a late answer from the right one.

In `Session` buckets of 8 and chunks of 4 (or a chunk alignment of 1) lie across each
other; the program's segment crosses a bucket, has bytes and zeros, and the payload's lies over
it. The other files each fail one test of the loader. Three turns are enough for two
commands before the first answer is taken, for an answer that waits for `fromhost`, and for an
exit after that; a byte has 128 values, since an address is a byte there and the addresses of names are
scaled; `fesvr450.cc` writes its exit from its third turn on (101st in the code).
A list of three arguments puts each kind of option before, between and behind plain ones.

In `Programs` the images have an edge, a corner, a single bright pixel, and gradients that are
cut off at 255; a file that is shorter than the image stands for one that ends early. Five host
descriptors, of which the constructor takes three, let the table grow, have gaps and
fill up. `sim_main.cc` runs for 21 half cycles (1000 in the code), enough for the
stores of both programs with stalls between them, or for the limit to come first. In `HostCall`,
`Session` and `Programs` deadlock is not checked: a run ends.

Fairness. `FairSpec` of `FrontEnd` assumes that the clock never stops, and that cycles
in which neither the ROB nor a queue is full come again and again. The first is the
harness's loop (`src/sim/sim_main2.cc:73`). The second rests on the ROB draining,
which is `HeadRetires`, and that on the oldest micro-op completing at last (fairness of
`HeadCompletes`). The code gives the last one for ALU, branch and memory
operations, which is `EveryUopCompletes` and `EveryAccessCompletes`; not for FENCE, ECALL, EBREAK and
floating-point operations, on which the core stops. `FairSpec` of `Decode` has a micro-op that may
issue do so and a complete one at the head of the ROB retire, which is what the properties just named and
`HeadRetires` say of the modules it abstracts. `FairSpec` of `IssueInt`
assumes the clock, and that the memory queue is not full for ever. No fairness condition
obliges an instruction to arrive or a stall or flush to happen: the fair action is in
each case a cycle that does not stall, so a property cannot hold because a flush came to
the rescue. `FairSpec` of `LoadStore` likewise assumes cycles in which the integer queue is
not full and the operands of what waits are there, which is `EveryUopCompletes` of
`IssueInt` for their producers, and that the harness leaves its loop once it decided to.
`FairSpec` of `HostCall` has the core fetch, issue and retire, and the host look, when they can:
both are in the one loop of `sim_main2.cc`. That loop ends after `SIM_TIME` half cycles
whatever the program does, which `EveryCallReturns` leaves out.

## Findings

1. *Instructions are skipped* (`RenameCommitSkips`). When the free list cannot serve a
   group, `rat.sv:95-96` outputs nothing, and in the same cycle `core.sv:159-165`
   replaces the rename stage's input with zero and saves the *next* group: the refused
   one is gone. When the ROB is full, `rob.sv:93-105` likewise ignores what does not
   fit of a group that `core.sv` has consumed. `checker.py:9-13` compares the retired
   pcs with Spike's one by one. With 64 registers, 32 of them architectural, some
   thirty writers in flight are enough.
2. *Multiplications and divisions vanish* (`DecodeSkips`). `isa.svh:31` and `131-139` define
   RV32M, and `execution_unit.sv:63` has a pipe for it. But `inst_decode.sv` has no case for these
   instructions, and its default (`765-766`) makes no micro-op at all: their register keeps its old
   value, and what follows retires as if they were not there. The programs here are compiled for rv32i.

An observation on what comes after decode: the core stops at FENCE, ECALL and EBREAK. `inst_decode.sv:756-764` (under
"todo") makes of them a micro-op that is valid and has no queue: the ROB takes it,
`dispatch.sv:60-62` sends it nowhere, and nothing from there on retires. So do floating-point
instructions, whose queue is connected to nothing (`core.sv:266`). `isa.svh:116-118` lists the three under
`// RV32I`; no program here executes one. `EveryInstructionRetires` has them as its exception (`Unserved`).

Observations on pipe 2, which finding 2 leaves without work; none of them can be seen in this core.
`issue_queue_int.sv` declares `ex_busy` and does not read it, and `execution_unit.sv:103` does not store a micro-op
that arrives while the pipe is busy. `busy` of the multiplier lasts `IMUL_LATENCY` cycles, while `imul_unsigned.sv` has
`IMUL_LATENCY + 2` registers on the way. The output repeats the last micro-op while the pipe is not busy. A decoder
that sent it multiplications would have to see to these first.

Observations of no consequence for what retires. The retire loop of `rob.sv` compares its
index with a size it decrements itself and may stop half way, under the comment "Not enough uop
to retire" (line 61); `HeadRetires` shows that it costs cycles only, as the first turn is
never lost. `branch_pred.sv:114-116` overwrites way 0
of a target-buffer set and then `118-124` copies each way from the one below it in ascending
order: each copy reads what the one before it wrote, so the new entry fills the set up to
`LRU` and the older branches are forgotten although there is room for them. `LRU` also keeps
its value from one branch of a cycle to the next. Both cost predictions only
(`ImplementsFetchPath`). `branch_pred.sv:95-103` trains the pattern of the history that
already ends with the outcome, so a pattern never says more than its own last bit, and the
two-level predictor predicts the last outcome. The misprediction
tests of `rob.sv:80` and `branch_pred.sv:131` differ, but agree on what decode makes of
predictions (`PredictionsMeant` in `FetchProofs`). Without the bypass of `prf_int.sv`
all runs of `IssueInt` pass as well, since a woken micro-op reads the register file one
cycle after the write back. The fetch buffer is not instantiated (`core.sv:100`); its `full`
is computed as `~ready_hub == 0`, set exactly when every bank is ready.

Observations about the simulator. Both mains pass `argv[1]` alone to `htif_t`: options,
payloads and arguments of the program never get there. `SYSCALL_EXIT` (93) sets the exit code and
does not stop the simulation (`syscall.cc:213-219`); `fesvr450` ends on it when the code is
not zero, `sim_main2` goes on. An unknown device or command is not answered, except that the
last command of any device writes a name (`device.cc:108-129`). A system call number that is not
known throws, and ends the simulation (`syscall.cc:474`). `sys_fstat` and its like send
the program what happens to be in their buffer when the host fails with another error than
`EPERM`, since `sysret_errno` never returns -1 otherwise (`syscall.cc:283`). `sys_fcntl` hands
out descriptors of the host that are not in the table (`:291`). `statx` returns
`ENOSYS`, as `HAVE_STATX` is not defined. `sim_main.cc` carries out stores when they
execute, also on the wrong path.

Observations about the programs. `uint64_to_str` stops when nothing is left of its
argument, and so loses the zeros at its end: 10 is written as 1 (`ExecLib.c:115`). It never
returns for an argument that no `unsigned` power of ten exceeds, such as the negative result
of an `open` that failed; `moreThanExit` hangs in that case (`:112`). `ascii_dec_to_uint32` reads
nine digits, one less than the type has. No program looks at the
results of its calls; files are opened without `O_TRUNC` and keep what is behind
the output. `src/software/c_example/start.s` holds the markers of a merge that was not resolved.

## Proofs

`FetchProofs` has three parts. The first proves the types (`TypeOK`) and every invariant of the run `FrontEnd` for every
`MAX_GROUP` and every cache behaviour, from the two assumptions on the constants;
`RedirectTaken` for a cache that always answers, without which it is false. They are
not inductive one by one: `Conservation` needs `SkidsSuffice` (a stall saves a group only
into an empty skid), that needs the types, and `DispatchConservation` needs a fact no run
checks, `PresentedIsLoaded`: a group stands in the IS register only in a cycle in which the
queues load, since both follow `iq_full` by one cycle. `FrontInv` is their conjunction.
`SkidFields` describes a stage field by field, `ClockStages` applies it to the three stages,
`FrontClock` proves one step, conjunct by conjunct, and `FrontInvariance` puts it together. Each
property then follows from it; `RedirectTaken` is inductive by itself
(`FlushRedirects`).

The second proves `FetchChains` and `RetiresProgram` of the run
`BranchPred`, and the types (`PathTypeOK`), from `FetchPath` alone: for every program, every number of addresses, every
width and every predictor that takes branches of the fetched group. The inductive invariant
`PathInv` adds `PredictionsMeant`: what is predicted taken is a branch, and anything else is predicted
to go on at the next address. From it `OutcomeFollows` gets that both tests for a
misprediction agree and that an instruction that passes them goes on where its prediction
said. `RetirementsFollow` and `RedirectFollows` say this of a whole retirement,
`GroupFollows` that a fetched group is a chain from the fetch address to the next one, for
which `Remainder` and `PlusOne` supply the arithmetic of wrapping addresses; `ChainSuffix`
and `ChainConcat` put the queue together again, and `PathClockInv` is the step.

The third proves that `BranchPred` implements `FetchPath` (`IsPredictor`), for every size of its tables. What
it needs of the tables is only that they hold addresses and counters (`TablesOK`), which
training keeps: `TrainTypes` for one branch and `TrainedTypes`, by induction over those that retire in a
cycle, for all of them. A hit is then a branch of the group and its answer an
address (`TakenIsPrediction`), so that a step is one of `FetchPath` (`PredStep`). Everything
about `FetchPath` holds with the tables in place (`PredictorIsHarmless`).

`HostProofs` has three parts. The first proves `FdsExact` of `Syscalls` for every set of descriptors
of the host, every disk and every sequence of system calls. A `close` of the host that fails and yet
releases the descriptor is the exception that the property states: the program's descriptor (one of
`torn`) is then wrong, all others remain exact until it is closed again (`retried`); from then on
nothing is claimed, as that closes what the host has given the number to. `FdsInv` adds `TableOK`:
what the table and the host's descriptors are, of which the torn ones are a part. There is one lemma
each for a call that opens, closes or duplicates a descriptor, or leaves the table alone, and
`FdsStep` finds each call its lemma. `FdsPrograms` says the same of `Programs`, each of whose steps
makes one of these calls or none.

The second proves the other three invariants of the run `Programs`: for images of any size, all disks, messages, arrays
and stores, from the assumptions named above.

The arithmetic comes first. `Turns` is the number of turns of both loops of `int_sqrt`: after it
nothing is left of the argument (`TurnsIs`), and each turn of the second loop, which may add one
digit to the root of the argument without its last digits (`NextDigit`, `QuotientOfQuotient`), keeps
that a root (`SqrtIs`, `RootIs`). `ConvolutionIs` goes through the loops of `conv2D_sw`: the sum
that skips what is outside of the image (`TapIs`, `TapsSum`) is that of the neighbours that exist.
`Edges` puts them together. Of the library, `PowerIs` finds the power of ten that `uint64_to_str`
starts from, where `Hangs` does not hold, `LeftsAre` what is left of the number after each digit,
and `Numeral` that the digits say the number, but for zeros at the end (`IsTrimmedNumeral`: 410 is
printed as 41; so is the checksum of a sobel program); `HexBack` and `DecBack` are the two ways to
read.

Then there is one invariant for each kind of program. `SobelInv` says what the arrays, the
descriptors, the files and the printed strings are at each statement of `sobel` and `sobel-approx`,
as long as nothing failed; `AloneInv` says it of the arrays of the sobel without a host, and
`SendInv` of `moreThanExit`, where what is in the buffer or in the file from before must not show.
`SortInv` says that the array is sorted up to the statement, that nothing behind is smaller, and
that it is a shuffling of the input. `QuietInv` is about programs that open nothing. `ScreenInv` is
about the loop of `sim_main.cc`: a store is on the bus for two half cycles and only the rising edge
prints it (`PrintsOnce`), also while the core stalls (`TurnIs`). Each has a lemma for the start and
one for the step, the first and the third one for each operation as well.

The third proves `ImplementsRemoteCalls` of `HostCall` for every program, every answer and every
number of accesses in flight. The inductive invariant first says what the window is: the
program's own sequence of accesses along the predictions (`Path`), which in the numbering `Rank`
never goes back (`Monotone`) and skips nothing (`NoGaps`), executed out of order only as
`Ordered` allows. `Stage` is what memory and the host hold at each step of a call, seen from
the oldest access; `Polls` and `Results` say when an early load may be believed. A poll in
flight has found an answer only if the program waits at it: before any poll of a later call lies
the store that clears `fromhost` (`AckBetween`), which no load passes. And an answer loaded behind
such a poll is the right one, as that same store lies between the two. Without `Results`
nothing is known of an answer that was loaded long before its poll retired. There is one lemma for each
action; `RetireStage` goes through the steps of a call.

`SessionProofs` proves the five invariants of the run `Session`, for every set of files, every argument
vector, all sizes of memory, buckets and chunks, every program and any number of turns, from the assumptions named
above. Its inductive invariant `SInv` has one part for each module.

`MemInv` (`FlatMemory`, also for any sequence of calls by itself) adds to
`MemoryExact` where the loops are in the call (`MemPlace`) and which of its bytes are done at each stage
(`Done`): these are the call's, while all others are as before (`Copied`). A partial
chunk writes back bytes that it has just read, which is why they do not change, and a
piece of a body chunk never leaves its bucket. `Goal` is what memory will be when the call that is under way is
over; it does not change while the call runs (`GoalStays`), so the parts below speak of
`Goal` and never of loops.

`ArgsInv` compares what the loop of `parse_arguments` has found with what the vector says as a whole. `Reading` is its
loop invariant: it stands at a token that is no value of another, nothing before it ends the
options, and the toggles before it, counted (`StrictNext`), make the reading strict or not. `Splits` says
that the token that ends the loop is then the first of its kind.

`LoadInv` says which segments memory shows at each point: those before segment `ph` of file `k` (`Partly`), and of
that one its first half when `half` says so. A segment adds itself as the last one (`OneMore`), between two files nothing
changes (`FileByFile`), and the boot code goes over the whole image (`Booted`). It also keeps
the words for the host at zero.

`SoundInv` is about the files: those before the current one, and of that one the segments written so far, have passed the
assertions of `load_elf` (`Sound`), since `Die` ends the run at the first that fails (`TurnOf` is one turn of the loader). A
core that runs therefore runs what sound files say: the rest of `OnlySoundFiles`.

`TalkInv` says where the last command is. Everything before it has been answered (`Owed`: taken, in `fromhost`, or
in the queue) and it itself is still in `tohost`, or is being handled, or is answered too (`Waiting`,
`Handling`, `Quiet`; `Phase` assigns them to the values of `turn`). That no command is written over is
what it comes to: the host clears `tohost` before it handles what it found, within the
turn, so the target finds it free. `Handles` and `Delivers` are the two movements of an
answer, and `DueApart` says that blocks and names leave the words alone. The exit
code is that of the last exit since `sim_main2.cc` stops at the first, and `fesvr450.cc`
says only one thing.

`Answers`, `Given` and `IsValue` are recursive functions of the data; `Recursion` shows
that such a function has a value, and induction over its argument takes the least place at which a claim fails
(`Least`), so no induction principle is needed.

`RobQueueProofs` proves `ImplementsQueue` for every size of the ROB, all widths and every choice of
groups, from `GroupsAssumption`: a micro-op enters incomplete, and what is not valid is all zero, as
the pipeline registers reset it. The invariant is `RingExact`, the valid slots being those that head
and size name, and the types. What it uses of the ring is in `RobProofs`: `AtIs` and `AtAt` supply
the arithmetic of a head that wraps, `Ranks` and `EnteringFacts` that the valid micro-ops of a group
with gaps take successive places, and only as many as there is room for, `RetiredFacts` (with
`Downward`) that the retire loop, which stops early, takes an interval from the head on and at most
its last is mispredicted. `Recovered` and `Advanced` are the two outcomes of a cycle, and `Step`
maps each to the queue's.

`RenameCommitProofs` proves the four invariants of the run `RenameCommit` for every number of
registers, every width, every size of the ROB and every decoded group (`DecodedAssumption`:
groups of micro-ops, as wide as the rename stage). Except for `NothingPastMispredict` they hold, as
in the run, as long as the ROB has refused nothing. None of the others is inductive alone: that a register is
not reused too early needs that it is mapped or will be released by exactly one micro-op, that
needs the links between writers, and those need that allocation never hands out a live
register. `IInv` states it on the sequence of micro-ops in flight, bubbles included:
each names the registers of its nearest older writers (`Linked`), no two values share a register
(`Unaliased`), `free_list` and `prf_recover` are the registers of the live and of the committed values
(`SpecOK`, `CommitOK`), and the counters follow. A *token* is a value in one of these registers: a committed
architectural register or a writer in flight. `Pairing` and `Account` show that the
micro-ops that release a register and the tokens that are overwritten correspond one to one;
this is what makes the counters exact. A clock edge is then three steps that do not
mix: `Commit` takes the retired group out (a writer becomes the
committed value), `Renames` puts a group behind the rest (`Allocation`: the free registers it
gets are different), and `Moves` or `Recovers` shifts what is left along the ROB and the skid. A
movement that keeps the order keeps all of the above (`MoveKeeps`), so neither the ring nor the
skid has to be looked at together with registers.

`IssueIntProofs` proves the three invariants of the run `IssueInt`, and `ScoreboardExact`, that a
register is busy until its micro-op has written back, for every size of the queue, every width and
every program. They need each other. The counter is exact only if each micro-op of a group that is
presented finds a slot of its own: the group has no gaps (`Packed`), stands in the IS register only
in a cycle in which the queue loads and has room for the largest one (`StageOK`), and the i-th
lowest free slot exists for each i up to the number of free ones and belongs to one i (`Ranks`,
`NthFacts`). That the clearing of a slot and the loading of it never meet follows from the same
ranks (`Selection`, `Loading`), and `Counting` from both. The invariant then sees the six places
that hold micro-ops as one list, `Stages` (the IS register and its skid, the slots, the registers of
the pipes): no number is in two places of it (`Apart`), all are of the current path (`PathOK`), and
what is not complete is in some place (`KnownOK`). `Moves` says which place hands over to which in a
cycle; `MovesOnce` that it is a partial bijection, `Sources` that nothing is in a place afterwards
that was in none before or of the group, and `Destinations` that nothing leaves but by its write
back. The scoreboard follows: a register is set by the dispatch of a number that is new and cleared
by a write back that stays (`AdvanceDone`). For the values, `ValuesOK` says that what is under way
has a source that is complete, whose value is in the register file or on the bus (`ReadIs`,
`WrittenIs`). `FlushStep` is the other kind of cycle.

`LoadStoreProofs` proves the six invariants of the run `LoadStore` for every size of the memory queue, every width
and every program, for free operands and any number of micro-ops that retire. The
first invariant again has the packed group and its room (`StageOK`); `SlotsOK` adds to `QueuePacked` that the
queue is older than what waits in the stage in front of it, without which its order would not survive a
load, and `PathOK` and `Apart` relate queue and registers to the path. `SelectedIs` and
`Counters` compute what one cycle takes out and puts in, `SlotsNext` where each slot's new
content comes from, and `SlotsHold` that the shift of the queue loses and repeats nothing when the one
that issues is somewhere in its middle. `AdvanceStep` and `FlushStep` are the two kinds of cycle; the
`Once...` lemmas count places, from the invariant.
For memory there is a second one, `BInv`. `OrderOK` says that of two accesses of which one is a store
the older one is further down the pipe (`IssuesInOrder` is the step that the masks are for);
`BufferOK` that the buffer holds, in program order, the executed stores that the harness has not committed, and
after a flush others that are younger than the whole path. From it follows that the
first `store_retire` entries are the stores that have just retired (`RetiredAreFirst`, by counting both),
hence that the harness never stops for want of entries (`CommittedIs`), that what a flush throws away was
no store of the path (`UnflushedIs`), and that the older stores of a load are those in memory and
those in the buffer and no others (`LoadsHold`). What `LoadData` and `Written` compute, store by store and
for each overlap of sizes and offsets, is compared with the youngest store over a byte in
`LoadDataIs` and `WrittenIs`. Both are inductions over the number of stores; they are done with the least
number for which the claim would fail (`Least`), which needs no induction principle, and `Recursion` shows
in the same way that the recursive functions of the model have a value at all.

The recursive functions of the programs are treated in the same way. This stands in for the library's induction principles,
which the installed provers cannot apply.

Every invariant, action property and refinement of the passing runs is stated by a theorem, except the two invariants
of `Decode`. Only model-checked are these and the liveness
properties, since TLAPS does not treat fairness and ENABLED here, and the two findings, which are counterexamples.

## What is left

1. Theorems on `Decode`: `OperandsAgree` and `EachQueuedOnce` for every program.
2. `IssueInt` with registers that are used again, and with `RobQueue`: a set and a clearing of one
   register's busy bit then may meet in a cycle, which `NoAliasing` of `RenameCommit` should exclude.
3. An abstract memory in program order that `LoadStore` refines, and the scoreboard's ports
   for the memory queue in place of free operands.
4. The ALU against a reference definition; the multiplier and the divider once something reaches them.

Not modelled, and why. `top.sv` is wiring. The fetch buffer is not instantiated. `disk_t` of
`device.cc` and the serial port of `151_library` are used by no main or program; `set_chroot` is never called, and
the body of `statx` is compiled out. Output for the reader (`usage`, `print_all`, `get_symbol`, the
traces) has no effect on the rest; the order of `printf` in `sys_printstr` and of `write` to standard output is
up to the C library's buffer. `img.h` is an image as a constant, and no program includes
it: the programs' images are free inputs. The testbenches and
`test_sim_memory.cpp` are tests. Scripts build images and compare traces.
