# ChampSim in TLA+

ChampSim (`src/wsl_work`) simulates out-of-order cores, a hierarchy of caches
and TLBs, page table walkers and DRAM, driven by instruction traces. It is one
thread: the driver calls `operate()` of every component once per period of that
component's clock, and components talk through pairs of queues. What can go
wrong is therefore not a data race but the order in which things meet in those
queues: requests that merge, answers that come back in any order, refusals that
are retried, registers that are recycled. That is what these modules model.

`src/Base-V0` holds a second copy of the sources, headers, tests and modules,
byte for byte the same; everything here is about both.

Contents: [the system](#the-system), [the modules](#the-modules),
[the runs](#the-runs), [fairness](#fairness), [the proofs](#the-proofs),
[findings](#findings), [the plan](#the-plan), [what is not
modelled](#what-is-not-modelled).

## The system

All paths are below `src/wsl_work/`.

| component | state | operations | what makes it correct |
|---|---|---|---|
| **Channel** `src/channel.cc` | queues `RQ`, `WQ`, `PQ`; `returned` | `add_rq/wq/pq`, `check_collision`, the lower level's taking and answering | no waiter and no write is lost or answered twice; virtual and physical addresses are not confused |
| **Cache** (L1I, L1D, L2C, LLC, TLBs) `src/cache.cc` | `block`, `MSHR`, `inflight_writes`, `inflight_tag_check`, `internal_PQ`, `translation_stash` | `operate`: `finish_packet`, `finish_translation`, `handle_fill`, `initiate_tag_check`, `issue_translation`, `try_hit`, `handle_write`, `handle_miss`, `prefetch_line` | everyone who waits gets one answer; an answer from below finds its miss; what was written is written back |
| **Register allocator** `src/register_allocator.cc` | `frontend_RAT`, `backend_RAT`, `free_registers`, `physical_register_file` | renaming of sources and destinations, completion, retirement | no register leaks or is handed out twice |
| **Reorder buffer** (back end of `O3_CPU`) `src/ooo_cpu.cc` | `ROB` | dispatch, schedule, execute, complete, retire | operands read their producer in program order; every instruction retires |
| **Load and store queues** `src/ooo_cpu.cc` | `LQ`, `SQ` | `do_memory_scheduling`, `operate_lsq`, `handle_memory_return` | a load takes the youngest older store; no slot is reused while something refers to it |
| **Front end** `src/ooo_cpu.cc` | `input_queue`, `IFETCH_BUFFER`, `DECODE_BUFFER`, `DIB_HIT_BUFFER`, `DISPATCH_BUFFER`, `fetch_resume_time`, `DIB` | `initialize_instruction`, `check_dib`, `fetch_instruction`, `promote_to_decode`, `decode_instruction` | instructions leave in program order; fetching resumes after every misprediction |
| **Page table walker** `src/ptw.cc` | `MSHR`, `finished`, `completed`, `pscl` | `handle_read`, `handle_fill`, `finish_packet`, `operate` | every walk ends, at the page it was asked for |
| **Virtual memory** `src/vmem.cc` | `vpage_to_ppage_map`, `page_table`, `ppage_free_list`, `next_pte_page` | `va_to_pa`, `get_pte_pa` | two virtual pages never share a physical page |
| **DRAM controller** `src/dram_controller.cc` | `RQ`, `WQ`, `bank_request`, `active_request`, `write_mode`, refresh state | `check_*_collision`, `finish_dbus_request`, `schedule_refresh`, `swap_write_mode`, `populate_dbus`, `schedule_packet`, `service_packet` | a scheduled request and its bank point at each other; no due refresh is lost; no request starves |
| **Driver** `src/champsim.cc` | the clock of each component, phases, the watchdog | `do_cycle`, `do_phase` | faster components run more often; a stall is noticed |

Exchangeable modules (replacement, prefetching, branch prediction) are called
back from the cache and the core. The rest is construction, statistics, trace
input, and scripts that generate code.

**How they interact.** The component above pushes a request on a queue of a
channel, and gets `false` if the queue is full. The component below merges the
new requests (`check_collision`), takes them from the front, and pushes
responses on `returned` of every channel named in `to_return`. A cache stands
between two levels of channels; a core between its L1I and L1D channels; a walker
asks the L1D. There is no other shared state between components, except the
virtual memory that walkers and the core's translation share.

**What is hard.**

* *Ordering.* A request may meet an older one for its block in the write queue,
  the same queue, `inflight_tag_check`, the MSHR, or a line that has just been
  filled; the outcome must be one answer in every case. Answers come back in any
  order. Renaming must follow program order although execution does not.
* *Back-pressure.* Each hop can refuse. The refused step must leave everything as
  it was and be tried again (`handle_fill` with a dirty victim, `handle_miss`).
* *Recycling.* Physical registers, load queue slots, physical pages and the
  index of a bank are handed out again; something may still refer to the old use.
* *Stale checks.* `schedule_instruction` checks for registers before it renames
  with them; `handle_miss` looks in the MSHR in one cycle and fills in another.
* *Waiting in a circle.* Scheduling waits for registers that only retirement frees.

There are no threads, and nothing is persisted, so interleavings inside a
component and crashes are no hazard here. `PROJECT.json` lists the hazards line
by line, with the property that covers each.

## The modules

```
RequestReply   what a channel, a cache or a memory promises (abstract)
   ^ implemented by          ^ implemented by        ^ implemented by
Channel  <- ChannelProofs   Cache  <- CacheProofs   DramChannel  <- DramChannelProofs
   ^                          ^                      ^
MCChannel                  MCCache                MCDramChannel

RegisterAllocator  <- EXTENDS -  ReorderBuffer  <- ReorderBufferProofs
                                   ^
                                 MCReorderBuffer

ProgramOrderMemory   what the load and store queues promise (abstract)
   ^ implemented by
LoadStoreQueue  <-  MCLoadStoreQueue, LoadStoreQueueProofs

InstructionStream    what the front end promises (abstract)
   ^ implemented by
FrontEnd  <-  MCFrontEnd, FrontEndProofs      FrontEnd and PageTableWalker use LruTable

PageTranslation      what translation promises (abstract)
   ^ implemented by          ^ implemented by
PageTableWalker            TranslationStash  <-  MCTranslationStash, TranslationStashProofs
   ^        \ INSTANCE
   |         VirtualMemory  <-  MCVirtualMemory
MCPageTableWalker, PageTableWalkerProofs (with the theorems of VirtualMemory)
```

One iteration of a loop of the code is one step. Where the order of the loops within
`operate()` matters, a loop is a value of `pc` or `stage` and they run in the order of the code;
where bandwidths and latencies let any loop make no iteration in a cycle, so that cycles
of one iteration give every order, there is no such variable. Names of state
and operations are those of the code. Definitions marked `\* mutant` are wrong on
purpose: each is a plausible slip in the definition below it, and the property it
breaks is in `PROJECT.json`.

### RequestReply

Who waits (`pending`), who has been answered and has not looked (`answered`), which
writes are still owed to the level below (`unwritten`), and the write that it took
last. Anyone who waits may be answered, once, for the block asked for; a write
stops being owed only by being taken. There are no queues, no merging and no order.

### Channel

| code | model |
|---|---|
| `RQ`, `WQ`, `PQ`, `returned` | the same, as sequences |
| `do_add_queue` behind `add_rq/wq/pq` | `AddRQ`, `AddWQ`, `AddPQ`; the refusal is the disabled action |
| the three loops of `check_collision` | `ScanWQ`, `ScanRQ`, `ScanPQ`, an iteration each; `EndWQ`, `EndRQ`, `EndPQ` |
| `do_collision_for` (`std::find_if` on the address, then one test of `is_translated`) | `CollidesAt`: the first entry of that address, which must be translated alike |
| `do_collision_for_merge`, `do_collision_for_return` | `Merged`, `ReturnedAfter` |
| the cache's `initiate_tag_check` and its responses | `TakeWQ`, `TakeRQ`, `TakePQ`, `Respond` |

`instr_depend_on_me` stands for everything that waits at a request, whether the
code lists it there or only the sender knows it by the block. `inService`
(requests the cache has taken) and `written` belong to the cache below and the
abstract specification; everything else is the channel's own.

### Cache

`operate()` of a cache, for accesses with physical addresses (`TranslationStash` has what
comes before, for virtual ones): returns, fills from the MSHR,
fills from writebacks, new tag checks, `try_hit` of each ready entry, then
`handle_write` or `handle_miss` of each that did not hit.

* Latencies and bandwidths decide only *how many* entries at the front of a queue a
  loop handles; the model leaves the number open (`EndFills`, `EndWrites`, the `n`
  of `BeginTagChecks`), which covers every configuration of them.
* The victim is any way, or none if the fill is not a write, once no way is
  invalid: that covers every replacement policy. Any block may be prefetched
  between two cycles, with or without filling this level: that covers every prefetcher.
* A full queue below is a fill or a miss that does not happen (`EndFills`, `RefuseMiss`).
* `match_offset_bits` tells a cache of stores (an L1D: a write that misses goes through
  the MSHR) from one of writebacks (it fills at once).

### DramChannel

`MEMORY_CONTROLLER::initiate_requests` between two cycles, then `operate()` of one
channel: the warmup flush, `check_write_collision`, `check_read_collision` (a step per
slot), `finish_dbus_request`, `swap_write_mode`, `schedule_refresh`, `populate_dbus`,
`schedule_packet` with `service_packet`; `stage` says which is next.

* `RQ` and `WQ` are arrays of slots, and the iterator `pkt` of a bank is a queue and a
  slot, so a slot that is emptied and filled anew under a bank would be seen.
* Time is left open. `ready` and `bus_free` say that a `ready_time` and
  `dbus_cycle_available` have passed; `BankReady` and `BusReady` let them pass at any
  moment between two cycles. That covers every latency, open row and bank group, which
  decide only how long something takes. Where the code takes the earliest
  (`std::min_element`), any may be taken.
* A refresh may become due at any time, or, where `refreshes` is `FALSE`, not during the run.
* The bank of a block is the constant `BankOf`. There is one channel: channels share nothing.
* A bank that is released keeps its `pkt` and `ready_time` in the code, where nothing
  reads them until they are set again; the model clears them (`Released`).

### RegisterAllocator and ReorderBuffer

`RegisterAllocator` has the tables and the operations on them as actions;
`ReorderBuffer` calls them from `retire_rob`, `complete_inflight_instruction`,
`execute_instruction`, `schedule_instruction` with `do_scheduling`, and
`dispatch_instruction`, in the order of `operate()`. `do_scheduling` renames one
operand a step (`RenameSource`, `RenameDestination`), in place, as the code does: an
operand is an architectural register before and a physical one after.

* `status` stands for the flags `scheduled`, `executed`, `completed` and for time
  that has passed: `"ready"` when `ready_time` has, `"performed"` when the instruction
  has executed and all its memory operations are done.
* `Unallocated` and `OutOfTable`: the register check (ooo_cpu.cc:434) asks
  `isAllocated` also of operands that are physical names already. Where the
  register file is larger than the table (256 entries) that reads past its end, so
  the answer is a nondeterministic choice: `MayLackRegisters` and
  `MayHaveRegisters` may both be true.
* `last_writer` and the fields `needs` and `writes` are history variables: they record what
  program order says each operand must read, and what each instruction writes in the names of
  the trace, which renaming overwrites. No guard reads them.

### ProgramOrderMemory and LoadStoreQueue

`ProgramOrderMemory` is a memory with a queue of stores in program order. A load has,
from when it enters to when it ends, the value of the youngest store to its address
before it; stores reach the memory from the front of the queue. It has no blocks, no
slots and no requests to a cache.

| code | model |
|---|---|
| `LQ` (`std::vector<std::optional<LSQ_ENTRY>>`), `SQ` | a function from slots to entries or `NoEntry`, a sequence |
| `lq_depend_on_me` (references to elements of `LQ`) | a set of slots, so a slot that is used again under a store is seen |
| `do_memory_scheduling`, an operand an iteration | `ForwardLoad`, `AwaitStore`, `ScheduleLoad`; `ScheduleStore`; `EndScheduling` |
| `operate_lsq`: its three loops | `FinishStore` with `do_finish_store`, `WriteStore` with `do_complete_store`, `IssueLoad` with `execute_load` |
| `handle_memory_return`, its L1D loop | `HandleReturn`: an answer ends every load of its block that has been sent |
| `LSQ_ENTRY::finish` | `CountedBy`, `Finish` |
| the rest of `operate()` as far as the queues see it | `Retire`, `Complete`, `Execute`, `Dispatch` |

* Any loop may stop after any number of iterations (`NextLoop`), which covers every
  bandwidth and every refusal by the L1D. Registers are `ReorderBuffer`'s part: here any
  instruction in the reorder buffer may execute, so the queues are checked for every order.
* The trace has no data. The value of a load is taken to be the id of the instruction that
  stored it, from the store the load waits for or found, or else from what the L1D has
  when it answers. `memory` and `ended` are history variables.
* The L1D is `L1DAnswers`: it answers its reads of a block in any order, several at once
  if it has merged them. That is what `Cache` and `Channel` promise.
* `executed` includes that `EXEC_LATENCY` has passed.

### VirtualMemory, PageTableWalker and PageTranslation

| code | model |
|---|---|
| `vpage_to_ppage_map`, `page_table` | partial functions, from core and virtual page, and from core, level and upper bits of the address |
| `ppage_free_list` with `ppage_front`, `ppage_pop` | a sequence; `Pop`, which fills it again when the last page is taken |
| `va_to_pa`, `get_pte_pa` | `VaToPa` with `Ppage`, `GetPtePa` with `PteOf`: what they change, and what they return; `TryEmplace` is `try_emplace` |
| `MSHR`, `finished`, `completed` | a set (nothing depends on its order), two sequences |
| `finish_packet`, a walk an iteration | `FinishPacket` (`FinishStep`, `FinishLastStep`), `EndPacket` |
| `handle_read`, `handle_fill`, `step_translation` | `HandleRead`, `HandleFill`, `StepTranslation`, or `Refused`, which leaves the walk caches changed |
| `pscl` | a set of an `lru_table` for every level |

* An address of the page table is a table and an offset in it; a table is a page and a
  position in the page. A slice of a virtual page number is a division.
* An answer from below names a block; `LowerAnswers` answers requests of one block one by
  one or together, in any order. `OtherCore` is the walkers of other cores, between any two
  steps outside of `finish_packet`.
* `refilled` is a history variable: the free list has run empty.
* `PageTranslation` knows who asked, who was answered with which page, and a map that only
  grows. It is what both a walker and the TLB below a cache promise.

### TranslationStash

`finish_translation`, `issue_translation` and the tag checks of a cache that gets virtual
addresses, up to the tag check itself. `FinishTranslation` is an answer with everything
that it changes: in flight every access of its page is marked, in the stash they move behind
those that are translated already (the stable partition of cache.cc:652 from the first
untranslated entry on). `CheckTags` ends accesses that are translated and sends others to the
stash, `FromStash` brings them back. The TLB is the constant `PageOf` and the order of its answers.

### FrontEnd and InstructionStream

| code | model |
|---|---|
| `IFETCH_BUFFER`, `DIB_HIT_BUFFER`, `DECODE_BUFFER`, `DISPATCH_BUFFER` | sequences of instructions |
| `fetch_resume_time` | `fetch_stopped`: it is `time_point::max()`. A finite time is a latency |
| `initialize_instruction`, `do_predict_branch` | `InitializeInstruction`, any instruction mispredicted or not, found out at decode or at execution |
| `check_dib`, `do_check_dib` | `CheckDIB`, with the `DIB` as a set of an `lru_table` |
| `fetch_instruction`, `do_fetch_instruction` | `ChunkStarts`, `FetchChunk`: a chunk takes in the run of its block whatever the state of its instructions |
| the L1I loop of `handle_memory_return` | `HandleReturn`, an instruction of the first response an iteration |
| `promote_to_decode`, `decode_instruction`, `do_decode` | `Promote`; `TakeDIBHit` and `Decode`, whichever has the older instruction first |
| `dispatch_instruction`, `do_complete_execution` | `Dispatch`, `CompleteBranch` |

`InstructionStream` counts instructions in and out and holds the branch that fetching waits for.

### LruTable

One set of `lru_table` as a sequence, the least recently used entry first. The counter
`last_used` is only compared, so the position says the same.

## The runs

A passing run checks the properties it names over every reachable state of its
instance; `PROJECT.json` says which mutant breaks each property. Where invariants of a module
hold each other up, a run checks them as one: `MissesMatchAnswers`, `ChecksKeepTheSlots`,
`BanksServeTheMode`, `RenamingFollowsTheProgram`, `QueuesInOrder`, `WalksAreOnTheirWay`,
`StashInOrder` and `FetchesAreOwed` are conjunctions of named parts, the type invariant
among them.

| run | instance | states | what it shows |
|---|---|---|---|
| `channel` | 2 ids, two words of one block, virtual and physical addresses, `RQ` 2, `WQ` 2, `PQ` 1, three requests at a time | 277,335 | `TypeOK`, `IdsWaitOnce`, `WaitersWillBeAnswered`, and `KeepsPromise`: the channel implements `RequestReply`, and a write of another word of the block is not merged away |
| `rob` | 4 instructions of 4 shapes, ROB of 3, 4 physical and 3 architectural registers, of which 2 are used | 179,526 | `TypeOK`, `RegisterPartition`, `RenamingFollowsTheProgram`, `ProducersCompleteFirst`, `RegistersSuffice`, and `EveryInstructionRetires` with the fewest registers for which it holds |
| `cache_l1` | a cache of stores, two ways, one miss and two tag checks: the MSHR is full most of the time | 37,253 | `NoBlockTwice`, `AnswersEveryone`, and `EveryoneIsAnswered`, although younger requests pass a refused one |
| `cache_l2` | a cache of writebacks, two channels above, two ways, two misses and one tag check, an own prefetch, refused fills | 1,152,536 | `MissesMatchAnswers` (the assertion of `finish_packet`, and what the fill loop relies on), `AnswersEveryone` with merges across channels, `WrittenBlocksAreDirty`: a writeback stays owed until it is written back below, also when a fill is refused or a block is in both ways |
| `cache_lost_dirty` | a cache of stores, one line, one miss | | *violation* of `WrittenBlocksAreDirty`, see [findings](#findings) |
| `dram_safety` | two read and two write slots, two blocks in two banks, refreshes due at any time, also during one | 1,661,253 | `ChecksKeepTheSlots` (no check empties a slot a bank points at), `BanksServeTheMode`, `RefreshesAlone`, `KeepsPromise`, `DueRefreshComesNext` |
| `dram_liveness` | three blocks in one bank, one read and three write slots | 246,347 | `BanksServeTheMode`: changes of mode withdraw exactly what is not on the bus; `ReadsAreAnswered`; `FullWriteQueueIsServed`, with new writes for ever |
| `page_walks` | two walks, one silent, over two pages that part below the root of three levels; another core; five pages | 136,949 | `WalksAreOnTheirWay`, `NoPageTwice`, `AnswersWithTheMapping`: the walker implements `PageTranslation`; `EveryWalkEnds` |
| `vm_leak` | one core, two levels, two tables to a page | | *violation* of `OnlyFaultsTakePages`, see [findings](#findings) |
| `translation_stash` | four accesses, two virtual pages, MSHR 2, two tag checks | 16,711 | `StashInOrder`, `EveryAccessGetsItsPage`: implements `PageTranslation`; `EveryAccessIsChecked` |
| `front_end` | four instructions of two windows in two blocks, a fetch buffer of three, a `DIB` of one | 78,389 | `FetchesAreOwed`, `StopsForTheYoungest`, `KeepsTheStream`: implements `InstructionStream`; `EveryInstructionIsDispatched` |
| `load_store_queue` | 3 instructions of 5 shapes over two words of one block, ROB 3, `LQ` 2, `SQ` 2 | 220,318 | `QueuesInOrder` (what the search for the first store relies on), `MemoryOpsAddUp` and `WaitingLoadsHaveTheirStore` (the assertions of `finish` and `do_finish_store`), `KeepsProgramOrder`: the queues implement `ProgramOrderMemory`; `EveryInstructionEnds` |

### Bounds, and why they are enough

* *Channel.* A scan looks at one request and the entries before it. Two entries in
  a queue, with a write that can collide with both, give every outcome of a scan
  (no match, first match translated alike, first match translated otherwise with a
  second one behind it); larger queues repeat them. Queue sizes and `FewRequests`, at most
  three requests and responses at a time, bound the state, no counter does: a collision is between
  two, and a third changes its place. The theorems below hold for every size and any number.
* *Cache.* Two blocks in one set make hits, conflict misses and evictions; two
  misses make answers come in either order, merge, and fill the MSHR.
  `MaxTags` = 2 lets a younger tag check pass a refused older one: `cache_l1` has two tag checks,
  in front of an MSHR of one that refuses, and no own prefetches; `cache_l2` has two misses, the own
  prefetches and one tag check. Two tag checks and own prefetches together are beyond TLC in reasonable
  time in either; the theorems about answers and writes hold for all of these numbers.
  `MaxWrites` = 1 bounds `inflight_writes`, which the code does not bound. In `cache_l2` a block is filled twice
  nevertheless, by a write that arrives while a miss of the block waits (the hazard at cache.cc:384);
  `try_hit` sees the first copy, and with two ways both stay. The two blocks fill both ways, and a
  second copy of one evicts the other, which may be dirty.
* *DRAM channel.* Queue sizes bound the state. Two slots make two requests collide in
  either order of their slots. With two write slots both watermarks are 1, so a
  write is withdrawn only by an empty queue, that is never; `dram_liveness` has three
  (watermarks 2 and 2), where a read takes the mode away from a write that is
  scheduled. It has one read slot: it shows that a read is not starved by
  writes, not that it is not starved by other reads, which the age order of the
  code decides and fairness assumes. Two blocks would leave at most two writes after the collision check,
  and any write that finishes would bring the queue below its watermark; with three, `initiate_requests`
  can add the next for each that finishes, and the queue stays full for ever, as it may in the code.
  The history `written`, which no guard reads, is left out of the states (`VIEW`). Refreshes are left out of this run; they are in `dram_safety`.
* *Page walks.* Two walks share blocks, tables and walk caches, or part below the root;
  three levels give two walk caches, of which none, either or both know a walk. Five pages are fewer than the
  walks need when every call of `get_pte_pa` takes one, so the list runs empty and is filled again,
  and until then `NoPageTwice` says something. `MaxFaults` = 1 lets the other core take a page or a table
  at any moment. `MaxWalks` bounds the requests.
* *Translation.* Four accesses to two pages fill the stash (`MSHR_SIZE` = 2) past its bound, to three,
  while two tag checks are in flight; one answer then serves entries in both.
* *Front end.* Two windows in two blocks make chunks of one and of two instructions, `DIB`
  hits between misses, and a `DIB` of one entry that is replaced. Buffers of one and two
  entries make each stage wait for the next. `MaxInstr` bounds the trace.
* *Load and store queues.* `MaxInstr` bounds the trace and `MaxRequests` the reads that
  the L1D holds of a block. Three instructions are two stores to an address and a load
  that must choose between them, or a load before a store to its address and one after.
  One shape stores twice to an address, so two stores of one instruction compete for a load.
  Two words of one block let one answer end loads of several instructions and leave an
  answer behind that finds none. Two slots are filled, freed in either order and used again.
* *Reorder buffer.* `MaxInstr` bounds the trace. Four instructions through a
  buffer of three recycle a register while a reader of it is in flight and its old
  name is still committed. The shapes are a read-modify-write, one source read
  twice, two destinations, and a pure read. `RAT_SIZE` = 3 < 4 makes reads past
  the table happen.
* *How many registers are enough* (`EveryInstructionRetires`): as many as there are
  architectural registers in use, plus the most that an instruction needs beyond them: its
  destinations, and of its sources all but one (none, if it has none). The
  sources count because an unmapped register that
  an instruction reads twice is counted twice (ooo_cpu.cc:434), and at most one less
  because it is allocated once, so that one register fewer is in use before. With one register less the run fails: the front
  instruction waits for registers that only later retirements could free.
* Symmetry is over ids and blocks, which the specifications treat alike, and only in runs
  of safety properties.
* No run turns deadlock checking off.

## Fairness

* `Cache`: `WF(Operate)`, because the driver calls `operate()` over and over. Strong
  fairness for the fills and the tag checks of all entries, because latencies are finite
  and an entry at the front stays there until it is handled; for the level below, which
  answers every request and accepts one again and again (the next level's own promise);
  and for `ForwardMiss` of the oldest tag check, because an entry that is refused is tried again in every
  cycle, before all younger ones. That younger ones are accepted helps it not at all, as `cache_l1` shows. Nothing is assumed of `RefuseMiss` or of the environment above.
* `DramChannel`: `TimePasses`, which is `WF(Operate)` and strong fairness of `BankReady` and `BusReady`,
  because latencies are finite; and `OldestFirst`, strong fairness of each bank's `PopulateDbus` and of reads'
  `ServicePacket`, because the code takes the one whose `ready_time` is earliest, and what
  comes later is ready later. `dram_liveness` has one bank and one slot for reads, where nothing is left
  to choose, and assumes `TimePasses` only. Of writes only that some of them are served. Nothing is assumed of arrivals: `ReadsAreAnswered`
  admits that bursts of writes that never end keep a read waiting, for each
  change of mode withdraws it.
* `ReorderBuffer`: `WF(Operate)`, and strong fairness of becoming ready and being
  performed: latencies are finite and memory answers. Nothing is assumed of dispatch.
* `LoadStoreQueue`: `WF(Operate)`, and strong fairness of `Progress`, all that brings an
  instruction forward: each loop has room for an iteration, latencies are finite, every
  instruction executes (`ReorderBuffer`), and the L1D accepts again and again and answers
  every read (`Cache`).
* `PageTableWalker`: strong fairness of `Progress`: the steps of `operate()` that bring a walk
  forward, and the answers from below. A step that the level below refuses is none; it
  accepts again and again.
* `TranslationStash`: strong fairness of `Operate`, of which the answers of the TLB and the tag checks
  are part. `FrontEnd`: strong fairness of `Progress`: every loop runs again, the L1I accepts and answers,
  the back end dispatches and completes.
* Nothing is assumed of requests from above, except of instructions: a trace goes on until its end.
* Strong fairness is assumed of all instructions, walks or accesses together, which is weaker than of each.
  It is enough, because they are finitely many: what one of them can do, it does finitely often.

## The proofs

`ChannelProofs`, `CacheProofs`, `DramChannelProofs`, `ReorderBufferProofs`, `LoadStoreQueueProofs`, `FrontEndProofs`,
`PageTableWalkerProofs` and `TranslationStashProofs` hold the proofs; TLC found each property, and each inductive invariant, true of
the runs' instances first. The theorems hold for every value of the
constants that satisfies the assumptions the specifications name:
`ChannelAssumption`, `CacheAssumption`, `DramAssumption`, `AllocatorAssumption`, `ROBAssumption`, `LSQAssumption`, `NoEntryAssumption`,
`FrontEndAssumption`, `VirtualMemoryAssumption`, `WalkerAssumption` and `TranslationAssumption`.

### Channel

| theorem | states |
|---|---|
| `TypeCorrect` | `TypeOK`: types, and no queue above its size |
| `EachIdWaitsOnce` | `IdsWaitOnce`: a waiter is at one place, in the queues or below or answered |
| `WaitersAreAnswered` | `WaitersWillBeAnswered`: a request that somebody waits at asks for a response |
| `ChannelKeepsPromise` | the channel implements `RequestReply` |

The inductive invariant is `TypeOK /\ IdsWaitOnce /\ WaitersWillBeAnswered`: the three hold
each other up, and none is inductive alone. A merge adds the waiters of a younger entry
to an older one; that nobody is then at two places needs all queues, the requests
below and the answers to be disjoint before, and that the answer reaches everybody needs
the older entry to ask for a response afterwards. The refinement needs both: a
waiter leaves `pending` only by entering `answered`, because the entry that
leaves is the only one that holds it. The lemmas are about sequences of requests: what
merging an entry into an earlier one, taking the front and removing an entry in
the middle do to the ids, to the pending waiters and to the writes. The refinement
follows step by step: a merge is a stutter, forwarding from the write queue an answer,
taking a read a stutter, and taking a write the write's leaving.

### Cache

| theorem | states |
|---|---|
| `AnswersFindTheirMiss` | `MissesMatchAnswers`: types and sizes, one waiting miss for each answer owed, and answered misses come first |
| `StoreCachesHoldOneCopy` | `NoBlockTwice`, for a cache of stores |
| `CacheAnswersEveryone` | the cache implements the answers of `RequestReply` |
| `WritebacksAreKept` | a cache of writebacks implements the writes of `RequestReply` |

`MissesMatchAnswers` is inductive as it stands: an answer is handed out only for a block that is owed, a miss is added
only for a block that no miss is for, and what is taken from the front has its data. The work is in
`finish_packet`, which exchanges two misses: `First` is the least of its positions (`LeastOf`), and after the
exchange the waiting misses still begin where the answered ones end. The other theorems need more of `Inv`:

* `Once`: an id waits in one tag check, one miss, or one response to its own channel.
* `Senders`: the sender of everyone who waits at an entry is named in its `to_return`, and nobody waits at a
  write or at a prefetch that skips the level, which are not answered. So the response to an entry reaches
  all who leave with it. A merged miss answers channels that do not know some of its ids; `Once`
  therefore counts, of a channel's responses, the ids of that channel only.
* `Lines`: in a cache of stores, what has been found to miss is not in the lines when it becomes a miss. Between
  the two, no step of the cycle fills a line. That is why the two loops over the tag checks must come after both
  loops of fills.

In a cache of writebacks `NoBlockTwice` fails, for two writebacks of a block may both fill, so the theorem is about
caches of stores. `WritebacksAreKept`, on the other hand, is false of a cache of stores (see
[findings](#findings)) and is about caches of writebacks; it adds `WritesApart`: none of their misses is
a write, so no merge can take the type from one, and a line without a block is not dirty, so what
a fill overwrites without writing it back was not owed. In the refinements an exchange, a merge and a refusal are
stutters, a hit or a fill answers those of one entry, and a fill that evicts a dirty line is the write's leaving,
though the block may still be owed for another copy.

### DRAM controller

| theorem | states |
|---|---|
| `SlotsStayChecked` | `ChecksKeepTheSlots`: an id waits once, checked entries hold different blocks, checks precede scheduling |
| `BanksStayLinked` | `BanksServeTheMode`: a busy bank and its request point at each other, and off the bus all are of the current mode |
| `RefreshesStayAlone` | `RefreshesAlone`: no bank is refreshed under a request |
| `DueRefreshIsNext` | `DueRefreshComesNext`, an action property: a refresh that is due is done before the bank's next request |
| `DramKeepsPromise` | the channel implements `RequestReply` |

The properties speak of sets of packets and banks; `Inv` says the same slot by slot (`Once`,
`Slots`, `Linked`), and three lemmas lead back from it. It adds what the order of the loops of one
cycle gives (`Phases`): behind the collision checks every entry has been checked, behind
the refreshes no idle bank has one due, and in the warmup no bank is busy and nothing is left
when the checks begin. Without it none of the properties is inductive: a slot that is scheduled
before its checks could be merged away under its bank, and `service_packet` clears the flag of a
refresh. Withdrawing at a change of mode is the step that touches most: it clears a set of slots and
their banks at once, and `Linked` says that these are the same set, for each bank is served by
one slot only. In the refinement a merge and a withdrawal are stutters, a forwarded read and the end of a read
are answers, and the end of a write is the write's leaving; the warmup flush is an answer
for one request after the other.

### Front end

| theorem | states |
|---|---|
| `FetchesStayOwed` | `FetchesAreOwed`: types and sizes, and what waits for the L1I is named by a request or a response |
| `StopsStayMatched` | `StopsForTheYoungest`: fetching stands still exactly for one branch, the youngest instruction |
| `FrontEndKeepsTheStream` | the front end implements `InstructionStream` |

None of the three is inductive. `InOrder` numbers what is in the buffers: the fetch buffer and the
dispatch buffer hold one interval of the program each, and the two buffers between them
share out the interval in the middle, each in order. So the first of the two that is the
older is the very next instruction (`FirstLeaves`), which is why merging them by their heads gives
program order (ooo_cpu.cc:341). `Stops` says which buffer the branch may be in, and that one in the back end
is dispatched: as it is the youngest instruction, nothing is behind it when it completes, and no second branch can be
under way when decoding resolves one. The DIB only has to keep its
type (`LruChecked`, `LruFilled`): whether it hits makes no difference to any of this.

### Reorder buffer and register allocator

| theorem | states |
|---|---|
| `TypeCorrect` | `TypeOK` |
| `RegistersPartitioned` | `RegisterPartition`: each physical register is in exactly one place |
| `RenamingNeverRunsDry` | `RegistersSuffice`: no register is taken from an empty free list |
| `RenamingIsFaithful` | `RenamingFollowsTheProgram`: each renamed source has the value program order names, and the frontend table the youngest names |
| `NothingExecutesEarly` | `ProducersCompleteFirst`: what has executed had its producers completed |

`RegisterPartition` is not inductive. When a destination retires, the register that
`backend_RAT` held is freed, and it has to be known that the table is looked up at
the register's own index. So `Inv` adds

* `Names`: the destination of an instruction in flight says which architectural
  register it is for, and that register is allocated;
* `Mapped`: a register with a committed name is allocated, so the first renaming of a
  register makes no committed name appear twice;
* `Operands`: an operand that is not renamed yet is an architectural register, so
  `RenameDest` is never given the name of a physical one;
* `Control`: where `op` stands in each loop, and that the entry a loop works on
  is still there and still ready.

`RegisterPartition` counts positions, and retirement shifts every position by one.
The lemma `SameRegistersInFlight` carries it over any step that renames nothing and
shifts by nothing or by one; only the three steps that move a register between
places (`RetireDestination`, `RenameSource`, `RenameDestination`) need an argument of
their own, over what taking and appending do to the free list.

`RenamingNeverRunsDry` adds `Enough`: the free registers cover the sources that remain
to be renamed and have no register, plus all destinations. The check establishes
it, by counting operands; a renamed source leaves the set of the remaining ones when it
takes a register, and others may leave with it if they name the same register.

`RenamingIsFaithful` relates three accounts of who wrote a register last: the program (`needs`,
`last_writer`), the names (`source_registers`, `frontend_RAT`) and the register file
(`arch_reg_index`, `producing_instruction_id`). No one of them determines another in a single
state, because the writers leave at retirement and their registers are recycled. `History` says
that each account is the one which the instructions in flight and `backend_RAT` imply:

* `InOrder`: the entries are in program order, and no instruction is ready or renamed before an
  older one. `do_scheduling` renames at schedule, not at dispatch, so this is what makes the frontend
  table at renaming the table of program order;
* `Known`: an operand that is not renamed is still the register of the trace, and `needs` names older instructions;
* `Traced`: the writer that `needs` and `last_writer` name is the last entry in front to write the register,
  or, if there is none, the instruction whose value is committed (`WroteLast`, `Committed`);
* `Named`: the same for names: a renamed source and each entry of the frontend table hold the last destination
  renamed in front, or the committed name (`NamedLast`);
* `Filed`: a name in flight belongs to the register and the instruction it was taken for;
* `Retiring`: the front instruction commits its destinations one at a time, so the part that has been committed is
  neither in flight nor behind;
* `Settled`: a committed value was written by an instruction that has completed.

`Traced` and `Named` speak of the same entries, so where they agree on the entry, `Filed` gives the
source its producer (`SourceOfProducer`, `HistoryIsFaithful`). Neither can be proved without the other
parts: retirement moves a writer from in flight to committed (`RetirementKeepsHistory`, `DepartureKeepsHistory`),
and the register that it frees must be nobody's source, which follows from `NamedLast`: every source behind the
front instruction that reads the register has the front's name or a younger one, not the committed one.

`NothingExecutesEarly` follows with `History`: an instruction executes when the registers of its sources are
valid, a register in flight is valid only when its instruction has completed (`Filed`), and a committed
one by `Settled`. What is valid is thus what the instruction needs, because `RenamingIsFaithful` says whose register it is.

### Load and store queues

| theorem | states |
|---|---|
| `QueuesStayInOrder` | `QueuesInOrder`: types and sizes, and the issued stores are in front of the others |
| `MemoryOpsAlwaysAddUp` | `MemoryOpsAddUp`: an instruction completes with its last memory operation, never before |
| `LoadsWaitForTheirStore` | `WaitingLoadsHaveTheirStore`: a store and the loads that wait for it point at each other |
| `QueuesKeepProgramOrder` | the queues implement `ProgramOrderMemory` |

Of the three safety properties only the order of issued stores is inductive; with them, `Inv` has

* `Programmed` and `StoresInOrder`: ids rise in the reorder buffer and do not fall in the store queue, and the
  instruction that is being scheduled is the youngest. The id of an entry thus names one instruction, and the
  counts of an answer or of a store that finishes are those of the instructions they belong to.
* `HasRoom`: what dispatch has found room for still has it, so a load that is scheduled finds a free slot and the
  store queue stays within its size. An instruction with more loads than the queue has slots is never dispatched.
* `Counted`: an instruction that has completed has counted all its operations, so by `MemoryOpsAddUp` none is
  open. Retirement leaves no load behind, and a store that is written has executed.
* `ReadsAreCurrent`: a load without a producer has no older store to its address in the store queue, and only
  such loads are sent to the L1D.

The count of an instruction is a sum of the sizes of two sets and two sequences. `AddsUpStill` has it over any
step that moves as much into the count as it takes out; the steps differ in where they take it from: an operand that becomes a load
or an open store (`OneMoreLoad`, `OneMoreStore`), a store that executes with the loads that wait for it
(`OneFewerStore`, `FewerLoads`), and an answer that ends the loads of a block, of several instructions at once.
`WaitingLoadsHaveTheirStore` is about slots, which are freed and taken again: a slot that is taken was free, so no
store pointed at it, and a slot that is freed by an answer waits for no store, as only loads without a producer are sent.

The refinement turns on `ValueOf`: a load that waits has the value of its store, any other what the L1D has for its
address. When it enters, both are the youngest older store (`LatestIs`, `LatestIsInMemory`); only writing a store could
change the value of a load afterwards. A load that the L1D is to answer at the address of that store would be older
than the store by `ReadsAreCurrent`, hence its instruction in the reorder buffer and older than one that has
retired. That is why stores may leave only behind retirement (ooo_cpu.cc:552). Everything else is a stutter or ends loads.

### Virtual memory and page table walker

| theorem | states |
|---|---|
| `MemoryIsTyped` | `TypeOK` of `VirtualMemory`; the free list is never empty, so `ppage_front` has a page to give |
| `MemoryServesNoPageTwice` | `NoPageTwice`, for the operations of `VirtualMemory` in any order: until the free list has run empty, no page has two uses |
| `NoPageServesTwice` | the same while a core walks and others take tables and pages between any two of its steps |
| `NoWalkIsLeftBehind` | `TypeOK` and `EveryWalkIsOwed`: an answer is owed to every walk that waits |
| `WalksKeepToTheirTables` | `WalksAreOnTheirWay`, where a page holds one table: the tables a walk reads lead to its page |
| `AnswersAreTheMapping` | `AnswersWithTheMapping`: the walker implements `PageTranslation` |

Two facts are missing from `NoPageTwice`, and `PageForTables` adds them: no page is in the
free list twice, so that the page taken is not free any more (`FreePageTaken`); and the page that
is being filled with tables holds no translation, is not free, and has its tables below
`next_pte_page`, so that a new table meets none of the old ones. The second says nothing when `next_pte_page`
is zero: then the page is full, or taken in vain, and the next table goes to another. The
assumption is that `populate_pages` lists each page once.

`PageTableWalker` calls the same two operations in steps of its own: for the virtual memory each of its steps is
one of `VaToPa` and `GetPtePa` or none, so one set of lemmas serves both, and no map ever
loses or changes an entry (`MapsGrow`). Around that, the invariant `Inv` of the walker says:

* `OnePlaceEach`: a request is in one place only (the queue above, the `MSHR`, `finished`, `completed`), once, and
  none is anywhere that was not made. Else an answer could be given twice, or `pending` keep what was answered.
* `PagesAreMapped`: the page that a completed walk carries is the one in the map, however long it waits.
* `TablesAreBelow`, `CachedTables`: the table that a finished walk carries is the one below its level toward its
  page; and so is what a walk cache holds, for every page with the entry's tag. Checking and filling an
  `lru_table` makes no entry that was not there or is not the one filled in (`CheckedTable`, `FilledTable`).
* `RootKnown`, `RightLevels`, `EveryWalkIsOwed` and `TypeOK`.

A walk starts in a table toward its page (`WalkStarts`: from the root, or from the lowest walk cache that knows it) and
each answer takes it one table further on. `Prefix`, by which tables are found, divides by `Span`, the table
size multiplied with itself, a function that recurses over the levels. Its equations are no axiom to the provers: `Spans` proves them
for the least number at which they could fail, which cannot be zero and has a predecessor at which they hold (`LeastOf`), and
`PrefixSteps` draws from them that dividing by the table size leads from the prefix of one level to that of the next.

`WalksKeepToTheirTables` assumes one table to a page, `NoWalkIsLeftBehind` and `AnswersAreTheMapping` do not. With
several the first is false, as TLC shows on an instance with two: a walk that starts from the root or a walk cache drops the
position of the table in its page (see the findings). The configured sizes give one.

`AnswersAreTheMapping` maps `pending` to whoever still owes an answer (`WhoOwes`). `Ask`, `Complete` and
`PickUp` are the steps of the same names, the last step of a walk is `Map` when its page is new, and everything else
is a stutter: a walk that moves on, or is refused, still owes what it owed. The faults of other
cores change the map of theirs only (`MappingGrows`).

### Translation stash

| theorem | states |
|---|---|
| `TheStashIsInOrder` | `StashInOrder`: translated entries first, the stash within its bound, every access at one place, and the request of each that waits unanswered |
| `AccessesGetTheirPages` | `EveryAccessGetsItsPage`: the translation of a cache implements `PageTranslation` |

The bound of the stash is not inductive: sending what is in flight to the stash makes it longer, and no test is
made there. `HasRoom` counts who is in the stash or may still go there, that is, who is in flight and
untranslated. Only a new access adds to these, and it is taken only while the stash
is below `MSHR_SIZE` and there is room in flight (`FromAboveAdds`); every other step keeps or removes them
(`RoomKept`), and as every access is at one place the stash is no longer than this count (`StashFits`). `Served` has what the
refinement needs of each entry: an access with a physical address counts as translated, and one with a virtual address that
is translated has the page of its virtual page.

An answer does not end the requests of others for its page, and they may come later, or never find anybody: `FinishAnswers`
shows that all of the page are marked, wherever they are, so that nobody waits for what is gone. In
the stash this depends on the entry at which the search begins: it is the first untranslated one, and all
behind it are untranslated too because translated ones are first (`RestartedEntries`).

What is picked out of a sequence is a recursion over it (`Picked`). As with `Span`, a first length
at which it went wrong would have a predecessor at which it did not: `PickedSelects` shows that it takes the
elements in question, each once. With what joining and cutting do (`Joined`, `Cut`), all further
reasoning is about sets of entries. In the refinement an answer that finds nobody, a request and a move between
the stash and what is in flight are stutters, and tag checks pick up what they check.

### What is only model-checked

* Every liveness property, because the proof system does not reach liveness under fairness or `ENABLED`.
* What the instances add to the properties above: that `OnlyFaultsTakePages` and, in a cache of stores,
  `WrittenBlocksAreDirty` fail.

No module declares a RECURSIVE operator; `Span` and `Picked` are the recursive functions that theorems depend on.

## Findings

* `cache_lost_dirty`: `mshr_type::merge` gives the entry the type of the later request
  (cache.cc:117). A load that merges into the miss of a store turns the entry into a
  load, the fill is clean, and the block that was stored to is never written back. The
  repository says that written blocks are marked dirty; its test covers writebacks into
  an L2, which do not pass through the MSHR.
* `vm_leak`: `get_pte_pa` takes a page for tables whenever the last one is full, before it looks
  whether the table exists (vmem.cc:127). A call for a table that exists then takes a page for
  nothing, and the next call another. With the page table page size of `champsim_config.json` a
  page holds one table, so every call takes a page.

Observations, of which no run is made:

* `do_collision_for` looks for the first entry with the same address and only then compares
  `is_translated` (channel.cc:39), so an entry that is translated otherwise hides one that
  could be merged. It costs an access, no answer: `KeepsPromise` holds with mixed addresses.
* Both watermarks of a DRAM write queue of one entry are 0 and `wq_occu >= 0` always holds
  (dram_controller.cc:216), so the mode changes in every cycle and each change withdraws
  the scheduled reads.
* The register check is made for entries that are scheduled already and need no registers, with
  operands that are physical names by then (ooo_cpu.cc:434-438). Scheduling may stop although
  the next instruction has the registers it needs. It delays instructions; `EveryInstructionRetires` holds.
* A walk that starts from the root or from a walk cache drops the position of the table in its page
  (ptw.cc:64-70) and reads an entry of the first table there. With one table to a page, as configured,
  there is no other; the walk's page comes from the map in any case (`AnswersWithTheMapping`).
* The walker never looks at its `MSHR_SIZE`; what bounds the walks in flight is what the levels
  above have in flight.
* The stash of a cache may hold more than `MSHR_SIZE` entries (`StashInOrder` has the bound).

## The plan

The order is that of importance: first what every request passes through, then what
depends on it.

1. **Done.** `RequestReply`, `Channel`, `ChannelProofs`; `RegisterAllocator`,
   `ReorderBuffer`, `ReorderBufferProofs`; `Cache`; `DramChannel`; `ProgramOrderMemory`,
   `LoadStoreQueue`.
2. **Done.** `VirtualMemory`, `PageTableWalker` and their proofs, `LruTable`, with `PageTranslation` as the promise.
3. **Done.** `FrontEnd`, with `InstructionStream` as the promise.
4. **Done.** `TranslationStash`, the translation of the cache, against the promise of the walker.
5. **Done.** Theorems of `Cache`, `DramChannel`, `FrontEnd` and `LoadStoreQueue`; `RenamingFollowsTheProgram` and
   `ProducersCompleteFirst` of `ReorderBuffer`; `WalksAreOnTheirWay` and the refinement of `PageTableWalker`;
   theorems of `TranslationStash`.
6. The driver (several clocks, phases, the watchdog) and the victim choice of lru and srrip against
   reference definitions.

## What is not modelled

* The driver: the models run components in every order that several clocks and an unstable
  sort of them allow, so none depends on it. Phases touch modelled state in one place, the write mode of
  the DRAM channels, which `DramChannel` has. Warmup, in which latencies are zero and branches never
  stop fetching, is a special case of open latencies and predictions.
* Replacement policies, prefetchers, branch predictors: heuristics whose answers are all
  allowed, so the models let them choose freely.
* DRAM timing and the address mapping: they decide when, not whether. Bandwidth and row-hit
  counts are statistics.
* Data, metadata, instruction pointers and access types that are treated alike: no decision of the
  modelled code reads them.
* Statistics and printers, construction (builders, generated environment, configuration
  scripts), trace input, tracers, experiments: no state that the simulation's decisions read.
