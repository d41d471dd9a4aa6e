# A TLA+ verification project for hsa-snoop

hsa-snoop watches AMD GPU work from outside the traced process. It learns of
queues by probing the kernel, polls the rings that the process shares with the
GPU, and turns what it sees into traces, metrics and a log. Nobody synchronises
with it: every pointer and every packet it reads may change, be reused or vanish
between two of its reads. This directory models its parts in TLA+, checks them
with TLC on small instances and proves the central properties with TLAPS for
all sizes. Source paths below are relative to the repository; `src/parser.cpp`
means the file of that name in its `src` directory.

## 1. The system

| Part | Source | State | Operations | Talks to |
|---|---|---|---|---|
| Queue discovery | `discovery.{h,cpp}` | probe, `bpf_pid_`, `pipe_fd_`, line buffer, `seen`, `next_uid` | Start (kprobe, bpftrace, kfd-uprobe), the three Run loops, Stop | tracefs, bpftrace; calls `on_queue` |
| tracefs | used by `discovery.cpp`, `ais_monitor.cpp` | kprobe definitions, `tracing_on`, `trace_pipe` | define, enable, switch on, read, restore | shared by all hsa-snoop processes |
| AQL ring parser | `parser.{h,cpp}`, `aql.*` | `next_id`, `inflight`, `dropped`, `primed`, `read_fail_count`, `evict` per queue | AddQueue, Run, PollQueue, DecodeSlot, Stop | memory of the process; calls the sink |
| SDMA ring parser | `parser.cpp`, `sdma.*` | the same, and `sdma_seq`, `sdma_inflight`, `page_host` | PollSdmaQueue, PacketLenDwords, LinearCopyBytes, ClassifyDir | memory of the process; calls the SDMA sink |
| Kernel names | `ksym.{h,cpp}` | `cache_`, `offset_cache_` | Resolve, ScanCodeObjects | memory of the process; called by DecodeSlot |
| AIS monitor | `ais_monitor.{h,cpp}` | probe, tracefs instance, `trace_pipe_fd_`, cancel pipe, partial line, device cache | Start, ReadLoop, Stop | tracefs; calls its sink |
| XNACK monitor | `xnack_monitor.{h,cpp}` | `running_`, `bpftrace_pid_`, pipe, script | Start, ReadLoop, Stop | bpftrace; calls its sink |
| Trace writer | `trace_writer.{h,cpp}` | records | RegisterQueue, Add, Write (Perfetto, JSON) | called by sinks and at the end |
| Prometheus exporter | `prometheus_exporter.{h,cpp}` | metrics, `queue_meta_`, `launch_events_`, two locks | RegisterQueue, Add (five kinds), UpdateRateGauges, scrape | all threads and HTTP scrapes |
| Dispatch log | `dispatch_log.{h,cpp}` | a file, a lock | LogQueue, LogDispatch, LogSdma | called by sinks |
| Process memory | `proc_mem.{h,cpp}` | a cached descriptor per thread | ReadProcMem, ReadProcMemViaMem, ReadKernargSize, ScanKernargFootprint, VirtToPhys | called by the parsers and by main's sink |
| main | `main.cpp` | child, `queue_ids`, `per_queue_writers` | launch, `on_queue`, sinks, loop, shutdown | all of the above |

Interaction. main forks the command and lets it stop itself, starts discovery,
resumes the command. The discovery thread calls `on_queue`, which tells main's
table, then the exporter or a trace writer, then the parser. The parser thread
polls every queue it has and calls the sinks. AIS and XNACK monitors have a
thread and a sink each; the exporter has a rate thread and is scraped at any
time. At the end main stops discovery, then the parser, and writes the output.

What is hard here, and is what the properties are about (`hazards` in
`PROJECT.json` lists each at its line):

- *Unsynchronised polling.* Read and write pointers are sampled once per poll
  and used afterwards; slots are reused and reset under the poller's eyes.
- *Framing.* SDMA packets have no marks; tracer output is cut anywhere.
- *Shutdown.* Every Stop joins a thread that may be at any point of its loop.
- *Partial failure.* Each start is a chain of steps with side effects on the
  host; the traced process and bpftrace may die at any time.
- *Shared host state.* `tracing_on` and `trace_pipe` are global.
- *Stale caches.* Addresses of rings and kernels are reused.

## 2. Modules

| Module | Models | Actors |
|---|---|---|
| `PacketLedger` | the abstract promise of a ring parser: from the point where it is opened every unit is held, reported or skipped, once each, in one direction | - |
| `AqlSnoop` | RingParser on one AQL queue | producer threads, GPU, poller, main |
| `AqlSnoopProofs` | proofs about `AqlSnoop`, and that it implements `PacketLedger` | |
| `SdmaPackets`, `SdmaWindow` | version detection, packet-length and copy-size tables per SDMA version, the 16-dword window they are applied to, and the direction of a copy from the cached pages | producer, poller, the process's page tables |
| `SdmaSnoop`, `SdmaSnoopProofs` | PollSdmaQueue on one ring; implements `PacketLedger` too, with dwords as units. The proofs about `SdmaWindow` are there as well | producer, engine, poller, main |
| `ProbeReader`, `ProbeReaderProofs` | one Discovery object: arming, reader, Stop, in each of the three modes | system, main, reader |
| `SharedTracefs`, `SharedTracefsProofs` | several hsa-snoop processes on one tracefs | the processes, the kernel |
| `KernelSymbols`, `KernelSymbolsProofs` | KernelSymbolResolver while code objects come and go; proofs about it and about `MemSnoop` | process, parser |
| `MemSnoop` | the memory footprint of a dispatch, on top of `KernelSymbols`: the arguments' block, the buffers, the cached descriptor | process, parser |
| `AisMonitor` | Start, ReadLoop and Stop around poll, trace_pipe and the cancel pipe | kernel, main, reader |
| `XnackMonitor` | Start, the forked child, ReadLoop and Stop | main, child, reader |
| `Monitors`, `MonitorsProofs` | both monitors as main starts, stops and destroys them | main and all of the above |
| `TraceWriter` | records to events, in both formats | - |
| `Exporter`, `ExporterProofs` | the exporter under its two locks, one update of a metric at a time, and scrapes that collect one family at a time | four callers, rate thread, scrapes |
| `Snoop`, `SnoopProofs` | main: the parts put together; proofs about it and about `TraceWriter` | main, discovery, parser, command |

`MC*` modules only add finite constants and symmetry. Names of variables and
actions are those of the code where TLA+ allows; `map` in `PROJECT.json` gives
the lines of each definition. Operators commented "Mutant" are plausible bugs;
replacing the named definition by one of them makes a run fail, which shows that
its property can be violated.

### How state and steps correspond to the code

- **AqlSnoop.** Every read of the process's memory is a step: `ReadWptr`,
  `ReadRptr` (with priming, lines 210-216, and the overrun guard), one decode
  step per slot, one drain step per record. `DecodeSlot` keeps of a packet its
  type, barrier bit and whether the word at `kernel_object` is non-zero. A slot
  is the id of the packet whose body it holds and its header. Three switches
  describe the environment: `OverReserve` (HSA lets producers take ids of a
  full ring), `LateReset` (the GPU may advance the read pointer before it resets
  the header) and `ReadFaults`.
- **SdmaSnoop.** Positions are dwords since the beginning. A slot shows the
  last dword written there, so what a read returns follows from the producer's
  progress; garbage decodes to any length in `GarbageLens`.
- **ProbeReader.** A line is two units, its text and its end, so that a read
  can cut it anywhere; `Read` appends, `HandleLine` takes a complete line.
  The code's differing conditions for reading (`buf.empty()`) are kept. `Contains`
  says whose name has whose first 15 characters in it, the code's test; a thread
  may have renamed itself.
- **KernelSymbols.** A symbol is an address and a name; `Low` is the masking by
  `kOffsetMask`; scanning is one step because Resolve holds the caller. A
  scan finds any part of what is mapped, or nothing: each exit of ScanCodeObjects
  (maps or memory that cannot be opened, a header or table that cannot be read or is
  skipped, a walk that ends early) comes to that. A packet may be resolved when its
  code is gone or another kernel is at its address. The history variable `own` keeps
  which kernel an entry was made for, if its symbol was found.
- **SdmaWindow.** A packet and where its ends lie are chosen from constants; the
  window grows as the producer publishes. A page is host or device memory or not
  present, and may change at any time; `page_host` is kept with its limit.
- **MemSnoop.** A block of arguments is a sequence of words, each the base of a
  buffer or a pointer into one; blocks lie one behind the other. `Sink` is the
  part of the AQL sink under `mem_mode`. The declared size is read at the packet's
  `kernel_object` itself, so it is found only where that address is mapped in the
  process; elsewhere the fixed window of 256 bytes (`Fallback`) is scanned. The
  history field `intact` says that the block has not been written since.
- **AisMonitor, XnackMonitor, Monitors.** One step per system call: the
  interleavings of a Stop with a poll, a read or a forked child are what matters.
  `Monitors` extends the first and instantiates the second; main's thread is in
  one of them at a time. `sink` says whether main's AIS sink keeps its records.
- **TraceWriter.** Times are counted in tenths of a microsecond since boot, and
  `Printed` rounds a JSON time to its significant digits: six in the code, one in the
  runs, where the clock is small.
- **Exporter.** A call is the sequence of its updates of metrics. prometheus-cpp
  locks single families only, so a scrape is a sequence of steps as well: it takes
  the families in the order of their creation, with updates between any two.
- **Snoop.** One step per critical section; a line of the dispatch log is one. The
  parts are what main sees of them: a queue that is seen, a record that is emitted,
  a probe that may become live late, a reader that may be stuck. The writing of
  every file and line may fail; as in the code, only a failing open is noticed.

## 3. Runs

Eleven runs pass; `xnack_script` shows a violation and is a finding. "Bounds"
says why the instance suffices for the interesting cases; every bound is a named
constant of the module.

| Run | Checks | Bounds |
|---|---|---|
| `aql_account` | `TypeOK`; `Accounting`, `CompletedIsConsumed`: every id is on one account, reported once and not before it is consumed; `NothingOverdue` after a drain; `ImplementsLedger`; `EventuallySettled`: each packet published after priming is reported or dropped, or the queue has ended | 2 slots, 3 packets: a lap, an overrun and a full ring; eviction after 2 failures in a row; over-reservation, late resets and failing reads all on |
| `aql_faithful` | `FaithfulUnlessLapped`: a record is of a published packet and shows the packet of its id, with its type, unless its slot was lapped during the poll; `OnlyLostDropped`: nothing pending is given up and fast-reset dispatches are recovered | 2 slots, 4 packets: two laps; producers wait for room |
| `sdma_window` | `CopyRecordRight`: a copy is decoded with the version of its GPU, from inside the window, with the byte count its producer encoded, and its direction is that of its pages, unless a lookup failed or the page has changed since; `DecisionIsFinal`: what is decided about a partly published packet is not revised when more of it arrives | every opcode of the tables and two others, every sub-opcode with an entry and one without, boundary counts, the code's window of 16; two pages, a cache of one |
| `sdma_ring` | `ReportedInSequence`: copies are reported in order, without a gap, after consumption; `InSync`: the walk stays on packet boundaries until something is skipped; `ImplementsLedger`; `EventuallySettled` | ring of 3 dwords, 5 dwords in all: packets that wrap, are cut and overrun; unknown opcodes, failing reads |
| `probe` | `AnnouncedRight` (in order, once, under rising uids, for the process that created the queue, or in bpftrace mode one that a name in common leads to), `EveryQueueAnnounced`, `LeavesNothing`, `StopReturns`, `LinesHandled`, in all three modes, with and without a pid filter | 3 events of 3 queues of 2 processes, the name of one containing that of the other; two rings at the same address, one queue created by a second thread with another name; reads of any size |
| `tracefs` | `SystemRestored`, `NeverSwitchedOff`, and `QueuesSeenOnce`: a process hands on no queue twice unless its probe's name begins another's, and on a host with tracing on misses none but to another reader | 3 processes: one may come and go between two others; the pid of one begins with the digits of another's; `trace_pipe` with one or several readers |
| `monitors` | `ReportedRight`: calls in order, none skipped, each with the device its file is on while the descriptor has not been reused; `OutputHasEveryReport`: no report after the output is made, so it has all of them where the sink keeps any; `NothingLeft`: no thread, child, descriptor or probe when main returns, nor the tracefs instance unless the AIS monitor ran; `MainReturns`; `CallsReported` | 2 calls (the second uses the cached device), a file and a device node on two drives, lines cut anywhere, every start failing or not, early return or regular end, Stop twice (main and the destructor) |
| `xnack_script` | `ScriptReachable`, violated: bpftrace is given a path that has been unlinked | the product of three small automata |
| `trace` | `PerfettoFaithful` (begins and ends balance, separate slices are shown as recorded), `JsonKeepsOrder` (slices begin in the order of their records, within half a unit of the last digit, and have a length) | 4 records on 2 queues and 2 processes with one AIS track, at times around a change of the last digit's unit: empty, touching, equal, nested |
| `exporter` | `ScrapeConsistent`: what one scrape has collected, family by family, fits together: a queue for the packets counted, an engine for SDMA packets, active AIS for AIS operations, no more copies than packets, one last kernel; `CallReturns` (lock order); `RateDecays`: after the window the rate becomes zero and stays zero | three calls of any threads (a registration and records of two kernels), one scrape among their updates; window shorter than the clock bound |
| `ksym` | `NoFalseMatch`: a wrong name only if the own symbol was missed or the address another's when the entry was made, and only one with the same low bits; `HexOnlyWhenAmbiguous`: the hex label with the symbol found only where low bits are ambiguous; `FootprintRight`: the footprint of a dispatch whose block was not reused is its own where its descriptor declares a size, at least its own in the fixed window, and missing only for a reason of that very read | 2 addresses with equal low bits, one seen elsewhere by the GPU; 2 kernels, with and without a declared size; 2 adjacent blocks, 2 buffers; arguments with a repeated and an inner pointer and longer than the window; scans of any part, code unloaded and addresses reused at any time, every open and read may fail |
| `snoop` | `NoOrphanRecord`, `OutputComplete`, `NoEarlyQueue`, `ChildNotLeftStopped`, launching or watching, in each output mode, with and without a dispatch log; `ShutdownEnds`: main ends, unless the reader is stuck | one AQL, one SDMA and one ignored queue, one record each, of a dispatch or another packet; any file or line may fail to be written, the probe may be late, the reader stuck |

The type invariant of `AqlSnoop` is checked and proved; those of the other modules
with proofs are part of their inductive invariants.
`CHECK_DEADLOCK FALSE` is set because these systems stop: a bounded producer is
done, a stopped thread has ended. That they do not stop early is the subject of
the liveness properties.

### Behaviours met while modelling

The model follows the code in these points, and the properties above state what
holds beside them. They are recorded here because a reader of the code may
expect otherwise.

- *AQL.* On a full ring with waiting producers, a slot's old packet is filed
  under the new id (hence `OverReserve = FALSE` in `aql_faithful`). A consumed
  barrier packet with four dependencies has a non-zero word where a dispatch has
  its kernel object, and is taken for one. Records in flight when a queue is
  evicted are neither reported nor counted. A packet already consumed when it is
  decoded reaches the sink before older ones still in flight.
- *SDMA.* After an overrun the walk resumes in the middle of a packet. For v7 the
  length of a linear copy is not that of v6. Whether the lengths in the tables are the
  hardware's cannot be checked from this repository.
- *Discovery.* The readers of bpftrace and kfd-uprobe read into an empty buffer
  only: a cut line is never completed, and the thread spins until the next Stop,
  which then waits for it (`Stuck`, the exception in `StopReturns` and
  `LinesHandled`). kfd-uprobe takes a new ring at an old address for the old one.
  The kprobe filter compares thread ids with a process id. bpftrace mode compares
  names, the first 15 characters of one anywhere in the other: without a filter an
  event goes to the first process in reach with such a name, with a filter every
  event of such a name is the target's, also one of another live process, although
  `discovery.h:36` says that the filter restricts discovery to one process and
  `discovery.cpp:852` that it guards against misattribution; a thread that has
  renamed itself is missed. kfd-uprobe leaves script and child when bpftrace exits
  while it is being armed (`LeavesNothing` excepts that exit). After 20 s Start
  returns true although bpftrace has not attached, and the command is resumed
  (`NoEarlyQueue` excepts it).
- *tracefs.* A process that found `tracing_on` off turns it off when it ends, also
  under another process that still reads. `hsasnoop_cq_12` is found in the lines of
  `hsasnoop_cq_123`, so such a process announces every queue twice
  (`QueuesSeenOnce` excepts it). A kernel that lets several processes open
  `trace_pipe` gives each line to one of them.
- *XNACK.* The child unlinks its script before it executes bpftrace with that
  path, so bpftrace cannot open it, although the comment above says it keeps it
  open (run `xnack_script`). `NothingLeft` and `MainReturns` hold all the same.
- *Memory footprint.* `ptr_count` counts every argument that is the base of a
  mapping, also the same one twice ("distinct" in `model.h`). A cached descriptor
  of an address space that is gone is kept until another pid is read. Where GPU and
  CPU addresses of code differ, no declared size is found and 256 bytes are scanned,
  which may take in the next block. A block that has been reused when the record
  reaches the sink is read as the dispatch's own.
- *AIS.* The probe fires at entry: records are made before a call completes. The
  device of a descriptor, or that it could not be found, is kept for ever, although
  descriptors are closed and reused ("the device behind an fd never changes",
  `ais_monitor.cpp:169`). Track ids of two processes can coincide. Stop removes the
  tracefs instance while its `trace_pipe` is open, which fails: the directory stays
  after every regular end. In `--all` mode without the exporter the records are
  dropped, as the comment at `main.cpp:372` says.
- *Traces and metrics.* Overlapping slices of one queue swap their ends in
  Perfetto. JSON times have six significant digits: a day after boot the last one is
  worth 100 ms, so packets of a queue that followed each other overlap, although
  `docs/perfetto.md:35` has slices represent the residency in the queue.
  The rate gauge passes through zero in an update.
  One scrape can show durations above launches, a triggered GPU without launches or
  AIS bytes without operations, since the one family is collected before the other.
  The gauge of queues is not decremented when a queue is evicted. In `--all` mode
  `<comm>-<uid>` is announced (`main.cpp:340`) and `queue-<uid>` written (line 791). A
  snapshot that cannot be opened leaves the exit status 0, a trace file that cannot
  makes it 1; a write that fails after the open, to a file or to the dispatch log, is
  not noticed (`OutputComplete` excepts what it held).
- *Kernel names.* If a code object is unloaded before its packet is resolved, an
  address is reused, or the scan misses the symbol, a packet can get the name of
  another kernel with the same low bits. A hex label is cached like a name.
- *main.* The comment at `main.cpp:435-437` expects packets that arrive before their
  queue is registered. `NoOrphanRecord` shows that there are none: `on_queue` hands a
  queue to the parser last.

### Fairness

Weak fairness for each thread of hsa-snoop (the kernel schedules it and none of
its steps waits for ever on something outside), and for what the environment is
known to finish: a producer publishes what it reserved and the GPU consumes what
is published while the process lives (`aql_account`, `sdma_ring`), a forked child
stops itself (`snoop`) or gets on with its program (`monitors`), SIGTERM ends
bpftrace and the arming deadline passes (`probe`), the clock ticks (`exporter`).
Strong fairness is used once: the mapped ring of a living process does not stay
unreadable for ever, because PollSdmaQueue retries an unreadable window without
limit (`sdma_ring`). Nothing is assumed of pointer reads, new submissions,
process exit, users calling Stop, or scrapes.

## 4. Proofs

All for arbitrary constants under the named assumptions of the modules. Where a
theorem needs more of the environment, its ASSUME says so, and the reason is given
here. Every safety property a passing run checks, invariant or action property, is
proved, but `JsonKeepsOrder`.

**`AqlSnoopProofs`**, for any ring size, number of packets and threshold:

- `TypeCorrect`, `AccountingHolds`, `EmittedOnceHolds`, `CompletedIsConsumedHolds`,
  `RefinesLedger`. The accounting is not inductive by itself: it needs that
  samples never run ahead of the pointers they were taken from and `next_id` not
  ahead of the write pointer (`Pointers`), and that the books are empty before
  priming, finite, and have one record per id (`Books`). Lemmas about
  `DecodeSlot` and the emitted sequence feed one lemma per group of actions. The
  refinement uses the same invariant: every poller step maps to Open, Hold,
  ReportAtOnce, Skip, Report or Close, everything else stutters.
- `NothingOverdueHolds`: between the drain loop and the next decode loop no record
  in flight has been passed by the last sampled read pointer (`Drained`).
- `FaithfulUnlessLappedHolds` and `OnlyLostDroppedHolds` need to know what the ring
  shows (`RingInv`): ids are reserved in order, only published ones are consumed,
  a slot is written again only when all its earlier packets are consumed and
  reset, so that it shows its latest packet, and shows a type exactly while that
  packet is published. Arithmetic lemmas say when two ids share a slot
  (`SameSlotLap`, `LapBefore`). Hypotheses: producers wait for room
  (`~OverReserve`), which is what makes an id and its slot agree; for the first the
  GPU resets a header before it moves the read pointer (`~LateReset`), for the
  second reads succeed while the process lives (`~ReadFaults`). Section 3 says what
  the code does otherwise.

**`SdmaSnoopProofs`**, for any ring size, packets and garbage: `ReportsInSequence`,
`StaysInSync` and `RefinesLedger` with dwords as units. The records in flight lie
one behind the other behind `next_id`, in the order of their numbers, and are those
not yet reported (`Flight`); the producer's packets lie one behind the other
(`Contiguous`), which is what keeps a walk that decodes true lengths on boundaries.
Of `SdmaWindow`, for any packets, pages, topology and window of at least seven dwords:

- `DecisionsAreFinal`. Lemma `LengthSettles` goes through the tables: a length found
  with fewer dwords is found with more, and the one length that depends on a later
  dword, that of WRITE, is read from the fourth. Below four dwords nothing is given up.
- `CopiesRecordedRight`. Every entry of `page_host` that is not in doubt says what the
  page is now (`Sound`), and one lookup keeps that true also when it empties the cache
  (`LookupSound`); so the second lookup of a copy cannot spoil the answer of the first.
  A linear copy has at least seven dwords in every version (`LinearCopyLength`), and
  undoing the bias of COUNT within its width gives back the bytes that were encoded
  (`CopyBytesRight`).

**`ProbeReaderProofs`**, for any processes, queues and number of events, in the three
modes, however reads cut the lines:

- `LeavesNothingHolds`: where main is says what of bpftrace there can be (`Place`).
- `EveryQueueAnnouncedHolds` and `AnnouncedRightHolds`. The reader's buffer followed by
  the pipe is the lines of the events from some n on, whole, two units each, and what
  was handled and announced is of events before n (`StreamInv`). With it a line that is
  taken is that of event n and has its text (lemma `TakeLine`); reading moves units and
  changes nothing (`MoveUnits`), an event adds its line at the end (`AddLine`). Beside
  it, no queue has two events in the modes with one per queue, and in kfd mode `seen` is
  the rings of the events handled (`OncePerQueue`, `SeenInv`). That announcements name
  the right process, or a process the code's comparison of names leads to
  (`OwnerInv`), holds for any names; it needs of the system that a thread id that is a
  process's pid is that of its main thread, as kernel ids are. That holds in the run.
  `LeavesNothing` says nothing of a failed start of kfd-uprobe (section 3).

**`SharedTracefsProofs`**, for any number of processes: `RestoresTracefs`, `NeverOff`
and `SeenOnce`. The strengthening says who may be responsible for the switch being
on (`SwitchOwned`), what a process has done to tracefs at each point of its program
(`Footprint`). For the last, the probe of a running process is enabled and every line
it has written is in `trace_pipe`, handed on by it, or was read by another process
(`SeenInv`); a line's probe and queue identify it, so a process that takes only its own
lines takes each queue once.

**`MonitorsProofs`**, for any calls, files and devices, whichever starts fail:

- `MainLeavesNothing` and `OutputIsComplete`: what each monitor has in tracefs, open or
  running at each point of its start and stop (`AisInv`, `XnackInv`), and which monitor
  main can be at (`OrderInv`), the second Stop from the destructor included. Of the
  tracefs instance it is shown that only a monitor that ran leaves it (`InstancePlace`).
- `CallsReportedRight`: until the reader gives up, two pieces of text are in flight for
  each call that fired and is not reported (`StreamInv`), and the cached device is that
  of the file until the descriptor is reused (`DeviceInv`). `FilesAssumption` is all
  it rests on.

**`ExporterProofs`**, for any kernels and number of calls: `ScrapeConsistentHolds`. Every
update has a rank and a call is a sequence of rising rank (`Ranked`, composed along the
concatenations of the calls by `RankedCat`), so that the first pending update is the
lowest and what is left can be treated as a set. `MetricsInv` then says for each
pair of metrics that the bounding one is ahead or still pending before the other
(`CountInv`, `AisInv`, `AqlInv`, `SdmaInv`), and that the series of the last kernel is
there or in the gap between its removal and the next one (`KernelInv`). A scrape is more
than a state: the family that is implied is collected after the one that implies it
(`Places`), and metrics only grow, so what was collected earlier still binds what is
there when the later family's turn comes (`CollectedInv`, `Latched`).

**`KernelSymbolsProofs`**, for any addresses as CPU and GPU see them, any names and
window, any loads, unloads, reuse of addresses and partial scans: `NeverMisnamed` and
`LabelledUnlessAmbiguous`. Names in the tables were loaded with their low bits and bits
are marked only after a collision (`TableInv`); the entry made when an object's own
symbol was found is its name, or the hex label after a collision (`OwnInv`). The central
lemma is what a scan leaves in the tables for the symbols it found (`ScanIsJustified`,
`MissAnswers`). `NamesRightThroughout` carries both over to `MemSnoop`, whose other
steps stutter there. `FootprintIsOwn`: for any arguments, declared sizes, blocks and
buffers, any change of the process and any failing open or read, what the sink reports
of a dispatch whose block was not reused is the footprint of its own arguments if its
descriptor's size was read, covers them if there is none and the window is large enough,
and is missing only for a reason of that read. The invariant is that an intact job finds
its arguments in its block (`JobsInv`); a change marks every job it affects
(`DisturbedJobs`), and a scan reads the own words first, and only them if it has their
number (`ScansOwnArguments`).

**`SnoopProofs`**, for any queues and records: `NoOrphans` (a queue travels from main's
table over the log and the sinks to the parser, so whatever the parser holds is known,
`QueuesKnown`), `NothingLost` (`OutputComplete`: a successful run misses only what an
unnoticed failing write held; needs `NoOrphans`, for a record without a writer would be
dropped, and where each record is between Emit and the output, `Delivery`),
`LaunchSeesEveryQueue` (unless Start gave up waiting for the probe) and
`LaunchedNotLeftStopped` (what the command can be doing at each point of main,
`ChildPlace`).

Of `TraceWriter`, for any records on any tracks: `PerfettoTraceFaithful`. That what is
written is made of the records there are is the easy half (`Written`). The other is
about the order. It is strict and total on the events of a list of records
(`EventsOrdered`), so the rank of an event is a place of its own and no place is left
empty (`Ranks`, by a count of the events up to each). Hence the sorted sequence has the
two events of a record at two places, the begin first, and nothing else
(`SortedEvents`). Mapping each end to the begin of its record is an injection into the
begins before it, and onto them at the end of the sequence: the tracks balance
(`Balanced`). A record that overlaps no other has no event of its track between its own
two, because ends go before begins at one time (`Undisturbed`), so its end closes its
begin (`ShownAsItIs`). None of these lemmas uses the order in which records were added,
so they also cover packets reported before older ones in flight.

Only model-checked: `JsonKeepsOrder`, whose rounding of products and quotients is
nonlinear arithmetic; and all liveness (`EventuallySettled` of both parsers, `StopReturns`,
`LinesHandled`, `MainReturns`, `CallsReported`, `CallReturns`, `RateDecays`,
`ShutdownEnds`), since fairness and ENABLED are outside the prover.

## 5. Not modelled

Option parsing and the choice of a mode (decided before any thread exists); the tables
that name an AIS device once it is found (class codes, vendors, `pci.ids`: data without
state); protobuf, JSON and label formatting beyond the rounding of JSON times, clock
conversion; dashboards, packaging, scripts and examples. prometheus-cpp, bpftrace, the
kernel and the GPU are modelled as the code uses them. Torn reads within a 64-byte slot
are not distinguished: the mixtures are those of a lapped slot. Memory is as the
poller's reads return it, in order; x86 gives that for these loads.

## 6. Plan

Order of work: the AQL parser and its ledger first, since everything reported
comes from it; SDMA on the same ledger; discovery and tracefs; main's
composition; the monitors and outputs; kernel names and process memory. All of
these exist now, every part with state of its own is modelled, and every safety
property a passing run checks but one is proved for all constants. What would come next:

1. A proof of `JsonKeepsOrder`, and of the liveness properties, should a prover for
   fairness be at hand.
2. When the code changes: the map gives the definitions to compare with it, the mutants
   the properties that must still be breakable.
