# Verification of Fibratus

Fibratus collects Windows system events through ETW, enriches them, matches them
against detection rules and forwards them to outputs. This directory holds TLA+
models of the parts of it whose correctness depends on interleavings, timers,
failures, reused identifiers or intricate data, the TLC runs that check them, and
TLAPS proofs of the properties that hold for every size of the system. Source
paths below are relative to `src/`.

## The system

```
 ETW ── trace thread ──► Consumer ─► processors ─► Queue.Push ─► StackwalkDecorator
        (one per trace)      │ number    │ state       │   ▲            │ buckets, mutex
                             ▼           ▼             │   └─ flusher ──┘ (ticker goroutine)
                        sequencer   snapshotters,      ▼
                                    handle queries   listeners: symbolizer, evasion scanner,
                                                                rule engine, YARA
                                                       ▼
                               evts channel ─► BufferedAggregator ─► wq ─► workers ─► outputs
                                          └─► capture writer ─► file ─► capture reader
 rule engine: filters by event type ─► sequence states (FSM, span timers, scavenger)
              matches slice ─► alert senders, kill / isolate actions
```

There are two traces, the kernel logger and the security telemetry one. Each has
its own consumer, queue, decorator and flusher; they share the channel of
events, the processors, the sequencer, the snapshotters and the listeners. So up
to four goroutines, two trace threads and two flushers, are inside
`Engine.ProcessEvent` at a time.

### Inventory

| Component | State | Operations | What makes it correct | What is hard |
|---|---|---|---|---|
| Event queue and callstack decorator (`pkg/event/queue.go`, `stackwalk.go`) | buckets of events by stack id, cache of surrogate process creations, mutex, channel | Push, Pop, push, RemoveBucket, flush | an event is neither lost nor handled twice; callstacks go to events of their bucket; expired events leave; the mutex is released | two threads, calls with the mutex held, a full channel, a lost StackWalk event, wrapped ids |
| Sequence rules (`pkg/rules/sequence.go`, `pkg/filter`) | partials, matches, states map, FSM, deadline and expired marks, span timers | runSequence, next, addPartial, matchTransition, isTerminalState, expire, gc, clear, timer callbacks | the FSM and the maps agree; a terminal state yields one match whose events are joined, bound and in order; nothing stays stuck | four locks taken one after the other, timers, late and early events, several threads |
| Rule engine (`pkg/rules/engine.go`) | index of filters, shared slice of matches | ProcessEvent, appendMatch, processActions, clearMatches | every match is acted on, once | deferred clear after the unlock, early returns |
| Aggregator and workers (`pkg/aggregator`) | slice of events, unbuffered work queue, backoff | run, Stop, worker loop, shutdown | every event gets to an output once and in order; Stop returns | unsynchronised Stop, close while sending, outputs that are down |
| Event consumer and sequencer (`internal/etw/consumer.go`, `pkg/event/sequencer_windows.go`) | sequence number, registry value | ProcessEvent, Increment, Store, Reset, Shutdown | a new event's number is above those queued before it, across restarts too | read and increment apart, so that numbers can repeat; crash between stores |
| Event source and traces (`internal/etw/source.go`, `trace.go`) | trace handles, consumers, queues | Open, Close, watch goroutines | each session that was started is stopped, and Close returns | partial failure of Open, closing twice |
| Process snapshotter (`pkg/ps`) | procs, dirty procs | Write, Remove, Find, FindAndPut, Put, gcDeadProcesses | a live process is found, a dead one goes away | pid reuse, the five second timer, find then put |
| Handle snapshotter, query timeout (`pkg/handle`) | handles by process, one query thread | initial scan, GetHandleWithTimeout | a caller gets the answer to its own query; the scan ends | killing a thread that may have answered, callbacks with a mutex held |
| File system processor (`internal/etw/processors/fs_windows.go`) | pending CreateFile events by IRP, files, stack walks | ProcessEvent, purge | an open gets its own end, callstack and path | lost ends, reused IRPs and file objects |
| Registry processor (`registry_windows.go`) | key names, pending values by process | ProcessEvent, pushSetValue, popSetValue, housekeep | an event gets the key and the data of its own write | several pending values of a process |
| Symbolizer (`pkg/symbolize`) | process handles, symbols, exports | ProcessEvent, pushFrames, syncModules, cleanSyms, Close | a frame gets the symbol of its process and module | reused pids and addresses, late events |
| Filter language (`pkg/filter`, `pkg/filter/ql`) | AST, pool of valuer maps | ParseExpr, eval, operators, mapValuer | a condition means what it says | precedence, negation, mixed integer types, pooled maps |
| YARA scanner (`pkg/yara`) | matched processes | Scan | a matched process is not scanned again, its successor is | pids used again, failing senders |
| Capture writer and reader (`pkg/cap`, marshallers) | offsets, buffers | Write, Read, MarshalRaw, Unmarshal | what is read is what was written | lengths, widths, flags |
| JSON of events (`pkg/event/marshaller_windows.go`) | a stream | MarshalJSON | the text is well formed | commas under every flag |
| Application life cycle (`internal/bootstrap`) | the components | Run, Wait, Shutdown | components close in an order no other still needs | flushers that outlive the source |
| Alert senders, outputs, filament, evasion scanner, transformers, configuration, PE parser, API | caches and connections | see `PROJECT.json` | mostly data transformations and I/O | library and system calls |

`PROJECT.json` lists every component with its status, and under `hazards` the
places in the code that tests would hardly reach, with the properties that
address them.

## Modules

| Module | Models |
|---|---|
| `EventDelivery` | what the queue promises: an event is accepted, then handed on, at last delivered or dropped for a cause |
| `StackwalkQueue` | one event queue with its decorator, trace thread and flusher; implements `EventDelivery` |
| `SequenceState` | one sequence rule, the threads that run it, its timers and scavenger |
| `RuleEngine` | the goroutines in ProcessEvent and the slice of matches they share |
| `Aggregator` | the loop, Stop and the output workers |
| `Sequencer` | the numbers of events over several sessions of the program |
| `EventSource` | opening, watching and closing of the traces and of the processors behind them |
| `HandleTimeout` | queries of handle names by a thread that may be killed |
| `FsProcessor`, `RegistryProcessor` | the two processors that hold events back until another one arrives |
| `Snapshotters` | the process snapshotter with the scan of the handle snapshotter |
| `Symbolizer` | the caches of symbols, exports and process handles |
| `FilterLanguage`, `FilterOperators`, `WildcardMatch`, `ValuerPool` | compilation and evaluation of conditions, the operators, the matcher of wildcards, the values they are given |
| `YaraScanner` | the scans of memory events |
| `CaptureFormat`, `EventJson` | the two forms in which an event leaves the program |
| `MC…` | the events, rules and threads TLC is given; `MCLifecycle` (the queue too) and `MCProcessing` take the behaviours of several components in one run, `MCSequences` those of two instances of `SequenceState` |
| `…Proofs` | the theorems |

The comments in the modules name the functions they model; `map` in
`PROJECT.json` gives the lines for each definition. Definitions named after a
plausible mistake (`KeepMatches`, `FlushedNil`, `NoDefault`…) stand before the
definition they are a variant of and are used only to see that a property fails
when the code is changed that way.

**StackwalkQueue.** A step ends where another thread can get in: before the
mutex is taken, and, since the mutex is held while `Queue.push` runs the
listeners and sends to the channel, at each of those calls (`Listen`,
`RemoveBucket`, `Send`). `mux` is the mutex, `pc` where each of the two threads
is. `Pop` of a StackWalk event is `PopStackWalk`, or `PopSurrogate` followed by
the inner push and `FinishPop` when a brokered process creation waits for the
thread; `PopPanics` is the panic in `MustGetPid` on an event without that
parameter. `flush` is `FlushStart` … `FlushEnd`, one step per event. Process and
thread ids are numbers modulo `WordSize` and `StackID` is their wrapped sum,
since shared buckets matter. Listeners answer `error`, `enqueue` or `skip`.
History variables: `handled`, `lost`, and the field `of` of a StackWalk event.
`EventDelivery` abstracts from buckets, threads and the mutex; `Delivers`
instantiates it with the phase of an event computed from the queue's variables.

**SequenceState.** One action per critical section of `runSequence` and of the
timer callback; `mu` is held across steps only by the loop over out-of-order
partials, as in the code, so other threads, timers, `expire` and `gc` interleave
everywhere else. An event is the set of expressions whose condition it
satisfies, its time, the value of its `by` fields, its partial key, the
processes it is about and the value a bound field compares. `Bound` says which
expression's alias an expression refers to; `Joined` is then
`evalBoundSequence`, which stitches the event to the ones it was compared with,
in the order of the code: the link is added before the event's time is looked
at. The `fsm` library (qmuntal/stateless) is external: a transition is one
atomic step and a transition that is not permitted changes nothing.

**RuleEngine.** The outcome of a filter is a constant of the event
(`Matching`), since sequences have a module of their own. `appendMatch`,
`processActions` and the deferred `clearMatches` each take `mmu` and are one
action each. An alert, the decoding of actions or an action may fail at any
match, which ends the loop. A rule may be indexed twice for an event type: the
filter does not remove duplicates from the names its condition lists.

**Aggregator.** The loop's send and a worker's receive on the unbuffered queue
are one action (`Deliver`); the slice is emptied in a later one (`RunClear`), so
Stop can read it in between. Stop reads the slice header without a lock: pointer
and length may be old or new (`Torn`), and a length beyond the array is a crash.
Closing the queue under a blocked or later send crashes too (`RunPanics`).
Connecting and publishing may fail at any time. Left out: transformers (an
error keeps the event) and the channel of errors (only logged).

**Sequencer.** A consumer reads the number when it creates an event and
increments it later; a CreateFile event keeps its number until the end of its
operation. `Store` is three steps (read, compare, write), taken by the ticker
goroutine and by Shutdown; opening the key and the write itself may fail
(`StoreNoKey`, `StoreFails`). A crash keeps the registry value and loses the
memory; a restart reads the value, or starts at 0 when the key cannot be opened.

**EventSource.** Open starts the sessions in order; each system call may fail,
and what is then left open is part of the state. Close is one action per call
that can block or fail, per trace and per processor.

**HandleTimeout.** Caller and query thread are separate; channels and event
objects survive a killed thread as they do in the code. The kernel may never
answer, and with `HtCallsFail` SetEvent, the wait and TerminateThread may fail.

**FsProcessor, RegistryProcessor, Snapshotters, Symbolizer, YaraScanner.** Each
has a small model of the system that produces the events: operations, keys,
processes and modules whose addresses and pids are used again, sessions that
deliver late, and ETW dropping events. The properties say that what the
component attaches to an event belongs to that event, and list the faults after
which it may not. Heap pointers are kept where sharing matters (`ps` in
`Snapshotters`).

- `FsProcessor`: `findFile` asks the map of files by file key, then by file object,
  then the handle snapshot, which may still have the handle of an earlier file.
- `RegistryProcessor`: a control block the processor does not know is looked for
  among the handles of the process, and the first whose name ends in the relative
  name is taken, the right one or not (`guessed`). The value is read back under
  whatever path was resolved, so it may be that of another key.
- `Symbolizer`: a walk has the process of the event (`ev`, whose pid the exports
  and symbols are stored under) and the process of the address (`of`,
  `StackPID`), which differ for the creation of a process; modules are also looked
  for in the state of the parent and of the surrogate, and the start address of a
  thread (`symbolizeAddress`) goes through the same caches. Each address of an event
  is one step.

**FilterLanguage.** A state is a condition with its tree; the trees and values
are computed by the functions of the parser and the evaluator and compared with
what precedence, negation and full evaluation say. Tokens stand for classes of
tokens.

**FilterOperators.** The sizes of Go's integer types and the rounding to `float64`
are parameters; the run has 1, 2, 3 and 4 bits and `float64` exact up to 2^3, so
that truncation, sign and rounding occur. Strings are sequences of characters of
one byte; of those `matches` is `Glob`, which `WildcardMatch` shows to be what the
matcher decides.

**WildcardMatch.** The loop of `wildcard.Match`, one iteration a step, with `patAt`
and `textAt` for its `p` and `s`. A text is a sequence of bytes, the first of a
character standing for it and the others being `Cont`, so that stepping back by a
byte can come to lie inside a character. `Glob` is the reference: an alignment of
the pattern's characters with the text.

**ValuerPool.** The map a condition is evaluated with comes from a pool and is
not cleared; four fields stand for the ways accessors answer.

**CaptureFormat, EventJson.** The writer's bytes are kept with a base of 8
instead of 256, and the reader reads those bytes at the offsets of the code. The
JSON text is the sequence of brackets, commas, keys and values.

`RECURSIVE` operators occur only in modules without theorems. `MCLifecycle` and
`MCProcessing` combine components; the parts in them share no modelled state, so
a behaviour runs one part (`part`) and leaves the others in their initial state.

## Runs

| Run | Shows | Instance |
|---|---|---|
| `lifecycle` | see below | 117,511 states |
| `processing` | see below | 4,126,722 states |
| `sequences` | an unordered rule: no old mark blocks a sequence (`NotBlocked`); while one thread runs it, the terminal state means every expression matched (`Genuine`), yields one match (`TerminalYields`) and leaves no marks (`Restartable`). An ordered rule: a timer is pending while a sequence with a maxspan is under way (`OrderedSpanArmed`) and it leaves every state (`OrderedSpanBounded`); map and FSM agree (`OrderedStatesPrefix`); matches are joined and in order, but for an event that a clear overtook (`OrderedCoherent`) | unordered: 3 expressions, 6 events in any order, `by`; a second thread may take part in up to 3 of 5 of them. Ordered: 1 thread, 2 expressions, timers, scavenger, terminating processes, 7 events; 604,314 states |
| `queue_selfdeadlock` | **violation** of `Flushed`: `flush` pushes an expired TerminateThread event with the mutex held and `RemoveBucket` locks it again | 3 events |
| `seq_join3` | **violation** of `JoinedMatches`: with three expressions the match can mix events of two processes | 5 events |
| `seq_bound` | **violation** of `BoundMatches`: the match shows an alias event other than the one that was compared | 4 events |
| `seq_deadline` | **violation** of `TerminalYields`: the span timer resets the terminal state and the match is lost | 1 thread |
| `engine_lost` | **violation** of `EveryMatchAlerted`: a match is cleared by another goroutine before any alert | 2 goroutines |
| `sequencer_unique` | **violation** of `SqIdentifies`: two consumers read the number before either counts its event | 2 consumers, 1 session |
| `filter_not` | **violation** of `FlNotAdjacent`: `f and not f and f` is parsed as `f and not (f and f)` | conditions of 6 tokens |
| `snapshot_deadlock` | **violation** of `PsScanEnds`: the two snapshotters wait for each other's mutex | 1 process that ended before its creation is handled |
| `symbolizer_stale` | **violation** of `SyPruned`: symbols of an unmapped module stay in the cache | 1 process, 1 module, 2 addresses |

`lifecycle`:

| Part | Properties | Instance |
|---|---|---|
| queue | `TypeOK`; no event lost unaccounted (`Accounted`) or handled twice (`HandledOnce`, but for an expired surrogate); losses only through a terminated thread or a surrogate (`LostOnlyWith`); callstacks stay in their bucket (`StackFromBucket`); expired events leave (`Flushed`); the mutex is released (`MuxReleased`); the queue implements `EventDelivery` (`Delivers`) | 7 events: a registry event and the end of its thread, a brokered process creation in the same bucket, an event without callstack; ids modulo 8, channel of 1 |
| sequencer | `SqAhead` (`SqFresh`, `SqNoReuse`): a new event's number is above those of all events queued before it, across orderly sessions too; `SqStoredForward`: the stored number goes back only by a write that the other storer's has overtaken; `SqCatchesUp`: what was counted is stored at last, if the registry takes it | 2 consumers, 2 sessions, crashes, failing writes; an event is created while the number is 0 (`SqMax` is 1), which both consumers may do before either counts, so that 0, 1 and 2 are stored |
| source | `EsNoSessionLeft`: Close leaves no session behind, after any partial failure of Open; `EsCloseReturns`: Close returns, and processing errors are reported | 2 traces, 2 processors |
| aggregator | `AgAccounted`, `DuplicatedOnlyByStop`, `StopReturns`, `Drained` | 2 workers, 2 events, channel of 1, backoff at its maximum |
| timeout | `HtAnswer` (`HtAnswerReady`, `HtOwnAnswer`): a query gets its own answer; `HtReturns` | 3 queries |

`processing`:

| Part | Properties | Instance |
|---|---|---|
| fs | `FsAttributed`: own end (`FsPaired`), callstack (`FsOwnStack`), path (`FsOwnPath`), and nothing is held back for ever (`FsForwarded`) | 3 operations on one IRP, file object, file key and thread, 2 faults |
| registry | `RgAttributed`: own data (`RgOwnData`), at most once (`RgPoppedOnce`), own path (`RgOwnKey`) | 2 writes, 2 processes and keys, 2 names of which one ends in the other, 2 losses |
| snapshotters | `PsConsistent`: removed processes stay removed, dirty states have a timer, parents are right | 2 processes, pids reused; a lookup, a loss or the scan |
| symbolizer | `SyAttributed`: own process, own exports, handles owned and closed once | 2 pids, 2 processes, parent and child or one after the other, 2 modules, 2 stacks, 1 loss |
| filter | `FlParsed` (`FlWhole`, `FlGrouped`), `FlEvaluated` (`FlNegation`, `FlLazy`) | every condition of up to 7 of 15 tokens |
| operators | `FoOperators` (`FoNumbers`, `FoTrichotomy`, `FoFold`, `FoAny`, `FoIntersects`) | all pairs of numbers, texts of 2, patterns of 3, lists of 2 |
| wildcard | `FoOperators` (`WcDecides`): the matcher accepts what the pattern means, if no character can be torn | texts of 3 characters of 1, 2 and 3 bytes, patterns of 4 and some of 5 |
| valuer | `VpOwnValues`: a condition with a field of every event sees the values of its own event | 2 threads, 2 maps, 3 events, 3 filters |
| yara | `YsMatches`: a process is spared (`YsSpared`) and alerted (`YsAlerted`) for itself | 2 processes with one pid, 4 memory events |
| capture | `CfReplayed`: what is replayed is what was captured, but for the fields it names | 2 events, the second plain |
| json | `JsWellFormed`: the text is JSON if no parameter is a slice of addresses and the flags fit the process state | arrays of 0 or 2 |
| engine | `ActedBound`, `LostOnlyIfExposed` | 2 goroutines, 4 events, match all, failures |

The bounds are chosen so that each hazard occurs: a bucket with events of two
threads, a full channel, a panic in Pop, two threads in the terminal state, a
span timer that fires in the middle of a match, a slice with the matches of two
goroutines, both outputs down, Stop in every state of the loop, every address
used again, a thread killed just after it answered. Events are finite sets
delivered in any order, each at most once; ETW losing an event is that event not
being delivered, or a step that drops it. `MaxPartials` is 3 instead of 1000,
ids wrap at 8 instead of 2^32. Bounds that cut products are named: `SpawnOrPlain`
and `SharedFew` in the MC modules of queue and sequences, `TwoFaults`,
`OneRead` and `FirstObject` (files), `Canonical` (interchangeable processes and keys)
and `TwoOfThese` (registry), `OneFault`, `FewAddresses` and `FirstPid` (symbolizer) and
`LookupLossOrScan` in `MCProcessing`; the snapshotters without that last bound (4.1 million states) and
conditions of 8 tokens (1.6 million) passed on their own. `sequences` checks
for deadlock; `lifecycle` and `processing` do not, since their parts end: that the
queue is not stuck is what `Flushed` and `MuxReleased` say.

Which events may expire in a bucket is a constant (`Ageable`). A TerminateThread
event does not expire in `lifecycle`, because then the flusher blocks for ever
(`queue_selfdeadlock`); the theorems have no such restriction.
`OrderedCoherent` is checked for two expressions because with three both of its parts
fail: events of two processes are mixed (`seq_join3`), and the scavenger can take
the older partials of a slot and leave one that came after the next slot's. The
sequence properties that two threads break are stated for
one (`Alone`, or one thread in the instance).

### Fairness

- Queue: weak fairness of each thread's steps inside push and flush and of the
  aggregator that drains the channel; strong fairness of the steps that acquire
  the mutex, the flusher's tick among them, since `sync.Mutex` hands over to a
  starving waiter. Nothing is assumed about the arrival of events or callstacks.
- Sequence: weak fairness of the threads and timers, strong fairness of a timer
  callback that waits for the locks, which Go's starvation mode justifies. No
  event is assumed to arrive.
- Sequencer: weak fairness of the ticker goroutine's steps. Consumers and
  restarts are under none. `SqCatchesUp` has the premise that the registry does
  not refuse every write (`SqWritable`).
- Source: weak fairness of the main goroutine's steps, of the watchers and of
  the purgers that wait to quit; a termination signal need not come.
- Handle queries: weak fairness of the caller, whose waits have a timeout; the
  kernel need not answer.
- Aggregator: weak fairness of the loop, of Stop's steps and of backoff timers:
  `select` picks among ready cases at random, and timers fire. Outputs are
  under no fairness; only `Drained` assumes, as a premise (`OutputsUp`), that a
  client that keeps connecting succeeds at last and that publishing returns.
- Snapshotters (`snapshot_deadlock`): strong fairness of every acquisition of a
  mutex, so that the scan is stuck because of the order of locks only.

## Proofs

All for every value of the constants that satisfies the named assumptions in
the modules (finitely many threads, well formed events and flags, bounds that
are natural numbers), unless a theorem names a further one.

- `StackwalkQueueProofs`: `TypeCorrect`, `LockSafe`, `NothingVanishes`,
  `StacksStayInBucket`, `LossesHaveACause`. The invariant `Control` says which
  program counters a thread can have, when it has an event in hand and who owns
  the mutex; `Accounted` is not inductive because the end of a bucket's flush
  overwrites the bucket with what was kept, so `FlushAccounted` says where the
  other events of that bucket are while the flusher holds the mutex. `KeyInv`
  relates buckets, cached surrogates and events in hand to stack ids.
  `OwnerWaitsOnlyOnExpiry` is the complement of `queue_selfdeadlock`: the owner of the
  mutex waits for it in one case only, the flush of an expired TerminateThread
  event. `FlusherExpired` says that what the flusher has in hand has expired;
  with `KeyInv` what Pop pushes under the mutex is the creation of a process.
- `StackwalkDeliveryProofs`: `ListenersOnce` and the refinement `QueueDelivers`.
  `OnceInv` adds to `KeyInv` that an event has one copy on its way to the
  listeners (`OneCopy`): buckets and the flusher's remainder hold no event twice,
  a queued event has not been handled, and the two second copies the code does
  keep, a cached surrogate and a bucket that is being flushed, are the ones
  named there. With it every action of the queue maps to an action of
  `EventDelivery` on one event, or to a stutter.
- `SequenceStateProofs`: `TypeCorrect`, and for any number of threads
  `NeverBlocked` and `AlwaysArmed`; for one thread `SoloStatesPrefix` and
  `SoloAtMostOneReport`, bound fields included. `NotBlocked` is strengthened to
  `Unblocked`, which also covers the terminal state; the solo theorems rest on
  `SoloControl` and `SoloCount`, which relate the thread's program counter to
  the FSM. `EveryMatchReported`, `MatchesRestart` and, for ordered sequences,
  `OrderedMatchesGenuine` hold for a sequence without a maxspan as long as one
  thread has run it (`Lead`); with a maxspan they fail (`seq_deadline`). `AloneInv`
  says that the thread that is in the lead is where the FSM and the marks say it
  is (`Single`), that visits of the terminal state and reports balance
  (`Balanced`) and that the expressions before the current one have been matched
  since the reset (`Honest`). `UnorderedMatchesGenuine` is the same for unordered
  sequences with a by statement, whose loop over out-of-order partials fires without
  asking for the upstream expressions. `JointInv` has what makes up for that: a
  partial with a link stands in a slot whose expression has matched (`Backed`), since
  an event gets its link from a match, and it comes to another inner slot only from
  the first to the second, where it does not wait (`Direct`, `Behind`). With four
  expressions or more this needs `Apart`: no event satisfies two inner expressions
  but the first and the second; without it TLC finds a counterexample (see
  Deviations). `PairsCoherent` is about one thread and an ordered
  sequence of two expressions, with a maxspan or without, by statement, bound
  fields or neither. `PairInv` says that the partials are as old as `lastMatch` but
  for the one being matched, so that a slot has no two of the same time (`Timely`),
  and that a partial of the second slot, unless a clear overtook it, is there only
  in Terminal or behind the marks of a match that a timer took away; no event of
  the first slot is added next to it before the match is collected (`Sorted`).
  Two theorems are about any number of threads, expressions and timers.
  `AlertsSatisfied`: an event of an alert satisfies the expression it is shown for,
  since the loop over partials (`InLoop`), the slots (`InSlots`) and the collected
  matches (`InMatches`) hold only such events whoever clears them meanwhile.
  `SlotsAreBounded`: a slot has at most `MaxPartials + 1` partials and one for each
  key.
- `RuleEngineProofs`: `TypeCorrect`, `SliceBounded`, `LossesExplained`,
  `ActionsBounded`, for any number of goroutines, events and rules and both match
  strategies. `LostOnlyIfExposed` needs `Guarded`: a match in the slice that was
  neither alerted nor exposed meets no goroutine that is about to clear.
  `ActedBound` is a budget (`Budget`): what a match has cost, plus what its copies in
  the slice may still cost the goroutines that have not got to their clear, plus
  the positions of its rule the event has not been run against, never exceeds
  goroutines times positions.
- `RuleEngineProofs`, conditions: `WildcardsDecide` and `OperatorsDecide`, for strings,
  patterns and lists of any length, any widths of the integer types and any
  rounding. `WcInv` has two halves. `WcSound`: the pattern up to `patAt` matches the
  text up to `textAt`, or up to the start of the character `textAt` lies in; it fails
  only when a character of three bytes or more is torn. `WcComplete`: every match
  the text may still have starts at or behind `matchIdx`, and is at `patAt` no
  earlier than the loop, because the pattern between the last star and `patAt` has
  no star and takes as many characters from wherever it starts. That is why going
  back to the last star only is enough. The parts of `FoOperators` need no invariant
  but the shapes of the operands (`FoShapes`). They claim nothing, and so the theorem
  claims nothing, of numbers that the type both are converted to cannot hold, of
  `icontains` with a list on the left and a string on the right, of `iin` with an
  empty string on the left, and of `intersects` being true for repeated elements on
  the right; `WcDecides` does not claim that a text with a torn character is
  accepted rightly.
- `SequencerProofs`: `TypeCorrect`, `FreshNumbers`, `NumbersNotReused` and from
  them `NumbersGoUp`, and the action property `StoredForward`, for any number
  of consumers, numbers and sessions. That numbers are unique is not claimed: they
  are not (`sequencer_unique`). Nor is it that the stored number never goes back: a
  store whose comparison was overtaken by the other storer's write (`raced`) may
  lower it, and the theorem says that nothing else does. `Behind` says that numbers in flight and
  stored ones do not exceed the counter, `Checked` what a store between its
  comparison and its write knows, `Orderly` what an orderly end leaves behind.
- `HandleTimeoutProofs`: `HtTypeCorrect`, `AnswerIsReady`, `OwnAnswer` and from
  them `AnswersCorrect`, for any number of queries. `Called` relates the caller
  to the channels and events, `Ready` the signal of done to the answer, and
  `Faithful` says that handle and answer are in step (`InStep`) unless a system
  call failed. `BlockedOnlyByFailure` is the safety half of `HtReturns`: the waits
  without a timeout, on `in` and `out`, block only after a system call failed
  (`DrainsAfterFailure`).
- `LifecycleProofs`, source: `NoSessionLeft`. `Stopped` says of the traces Close
  has visited what the property says of all at its end. `CloseNeverStuck` and
  `ErrorsReachWatcher` are the safety halves of `EsCloseReturns`. Every closed trace
  closes the chain of processors again and puts a message into the `quit` of each,
  which has room for one and a purger that takes one: `EsChain` counts the messages
  spent (`Spent`) against the closes (`Closes`). So two traces, the number the program
  has, are the most for which Close cannot hang, and the theorem assumes them.
  `EsWatchInv` follows an error from the trace to its watcher.
- `LifecycleProofs`, aggregator: `AgTypeCorrect`, `AggregatorAccounts`,
  `TwiceOnlyByStop`, `PublishedInOrder`. `PlacesInv` says that the channel, the
  slice and the batches are increasing and that the slice is older than the
  channel; `ClearPassed` that the events the loop is about to
  forget were handed over. For `TwiceOnlyByStop`, `OneEach` counts the places of an
  event: published, held by workers, waiting with the loop and with Stop.
  `WorkersBehind` says that what the workers have is older than what waits.
- `ProcessingProofs`: `OwnValues`, `RegistryAttributes`, `SnapshotConsistent`,
  `FramesAttributed`, `FilesAttributed`, `ScansRemembered`, for any number of
  processes, pids, keys, addresses, operations, lost events and so on.
  - Valuer pool: mapValuer writes every field of the filter if it has one that
    every event has (`EveryFieldWritten`), so the old content does not matter.
  - Registry: an internal event is on its way, waits or was popped, and only once
    (`RgOnePlace`), and none disappears without a fault (`RgTracked`). For the key
    there is a history of the control blocks (`KeyHistory`) that starts with what
    the processor knows and follows the events on their way to what the kernel has.
  - Snapshotter: `PsPids` says that a pid has one process at a time, `PsPointers`
    that a state stored or about to be stored under a pid is of a process with
    that pid, `PsEvents` that the end of a process comes after its start and
    before its successor's. No process has the pid 0, which the idle process
    keeps (`PsAssumption`). `SnapshotLocks` says who holds the mutex across a wait for
    the handle snapshotter: one writer alone or readers, with `EnumerateHandles` and
    during the scan, which is the half of `snapshot_deadlock` that the other mutex
    completes.
  - Symbolizer: `SyKept`, `SySymbols` and `SyMods` say for each cache whose an entry
    is, or by which fault it may be stale.
  - File system: `FsUnique` says what operations in flight cannot have in common,
    `FsWaiting` which event waits for a packet, `FsLatest` that the callstack of an
    operation about to end is the latest of its thread, `FsNamed` what the map of
    files says of an object.
  - YARA: `YsEnds` says that the termination of a process that does not run was
    handled, was dropped or is on its way, and is its last event; `YsOrdered` that
    events of a pid come in the order of its processes; `YsSeen` that the scanner
    has seen nothing of a process before the end of its predecessors; `YsRwx` and
    `YsMmap` what an entry, an alert and a scan of either kind then mean.

Every safety property that a passing run checks and that is not about recursive
data is stated by a theorem. `LockSafe`, `SoloAtMostOneReport`,
`SliceBounded`, `PublishedInOrder`, `OwnerWaitsOnlyOnExpiry`, `CloseNeverStuck`,
`ErrorsReachWatcher`, `BlockedOnlyByFailure`, `SnapshotLocks`, `AlertsSatisfied`,
`SlotsAreBounded` and the type invariants other than the queue's are proved and not
listed in a run; TLC found no violation of them on the instances of the runs
before they were proved. `AlwaysArmed`, `SoloStatesPrefix` and `PairsCoherent` are about
the properties that `OrderedSpanArmed`, `OrderedStatesPrefix` and `OrderedCoherent` check
for the ordered instance of `MCSequences`; `AlwaysArmed` covers the several threads that
the instance does not have.

Some proof attempts changed a model. `FsOwnStack` did not hold for several IRPs of
one thread: an event that goes on with the end of another operation also takes
the callstack of its thread's next operation. `YsAlerted` did not hold for three
processes with one pid: one whose termination was dropped can be alerted again
after the entry of a later one is removed. `Chronological` did not hold for an
event that a span timer's clear overtakes between its evaluation and
`addPartial`; the instance had too few events to show it. `FoGlob`, the predecessor of
`WcDecides`, did not hold for characters of three bytes, which the instance did not
have. All four are what the code does; the properties now name these cases (the
third by the history variable `overtaken`), and TLC confirms them on the larger
instances. The fifth was the model's: in `Snapshotters` an event could be dropped
that a blocked `Write` was already handling.

Only model-checked:

- the liveness properties (`Flushed`, `MuxReleased`, `OrderedSpanBounded`, `SqCatchesUp`,
  `EsCloseReturns`, `HtReturns`, `StopReturns`, `Drained`): the prover handles neither
  fairness nor `ENABLED`; the safety halves of `MuxReleased`, `EsCloseReturns` and
  `HtReturns`, that nobody waits for what cannot come, are proved as said above;
- `FlParsed`, `FlEvaluated`, `CfReplayed`, `JsWellFormed`: their modules are recursive
  over the data, which the prover has no induction for.

## Deviations seen while modelling

The nine violation runs each contradict a text of the repository. Some of what
follows contradicts one too; it has no run of its own, the properties claim nothing
there, and the text is quoted:

- `pkg/event/marshaller_windows.go:429`, "MarshalJSON produces a JSON payload for this
  event": the text is not JSON for a parameter that is a slice of addresses, for a PE
  behind threads or images without handles or with gaps, and for PE as the only flag
  with a process that has none.
- `docs/filters/operators.md:125`, "If all elements in the RHS slice are present in the
  slice given by LHS, the operator evaluates to `true`": `intersects` is false when the
  right side has an element twice.
- `docs/filters/operators.md:81`, "`icontains` is the case-insensitive variant of the
  `contains` operator": it is false for a list and a string that `contains` accepts.
  `iin` is true for a list with an empty string on the left.
- `pkg/util/wildcard/wildcard.go:32`, "match exactly one character", and
  `docs/filters/operators.md:137`, "the `?` wildcard matches a single character": behind a star `?` may match one byte of a character
  of three bytes (`*??ab` accepts `€ab`).
- A literal beyond the range of a uint16 or uint32 field is compared with its
  value wrapped around.

The models, and the code read for them, also show the following. Where a property
has an exception, this is why.

- Queue: unrelated threads whose ids have the same sum share a bucket and lose
  events to each other; when ETW drops a StackWalk event, the next callstack of
  the thread goes to the wrong event; an expired surrogate stays in the cache and is
  given to the listeners a second time.
- Sequence: two threads can both find the terminal state and report twice, one
  may clear what the other has matched since, and the terminal state can be
  reached without an event for every expression; a timer of a finished sequence
  can cancel the next one; after the race of `seq_deadline` all marks remain set
  and the rule never fires again; an unordered sequence without `by` can finish
  with no event for an expression; with `by` and four expressions so can one whose
  event waits for the second and the third: matched for the second it has its link,
  so that events of the fourth join it in the third slot, and the mark that would
  let it match there is gone; an event that was evaluated before a span timer
  cleared the sequence and added after it stays in its slot, and a later match can
  show it behind a newer event of an earlier expression; with three expressions the
  scavenger and terminating processes can do the same; the limit on partials is off
  by one (`SlotsBounded`).
- Bound fields: an alias slot emptied by the scavenger while the expression's own
  slot is not leaves a stale value and a nil event for `AddSequenceLink`; several
  aliases are walked in lockstep, so that combinations are missed; the raw match
  of unordered sequences evaluates bound fields although its comment says it does
  not; only the event of the last bound field gets the link.
- Engine: a match may be alerted, and its process killed, once per goroutine.
- Source: with a third trace Close would hang, as the second close of the chain
  already fills the `quit` of each processor.
- Aggregator: events can be published twice on Stop; closing the work queue can
  crash the program; with an empty slice the work queue is never closed; after a
  flush timeout the clients are not closed.
- Sequencer: besides the case of `sequencer_unique`, a CreateFile event that waits for
  its end, and state events queued during a capture, share a number with the next
  event.
- File system and registry: an open that goes on with the end of another operation
  also takes the callstack of its thread's next one; a failed open leaves its entry in `files`;
  a key found by the suffix of a handle's name may be another key, and the value is
  then that key's;
  `pushSetValue` replaces the map of a process although its comment speaks of
  a queue.
- Snapshotters: the collector skips processes it cannot open, contrary to its
  comment; a stale write-back or Put can replace a live successor; the handle
  housekeeper deletes only objects it does not have.
- Symbolizer: `symCachedSymbols` is lowered by the length of an entry that is
  already deleted; exports of the parent's modules are stored under the pid of the
  new process; handles opened after Close, or whose initialisation failed,
  are never released; `addr <= base+size` includes the byte after a module.
- Filter language: what follows an unbalanced `)`, `,` or `|` is ignored; a list
  that mixes literals with other expressions drops the leading literals; the negation of a boolean field or of a negation has
  no value; a macro is no unit before a tighter operator; `not in` binds like
  `not` and weaker than `in`; `f = false` holds when `f` is missing; a sequence of
  one expression is accepted although the message asks for two.
- Operators: for incomparable types both `=` and `!=` are false; `iintersects` can be
  true with an element missing.
- Valuer pool: a filter without `evt` fields can see values of another event when
  no accessor is accessible or a numeric parameter is missing; `Run` never gives
  its map back.
- Captures: strings of slices are read one byte late, addresses of slices come
  back as zeros, binaries are read two bytes early, user and domain are read from
  the start of the process bytes, empty version resources are dropped, arguments
  or environments of 2^16 bytes and strings of 64 KiB do not fit their lengths; a
  Float is written with 8 bytes and read with 4, a Double the other way round, which
  would shift what follows, but no event has such a parameter.
  Not modelled: the writer goroutine may use a released compressor after Close,
  the reader blocks on a full channel of errors with its mutex held, and the
  number of handles is written before handles whose writing may fail.
- JSON: `link_time` is the event's timestamp; the stream is
  shared by the workers.
- YARA: a process whose termination was dropped may be alerted again once the
  entry of a later process with its pid is removed; the maps are unsynchronised between goroutines; a match is stored before
  the alert, so that a failing sender loses the alert of that process for good;
  signatures are cached by base address only.
- Reverse DNS (not modelled): the cache grows to one more than its size and, when
  full, refuses addresses that it holds.

## Not modelled

`PROJECT.json` gives the reason for each component. In short:

- Tables, generated and third-party code: the IANA port list (11,352 lines),
  field, parameter, event and token tables, syscall wrappers and ETW structures,
  and the AMQP broker under `pkg/outputs/amqp/_fixtures` (over 10,000 lines), which
  only a test uses. They have no behaviour of this program to model.
- Accessors (`pkg/filter/accessor*.go`): one `switch` arm per field that returns a
  parameter; `ValuerPool` keeps the ways in which they answer.
- Formatting, configuration and command line: text in, text out, no state.
- Outputs, alert senders, API, service control, filament: calls of libraries and
  of Windows, which succeed or fail in the models of their callers.
- PE parser, evasion scanner, signatures, PEB and memory regions: reads of foreign
  data that leave no state.
- Of modelled components: threads, modules and mapped views of a process state,
  single handles in the handle snapshotter, several aliases in one expression,
  kernel addresses in the symbolizer, compilation of rule files.

The map covers about a twelfth of the repository's lines for these reasons; the
modelled part is the code with state that several goroutines or sessions share,
and the algorithms every event passes.

## Plan

Done: queue, sequences with bound fields, engine, aggregator, sequencer, source,
handle queries, processors, snapshotters, symbolizer, filter language, YARA,
captures, JSON; the abstract queue and its refinement; theorems about all modules
that are not recursive over data, wildcards and operators among them.

Next:

1. `StatesPrefix` for several threads in the parts where it holds.
2. Type correctness of the modules whose theorems only use it inside an invariant
   (`EventSource`, `RegistryProcessor`, `Snapshotters`, `Symbolizer`, `YaraScanner`).
3. An abstract sequence (a match per chain of joined events) that `SequenceState`
   implements for one thread.
4. The capture writer's goroutines and Close; modules and threads of a process
   state; the reverse DNS cache.
