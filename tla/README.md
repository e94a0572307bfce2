# Formal model of telemetry-edge

This directory is a TLA+ development of telemetry-edge: the daemon from its
configuration to its exit, the rule engine, the wire protocol, the catalog, the
output files, and the simulator as the sender. TLC checks small instances;
TLAPS proves for every instance the safety properties of the engine, the engine
task, the daemon, the writer, the decoder, the catalog and its sender, and the
startup. `PROJECT.json` lists the components, the runs, the source lines every
definition stands for, the hazards and the theorems.

## The system

`telemetryd` receives UDP datagrams, decodes them against a signal catalog,
feeds the samples to a rule engine and writes the records the rules log to
size-rotated NDJSON files.

```
 simulator --UDP--> ingest task --sample channel (4096)--> engine task --record channel (4096)--> output thread --> files
                        ^                                    |  clock, deadlines
                        +---- stop (watch) ---- main --------+-- joins, 10 s drain timeout
                                                  |
                       config, catalog, rules ----+ (loaded and compiled before the tasks start)
```

| Component | State | Operations | Interacts with |
|---|---|---|---|
| rule engine (`rules/src/engine.rs`) | latest sample per signal, active rule set, last logged value and timer per rule id, index of on_change rules per signal | `apply_ruleset`, `on_sample`, `tick`, `next_deadline_ms` | called by the engine task; reads the clock |
| rules and conditions (`compile.rs`, `condition.rs`, `lib.rs`) | immutable once compiled; a stack and a set of signals while a condition is checked | validate, compile on a thread with a big stack, evaluate | catalog; engine |
| engine task (`engine_task.rs`) | its place in the loop, the sleep, the report timer | receive, tick, emit, sleep | both channels; engine; clock |
| daemon (`main.rs`, `ingest.rs`) | two bounded channels, a stop watch, the position of each task | load, receive, send, signal, join, drain, exit | tokio runtime, OS signals |
| output (`output.rs`) | BufWriter, size counter, files `telemetry.ndjson[.n]` | `write_line`, `rotate`, `flush`, `sync`, `open` | file system; record channel |
| wire protocol (`protocol/src/wire.rs`) | cursor over a datagram | `decode_packet`, `decode_value`, `encode_*` | catalog; ingest; simulator |
| catalog (`catalog.rs`) | signals by id and name, enum tables | `new`, lookups | wire, compile, main |
| config, rule set documents | none | parse, validate | main, compile |
| simulator | a vehicle; a share of malformed packets | encode, corrupt, send | wire, catalog |
| cloud | none: a scaffold | - | - |

What is hard here: state that must survive rule-set swaps exactly when a rule's
definition is unchanged; timers of a task that may be late; comparisons with the
last *logged* value under slow drift and suppressed logs; backpressure through
two queues; a shutdown in which each stage must end after the one before it and
may be cut short by a timeout, a panic, a failing disk or one that never
answers; rotation and crashes in the middle of a file operation; a cursor that
must keep its place past frames it cannot use; numbers at the edge of a wire
type or of a float; a hand-written walk of a syntax tree. The `hazards` of
`PROJECT.json` name the lines.

What makes each component correct:

* engine: every active rule has the state its definition implies; drift is
  bounded by the deadband; no bursts; a swap keeps the memory of unchanged
  definitions and of no other; each sample and tick logs exactly what the rules
  document says.
* engine task: it never sleeps past a timer, and neither samples nor timers nor
  a full channel starve the others.
* daemon: no sample or record is lost, repeated or reordered without a cause;
  stages close in order; a signal or a failed socket ends the process.
* output: retained files are a contiguous suffix of the lines in order, of
  bounded size and number; a failed write or a crash damages at most one line.
* wire and catalog: every byte and frame is accounted for once; what is received
  is what was sent; every signal and label of an accepted catalog can be used.
* startup: a set is accepted exactly if every check passes, failures are
  reported for the rules that fail and for no others, and what is accepted is
  what the engine assumes.

## Modules

| Module | What it is |
|---|---|
| `Rules` | a compiled rule and what it means: saturating arithmetic, deadband, maximal age, when a condition passes or fails, with the assumptions on the constants |
| `RuleContract` | what the engine promises, keyed by rule *definitions*: no ids, no positions, the next slot of a timer left open within bounds |
| `RuleEngine` | `engine.rs`: one action per operation; the safety properties; the refinement mapping to `RuleContract` |
| `RuleEngineHistory` | `RuleEngine` with a history of what each definition emitted, and properties about what a reader of the records sees |
| `EngineTask` | the loop of `engine_task.rs` around `RuleEngine`, between its two channels and the clock |
| `Daemon` | the tasks, channels and shutdown of `telemetryd` |
| `RotatingWriter` | `RotatingWriter` of `output.rs` with the BufWriter and the files under it, one step per file operation |
| `Catalog` | which catalog documents are accepted, and the tables of an accepted one |
| `Wire` | `wire.rs`: conversions and `encode_packet` as operators, `decode_packet` as a walk, one step per frame |
| `Simulator` | `Wire` with a sender: frames of a vehicle, and every malformed variant of `garbage.rs` |
| `Startup` | configuration, catalog and rules loaded by `main.rs`; `compile_ruleset` rule by rule and node by node |
| `MC...` | the instances TLC checks |
| `RuleEngineProofs`, `RuleEngineHistoryProofs`, `EngineTaskProofs`, `DaemonProofs`, `RotatingWriterProofs`, `RotatingWriterLayoutProofs`, `WireProofs`, `StartupProofs` | the proofs |

How they compose: `EngineTask` extends `RuleEngine`, whose operations are its
steps; `Simulator` extends `Wire`, which extends `Catalog`; `Startup` extends
`Catalog` and states with an instance of `Rules` that what it hands to the
engine is what the engine assumes. `Daemon` and `EngineTask` are two views of
the same task: `Daemon` has its end and its faults and leaves open what the
engine makes of a sample; `EngineTask` has the engine and its timers and no end.

### How the engine model corresponds to the code

The variables are the fields of `struct Engine` (`latest`, `state`,
`on_change_by_signal`; `ruleset` is the field `rules`), the clock (`now`) and
the `EvalReport` the last call returned (`report`). `ApplyRuleset`, `OnSample`
and `Tick` are the three methods, `NextDeadline` the fourth. They run under
`&mut self`, so each is one step; time passes between calls (`Advance`).

Abstractions, all of data: a numeric value is an integer and an enum or bool a
label; a condition is the signals it reads with the valuations on which it is
true and those on which its evaluation fails; a `Vec` of positions, which is
always built in increasing order, is its set; a report holds at most one entry
per rule and is three sets. VIN, model name, unit and error texts are left out.
`RuleSets` is any set of compiled rule sets: validation (unique ids, mode
fields, positive intervals) is the assumption `RuleSetAssumption`, and
`EngineGetsRuleSet` of `Startup` checks that `compile_ruleset` establishes it.

### How the engine task model corresponds to the code

A turn of the loop is `TurnTick`, as many `Emit` as the report has records,
`Sleep` (which computes the sleep from the deadline *after* the records are
sent, as the code does) and one branch of the `select!`: `Recv`, `SleepEnds` or
`ReportTimer`. `ReportTick` is the clock of `report_timer`, which is tokio's and
not the engine's: its period is abstracted, so it may tick in every turn, and it
goes on when the engine's clock has reached the bound of the run. The select may
take any branch that is ready.
`Receive` is the other end of the sample channel and may go on without end,
since a sample has no number here. `arrived` is a history of when the sample
that the engine holds for a signal was received. `main` applies the rule set
before it spawns the task (`Apply`); there is no swap after that in this
version of the daemon.

### How the daemon model corresponds to the code

Every `await` is a guard and the code between two awaits a step. Samples and
records are numbered in the order they come into being, so sequences show loss,
repetition and reordering. What the engine makes of a sample or a tick is any
number of records up to `MaxBatch`. The writer is a buffer in front of a disk;
a write may flush what was buffered (a full BufWriter, a rotation), fail, or
not return while `hung`. `blame` collects the faults of the behaviour, so that
properties can say which losses have a cause. When `main` returns, `#[tokio::main]`
drops the runtime: tasks are cancelled at an await (`CancelIngest`,
`CancelEngine`), a blocking thread is waited for (`Exit`).

### How the writer model corresponds to the code

`files`, `buffer`, `size` and `handle` are the directory, the `BufWriter`, the
counter and the open file, which keeps its identity through renames. A call of
`write_line` is the steps from `WriteLine` to `WriteNewline`; the loop of
`rotate` is `Rotate`, the `Shift...` steps and `Create`. `exists` is part of the
step it decides. The operations of the BufWriter (`Put`, `Flushed` and their
failures) follow its documented behaviour: a line that does not fit makes room
first, one that fits in no buffer bypasses it, and bytes that a failed write
has written leave the buffer. A byte is the number of its line, so contents
show what is lost, repeated, torn or glued. `safe` holds the lines that
`write_line` acknowledged and that a flush or a rotation has since written.

A crash is the end of the process: it loses the buffer but nothing that was
given to the operating system. Power loss, against which `sync` exists, is not
modelled.

### How the wire model corresponds to the code

`buf` and `pos` are the slice and the cursor of `Reader`, `out` the
`DecodedPacket`, `status` the point the decoder has reached or the
`PacketError` it returned. `Header` is everything before the loop,
`FrameTruncated` and `FrameRead` the two ends of a turn of it, `Finish` what
follows. `Arrives` is the `recv_from` that hands it a datagram; `DecoderSpec` is
the decoder by itself, on any bytes the network may deliver, and is what the
proofs are about. Every field keeps its place, its order and its checks; its width is a
constant, so that all datagrams of a small format can be tried. A byte has
`BASE` values, integers are read and written by two's complement in these
bytes, and `try_from` is membership in the range of the type.

Every finite `f64` is a multiple of the smallest positive one (2^-1074), and is
kept as that multiple; the number 1 is `ONE` of them. So fractions, scales below
one and quotients are integers of the model. `F64(a, b)` is the float nearest to
`a/b`, the even one of two: a multiple of the distance of the floats around it (a
member of `Ulps`), which is 1 up to `EXACT` (2^53 units, where the subnormals and
the first normals lie); beyond `FloatMax` it is `NonFinite`. Each operation of the
code is one such rounding of its exact result, in the order of the code: the
difference and the quotient of `encode_value` (`Scaled`), the cast of the raw
integer, the product and the sum of `decode_value` (`Physical`). `Round` is
`f64::round`, half away from zero, of the quotient *after* it was rounded;
`Saturated` the cast to `i128`; `AsF32` the cast to `f32`. `Floats` says what
number a payload of a float type holds. Left out is only the sign of a zero:
`-0.0` and `0.0` are two payloads of the same number, and `encode_value` may be
taken to give either, so that a zero comes back as a payload that reads as zero.

`Simulator` picks a reading for each signal of the catalog it knows, encodes
them and sends the packet as it is or in any malformed variant `garbage.rs` can
produce from it: every cut, every patched version, the id the search finds,
random bytes over a small alphabet. A value or a packet that cannot be encoded
ends the simulator (`?` in `main`), so it sends nothing. `SignalDefs` and
`SignalValues` are the types serde gives a definition and a value. That the
decoder takes the steps of `DecoderSpec` is a theorem (`SimulatorDrivesDecoder`).

### How the startup model corresponds to the code

`phase` goes through `main.rs`: configuration, catalog, rules (each of which may
end it), then `compile_ruleset`: the checks of the set, one `CompileRule` per
rule, and for a condition one `Visit` per node of its syntax tree, with the
explicit stack of `check_ast`. A condition is its length and its tree, which is
the sequence of its nodes, each with the indices of its arguments; the parser is
external, `None` is a condition that is blank or does not parse. That what it
returns is a tree (`IsTree`) and that numbers have the types serde gives them is
`StartupAssumption`. A call with a target, which the code refuses, is an operator outside
`AllowedOperators`. The rule-compiler thread of `with_big_stack` may fail to
start or panic in the parser (`ThreadFails`). `active` is the version an update
would be compared with; `main` passes none, the library accepts one.

## Runs

| Run | Instance | Shows |
|---|---|---|
| `engine` | 2 signals (speed 0..2, gear P/D), 4 rule sets with 7 rules, 2 vehicle timestamps, time 0..5, u64::MAX = 6 | `TypeOK`, `NoDeadRule`, `DriftBounded`, `TickQuiesces`, `DeadlineExact`, and `ImplementsContract`: the engine refines `RuleContract` |
| `engine_history` | the same, one timestamp, time 0..4 | `RateBound`, `LastLoggedIsLastRecord`, `LogsOnlyChanges`, `CaughtUp` |
| `engine_task` | 2 periodic rules and an on_change rule on one signal, a sample queue of 2, a record channel of 1, time 0..3, a report timer without end | `SleepsToDeadline`, `SlotServed`, `QueueMoves` |
| `engine_task_age` | the same | violated: see Findings |
| `daemon` | channels of 1, 3 samples, 3 records, batches of 2, every fault | `TypeOK`, `RecordsAccounted`, `SamplesInOrder`, `LossHasCause`, `CleanExit`, `ClosesInOrder`, and no deadlock |
| `daemon_live` | channels of 1, 2 samples, 2 records, socket errors, a disk that hangs and recovers | `SignalExits`, `IngestFailureExits`, `SamplesEvaluated` |
| `daemon_drain_bound` | a disk that may never answer | violated: see Findings |
| `writer` | 1 or 3 files of 4 bytes, a buffer of 3, five lines of 1 or 4 bytes, two faults of any kind | `TypeOK`, `ShedsOldestFirst`, `KeepsHistory`, `SizeBounded`, `DamageBounded` |
| `writer_limit`, `writer_files` | the same with failing writes only, or with a changed configuration only | violated: see Findings |
| `simulator` | bytes of 8 values, datagrams of 15 bytes and 3 frames, catalogs at every edge of validation, every malformed variant, short random datagrams | `TypeOK`, `BytesAccounted`, `FramesAccounted`, `KindHitsItsPath`, `CatalogUsable`, `RoundTrip`, `EncodesBack` |
| `startup` | good and bad configurations and catalogs, every single rule over small fields, every syntax tree of up to 4 nodes, every set of up to 4 rules of a pool of 6, with at most 3 rules allowed | `TypeOK`, `ReportsExactly`, `EngineGetsRuleSet`, `CompiledFaithfully`, `Ends` |

Why the bounds are enough. The engine treats rules independently, so what
matters is which pairs of definitions meet in a swap: the four sets give the id
`a` an on_change rule and two periodic ones, the id `b` rules on two signals,
keep rules at other positions, and drop them. Values 0..2 with a deadband of 1
let a signal drift by two steps of which neither exceeds the deadband. Time up
to 5 with intervals of 1, 2 and 3 leaves room for missed slots; the rule `q`
and `u64::MAX = 6` make both saturating operations saturate.

In the engine task, a queue of two and a channel of one let a sample wait behind
another while a report of two records blocks on the channel past a deadline;
time up to 3 holds a slot of each periodic rule that is served and one that is
late.

In the daemon, channels of 1 with datagrams of 2 samples make every sender wait
with work in hand, which larger channels only make rarer; three samples and
records suffice to see one lost or overtaken between two others. The proofs
below need none of these bounds.

In the writer, a file holds two short lines or one oversize line; a line of one
byte may fill the buffer exactly, so that its newline needs room and may fail,
and a line of four bypasses the buffer. Five lines make four rotations, one
more than three files need to shed a line, and two faults let a second one meet
what the first has left (a gap in the names, a torn tail, an open file that was
renamed).

In the simulator, 15 bytes hold three frames of one byte or two larger ones, so
a frame that is skipped stands before one that must not be misread, and are
passed by up to three bytes. Types of one,
two and three bytes, both byte orders, an enum with two keys of the same
integer, and values on both sides of every limit of their type appear. An `f64`
has a mantissa of five bits and units of 1/32 (`EXACT = ONE = 32`), so most of
the 512 values of a u64 are rounded, and so are most quotients. `odo` with scale
96 (that is 3) and reading 800 (25) is the small form of a value just below 2^53
with scale 3: the quotient 8 1/3 becomes 8.5 in the `f64`, is rounded to 9, and
27 arrives, which is more than half a step away. `odo` with scale 4 (1/8) and
reading 9216 (288) has the quotient 2304, which passes the `i128` of the instance
(`I128Max = 1023`): it saturates and is then rejected, and a cast that wraps
instead is a mutant of `RoundTrip`. A scale of 3200 (100) takes a decoded u64
beyond the largest float; `soc` has a scale of 1/32, the smallest positive float.

In startup, trees of four nodes make every shape in which a node has children
beside a sibling of its own, with a limit of two levels both kept and passed. A
set of four rules of the pool has duplicates that are and are not neighbours,
and is one more than allowed.

The rates of the on_change rules are not counted in the history, because they
have no bound.

### Fairness

The safety runs assume none.

* `daemon_live` assumes that a task that can go on does (weak fairness of each
  step) and, because `tokio::select!` picks a ready branch at random, strong
  fairness of the branches that compete with others: the engine's `recv`
  against its timers and ingest's `stop` against datagrams. The drain timeout
  fires if main waits for it. Datagrams, signals and faults are not assumed.
  `Recover` is fair in `daemon_live` only: a disk that hangs answers in the end.
* `engine_task` assumes that the task is scheduled and that the output thread
  takes records in the end (weak fairness of `Task` and of `Output`), and strong
  fairness of `Recv`: the select is not `biased`, so it starts at a branch taken
  at random and one that is ready time and again is taken in the end.
  `QueueMoves` needs that. Without it, a loop so slow that a timer is ready in
  every turn may take timer branches for ever, and the run refutes the property;
  a biased select with the timers first is its mutant. `SlotServed` does not: a
  turn ticks before it waits, whichever branch ended the one before, and the
  timers are given no fairness. Nothing is assumed of samples or of the clocks.
* `startup` assumes only that sequential code goes on (weak fairness of `Next`).

## Findings

`daemon_drain_bound`: `main.rs` documents `SHUTDOWN_TIMEOUT` as the "Upper bound
on draining queues and flushing files at shutdown." The timeout only ends main's
wait. When main returns, the runtime is dropped, and that waits for the
`spawn_blocking` thread of `output.rs` without a bound; if a file operation does
not return, the process does not end. (The `ingest.await` of `main.rs:149`,
before the timeout, is unbounded for the same reason: ingest may be waiting for
room in a channel that the blocked output thread no longer drains. tokio keeps
its SIGINT handler installed, so a second Ctrl-C does not help.) The bound the
comment claims holds only if every file operation returns.

`writer_limit`: `output.rs:49` says of `write_line` "Rotates first if the line
would push a non-empty file past `max_bytes`." The counter it tests is advanced
after the newline. If a line fills the BufWriter exactly and the flush that
makes room for its newline fails, the line is written but not counted: a later
line is appended to a file that is already too large for it. The same failure
glues the next line to the one without a newline; `DamageBounded` shows that
each fault damages at most one acknowledged line in this way, as each crash
does with the torn line it leaves.

`writer_files`: `config.rs:40` says of `max_files` "Total files kept, including
the one being written." Neither `open` nor `rotate` touches an index that the
current `max_files` excludes, so after a restart with a smaller value the files
beyond it are kept for good.

`engine_task_age`: `docs/RULES.md:46` says a periodic rule logs a value "provided
it was received within `max_age_ms`", and line 38 that the engine keeps "the time
the daemon received it". `on_sample` stamps the value with the clock when the
engine takes it from its queue. A value that waited there, because the task was
scheduled late or blocked on a full record channel, passes for a fresh one and is
logged although the daemon has held it for longer than `max_age_ms`.

Two sentences are less exact than the code, without the code doing anything
wrong. `docs/RULES.md:80` says "Every failure is reported at once": of each rule
the first failure is reported, and the rules of a set that is too large are not
examined; `ReportsExactly` states what is reported. `wire.rs:349` calls
`encode_value` the inverse of `decode_value`: it is except for labels whose keys
are the same integer ("1" and "01" of an enum) and for numbers whose roundings are
not below a step of their scale, as `EncodesBack` states; the other way, a number
is not always sent as the step nearest to it, since the quotient is rounded to an
`f64` before it is rounded to an integer, as `RoundTrip` allows for.

## Proofs

Every theorem holds for all constants that satisfy the named assumptions of the
module it is about. The argument is the same in each: an inductive invariant,
checked by TLC before it was proved, with one lemma per action.

**Engine** (`RuleEngineProofs`). `TypeCorrect`, `NoRuleDies`,
`DriftIsBounded`, and, after a tick, `TicksQuiesce`: every timer lies in the
future. `IInv` is the conjunction of the three invariants of the state and of
`IndexExact`, that the index is the one of the active rules: it is no property of
a run, since only `apply_ruleset` touches the index. None but the types is
inductive alone: `NoDeadRule` needs the types of the timers; `DriftBounded`
needs the exact index, since a rule missing from it would not see the sample,
and the types of the values; `TicksQuiesce` needs `NoDeadRule`, since only a
periodic rule may have a timer. Two lemmas, `SampleLogs` and `TickRule`, turn
what the code does by position and id into what it does to a definition;
uniqueness of ids within a set (`DefOfRule`) is what makes this sound.

**Refinement** (`RuleEngineProofs`). `EngineImplementsContract`: `Spec`
implies `ImplementsContract`. The initial state maps to the contract's, a clock
step to `Elapse`, `ApplyRuleset` to `Swap`, `OnSample` to `Receive`, `Tick` to
`Poll` (lemmas `AdvanceRefines` to `TickRefines`). `IInv` is needed throughout:
the exact index makes the rules a sample wakes those the contract names,
`NoDeadRule` makes a due position a due definition, and the types of the timers
bound the slot a tick chooses.

**History** (`RuleEngineHistoryProofs`). `RateIsBounded`,
`LastLoggedIsRecorded`, `OnlyChangesLogged`, `SamplesAreCaughtUp`. The rate is
not inductive: a rule whose timer were due too early would pass it with its next
record. `HInv` therefore leaves room in each timer for one record more
(`InTime`): a rule with `count` records is next due at least `count + 1`
intervals after its birth, or never, its timer having saturated.

**Engine task** (`EngineTaskProofs`). `TaskIsEngine`: the loop with its queues
implements the specification of the engine, so every theorem above holds in the
task (`NoRuleDiesInTask` is one). It needs that the queue holds only samples of
the catalog. `NeverOversleeps`: the sleep ends no later than the next deadline;
it needs that deadlines are times, and that nothing moves them while the task
waits. `DeadlineIsExact` is the other half: a tick before the deadline does
nothing, a later one moves it. It needs that timers lie in the future after a
tick (`TickFuture`), and that a set of times has an earliest one.

**Daemon** (`DaemonProofs`). `TypesAndCapacities`, `RecordsAreAccounted`,
`SamplesStayInOrder`, `EveryLossHasCause`, `ExitIsClean`, `StagesCloseInOrder`.
The parts of `DInv` beyond these: `Emptied` says at which points of its loop a
task holds nothing, without which a stage could end with work in hand;
`MainInOrder` ties main to the tasks it has joined, which turns an exit into
"all have ended", and says that only a failed signal handler lets main cancel an
ingest that runs, without which the drain could miss samples; `InTurn` and `NothingLost` are `ClosesInOrder` and
`LossHasCause` made to survive the faults they excuse; `SamplesCounted` keeps
counters consistent when a fault has dropped samples; `Accounted` strengthens
`RecordsAccounted` with what it means that nothing is lost: the records on disk,
in the buffer and on their way are *all* numbers in order. A clean exit is then
a trail that consists of the disk alone.

**Writer** (`RotatingWriterProofs`). `OpenFileHasName`: `TypeOK`, of which the
hard part is that the file that is written to is in the directory, whichever
operation of a rotation fails and wherever the process is killed; and
`OpenFileIsNewest`: no file stands in front of it. Each needs the other: a shift
removes what is in its way only if there is a newer file, and the open file has
none in front of it. `InCall` says that there is a line while one is written.

`ShedsInOrder` states `ShedsOldestFirst`. It needs two more invariants, together
`Ordered`: no file stands beyond `max_files` (`WithinLimit`), so that what a
shift removes at the last index is the oldest file; and inside the loop of
`rotate` the buffer is empty and only the first turn may find a file at its
index (`Shifts`), so that nothing but the last index is ever removed. The
contents of all files are a concatenation, which is recursive; the lemmas treat
it as the sequence `j` of its partial results (`Joins`), of which `FlattenSeq` is
the last (`FlattenJoins`), and show what becomes of it if one file grows, moves
up or is emptied (`FlattenGrows`, `FlattenMoves`, `FlattenSheds`). Induction over
the number of files is the argument that a set of indices that contains the
first and with each one the next contains all (`Along`).

`HistoryIsKept` states `KeepsHistory`. Neither half of its invariant `History` is
in the property. `GapsCounted`: a name without a file in front of a file is a
*gap*, and there are no more gaps than faults, not counting the index the loop
has come to; a fault in the loop is what leaves that one behind.
`ShedsWhenFull`: every byte of every acknowledged line is in the log, and of
every flushed one in a file (`Complete`), or at most as many names are without a
file as there were faults (`Full`). The step that matters is `ShiftRemove`: the
file it removes stands at the last index, so every other missing name is a gap,
and `GapsCounted` becomes `Full`. A rotation without a fault moves a gap towards
index 0, where the new file closes it.

Both assume that `max_files` stays: `"reconfigure" \notin Faults`. Without this
both are false. After a restart with a smaller value the files beyond it stay
(see `writer_files`), and the next shift removes a file in front of them, which
is not the oldest; after one with a larger value names are missing that no fault
has emptied.

**Layout of the files** (`RotatingWriterLayoutProofs`). `SizeIsBounded` and
`DamageIsBounded`, for every limit, every length of line, every fault and every
later configuration: unlike the two above they assume nothing about
`"reconfigure"`. They do assume `MaxBytes >= 1` (`SizeAssumption`;
`config.rs:65` demands 1024): after a crash a file may hold nothing but the
newline of a lost line, which no smaller limit would admit.

`SizeBounded` is not inductive: `size` is what the limit is compared with, and it
says nothing of bytes that are still buffered, are torn, or belong to a line
whose newline failed. `Sized` has what is missing. `Counted`: the acknowledged
bytes of the open file, buffered ones included, are no more than `size`, which
is why a line that fails after its bytes are written may leave `size` behind
without harm. `Room`: at every point of a call in which the line is to be
written, it still fits, or the file counts as empty. `Drained` and `Fresh`: the
shifts of a rotation and a restart find the buffer empty, and until its bytes
are written the line in hand is in no file. `Held` is the property itself.

`DamageBounded` says that each fault costs at most one acknowledged line, the one
it glued to its debris. `Laid` keeps a set of the damaged lines (`Damaged`): no
more of them than faults (`Paid`), and every other acknowledged line stands
whole, after the start of its file or a newline and before a newline
(`Spared`). A fault is paid for when it leaves debris at the end of a file or of
the buffer, and used when the next line is appended to it; between the two the
invariant holds it in reserve (`Torn`). `Once` says that no line is in two files,
so that what a shift removes or a fault glues concerns one file only, and
`Pending` that the line whose newline is due is what the open file ends with.

**Wire** (`WireProofs`). `DecoderTypes`, `EveryByteAccounted` and
`EveryFrameAccounted`, for `DecoderSpec`: any datagram of bytes, any catalog, any
widths. `WireAssumption` has the types of the constants, and that the names of
outcomes are not `None`. `DInv` keeps, once the
header is accepted, that the bytes the cursor has passed are `PacketBytes` of the
frames read; that a frame is read only while the header counts more of them; and
for each outcome that its frames are counted (`Counts`) and stand in the output
at their rank among them, with what they were decoded to (`SamplesInOrder`,
`ErrorsInOrder`), with at most one error after them (`LastError`). The step is
`FrameAtCursor`: encoding what the
cursor reads gives the bytes it read, because `ToBe` undoes `Be` (`ToBeOfBe`),
and `FrameBytesAppend` adds it to what was passed. The recursive functions of
the model (`Be`, `ToBe`, `FrameBytes`) exist by `Iterate`: a set of lengths for
which there were none would have a least element.

**Catalog and conversions** (`WireProofs`). `CatalogsAreUsable`: the validation of
`Signal::new` and `Catalog::new` is enough for every label of every enum to
survive the wire. It rests on `EnumPayload`, and that on the two's complement of
any width: an integer of the range of its type, written and read in either byte
order, is itself. `EveryValueEncodesBack` is the other direction, from any
payload that arrives: every bool and label, every number whose value was computed
without rounding (`ExactlyPhysical`, lemma `ExactBack`), and every integer, however
its value was rounded, as long as eight units of that value are no more than the
scale (`Apart`, lemma `ApartBack`): the quotient is then within half a step of the
raw integer. This is the case of catalogs with scales like 0.01.

**Sender** (`WireProofs`). `EveryPacketArrives` and `EveryKindHitsItsPath`, for
every accepted catalog and every reading. `SInv` says where a datagram comes from
(`Origin`): it is the packet of encodable values of the catalog, or what its
`kind` makes of it. `SimulatorDrivesDecoder` follows, and carries over every
theorem about the decoder. `WInv` is an invariant of the decoder alone: it has
taken the header for what it is, and for any frames whose packet agrees with the
datagram as far as both go, what it has read are the first of these frames
(`Walks`); it ends only behind the last one or where the next is cut (`Ended`).
Each kind of malformed packet agrees with a packet of frames that are known: its
own, cut in the last one, with a longer first payload, with an unknown frame in
front, or with bytes behind. What the decoder makes of them then follows from
what it makes of a frame (`FramesAccounted`) and of a value (`NumArrives`).

Numbers pass through several roundings, and each is part of the statement:
`Received` allows, for the roundings on the way, four units beyond half a step of
the scale to an integer type, eight beyond the distance of the nearest one to an
`f32`, and four to an `f64`, where a `Unit` is the distance of the floats at
`Span`, the sum of the value, the offset and the scale. `FarFromOverflow`
excuses packets with a value for which eight times the span passes the largest
float. A rounding is off by at most half a unit (`F64Near`) and a float rounds to
itself (`F64Back`); units at most double when a number does (`UnitFacts`). What
makes the sum of the errors bounded is that the quotient's is multiplied by the
scale again (`NearSent`, `NumNear`): a product of the scale and half a unit of the
quotient is about a unit of the value, because a unit is proportional to its
number, but for numbers below `EXACT` units, where nothing is rounded.

The assumptions: `WidthAssumption` (the number of values of a byte is even, a
bool and a u8 have one byte); `NoneAssumption` (`None` and `NonFinite` differ
from the values they stand beside); `FloatAssumption`, which is IEEE 754 (the
distances of floats are powers of 2 from 1 on, `ONE` among them, up to one for
the largest float; what a payload of a float type holds is an f64, 0 among them,
every f64 has a payload of type `f64`, and no f32 passes its limit) and that an
`i128` is wider than every integer of the wire and narrower than an f64, so that
both of its ends are finite; `SenderAssumption`, which is the
types of documents, readings and ids as serde and Rust give them (a scale, an
offset and a reading is any f64), that a byte
holds the version and a frame count, and that the magic number of `BadMagic`
(0xDEAD) is not the right one.

**Startup** (`StartupProofs`). `StartupTypes`, `ErrorsAreExact`,
`CompilesFaithfully`, `EngineInput`, for all documents. `SInv` says what each
phase of `main.rs` has established. `Done(n)`: the first `n` rules have each
been kept, compiled as they stand, or reported, with the verdict the definition
gives. `Walking`: every entry of the explicit stack has its true depth, and there
is a set of visited nodes, all of them valid and not too deep, that with the
stack contains the root and the arguments of each of its members; the signals
collected are those of its identifiers. When the stack is empty that set is the
tree (`WalkIsComplete`): a least node outside it would be the root or the
argument of an earlier node. The other way, a walk that fails has met a node at
its true depth (`WalkFails`). `EngineInput` is what connects the two halves of the
development: what `compile_ruleset` accepts satisfies the assumption under which
the engine is proved.

Only model-checked: liveness under fairness (`SlotServed`, `QueueMoves`, `Ends`,
and the properties of `daemon_live`), which is out of the prover's reach.

## Not modelled

* The syntax of the documents: TOML and JSON parsing, serde types, defaults and
  unknown fields. A document that does not parse is one value.
* The CEL parser and interpreter, which are a library: a condition is its tree,
  or the valuations on which it holds and fails.
* The vehicle of the simulator: its drive cycle and noise (floating-point
  curves), the pacing of its loop and its random number generator. Any reading
  and any choice may happen instead.
* A batch of the output thread that never ends (`output.rs:127`: it flushes once
  the channel is empty, so under an endless flood lines reach the file only when
  the BufWriter is full). The bound on records ends every batch of `Daemon`.
* Power loss, statistics, log messages, and the cloud scaffold.

## Plan

What would add most next:

1. A composition of `Daemon` with `RotatingWriter`, so that the disk of the one
   is the files of the other and a batch may be unbounded.
2. Rule-set swaps in `EngineTask` and a second startup, when the daemon gets
   its updates from the cloud service.
