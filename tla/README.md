# JOPIL in TLA+

JOPIL captures packets with an XDP probe, correlates them into bidirectional
flows and shows these in a terminal dashboard. This directory holds a
specification of it in TLA+, the configurations that check it
with TLC, and theorems about it with proofs for TLAPS. Paths are relative to
the repository.

## Inventory

| Component | Source | State | Operations |
|---|---|---|---|
| XDP probe | `bpf/packet.c` | packet and byte counters, the kernel ring buffer | one run per frame and CPU: count, filter, reserve a record, fill it, submit it |
| Event reader | `internal/monitor/monitor.go` | `eventsChan` (10000), `stopChan`, `droppedInUserspace`, status log | `readLoop`, `interfaceWatcherLoop`, `Close`, `KernelStats` |
| Flow aggregator | `internal/monitor/aggregator.go`, `internal/model/packet.go` | `flows` (key to Flow), the Flow objects, `globalStats` | `aggregateLoop`/`processEvent`, `timeoutLoop`/`closeIdleFlows`, `GetAllFlows`, `GetGlobalStats`, `Stop` |
| Packet history | `internal/model/ringbuffer.go` | slots, two indices, a count | `Add`, `GetAll`, `Len`, `Clear` |
| DNS parser | `internal/parser/dns.go` | none | `ParseDNS` |
| Dashboard | `internal/tui/dashboard.go` | rows, selection, sort order, filter, three modes, drill-down snapshot, scroll positions, throughput history | key presses, mouse, refresh every 500 ms, rendering |
| Main | `cmd/jopil/main.go` | none | start in order, run the dashboard, shut down |

How they interact:

- Probe to reader: the kernel's ring buffer. The probe never waits; when the
  ring is full the frame passes uncounted except in `packet_count_map`.
- Reader to aggregator: a Go channel. The reader never waits either: it drops
  and counts an event the channel has no room for.
- Aggregator and sweep: two goroutines that share `flows` and the Flow objects
  under `flowMutex`.
- Aggregator to dashboard: `GetAllFlows` returns *pointers*. The dashboard
  keeps them as its rows across refreshes, and reads and writes their fields
  without the lock.
- Dashboard to packet history: `GetAll` copies the slots under the history's
  own mutex and walks the copy without it.
- Main to all: when the dashboard ends, `aggregator.Stop()`, then the deferred
  `reader.Close()`, which closes `stopChan`, the ring reader, the XDP link and
  the maps, in this order.

What is hard here: objects shared by goroutines without a lock; pointers that
outlive their entry in the table; an index that refers to a table that has
changed since; a conversation that is closed and reopened between two refreshes
or from its other end; queues at their limits; loops that must end wherever they
are blocked; a start that fails halfway; scroll positions that are moved by one
estimate and cut by another; unsigned differences of counters that may read as
zero; bytes that are written in one order and read in another. `PROJECT.json` lists
these hazards at their lines, with the properties that would notice them going wrong.

What makes each part correct:

- *Packet history*: readers get the latest `Capacity` packets, oldest first, as
  of one instant.
- *Aggregator*: every packet is in exactly one open flow of its conversation,
  whichever end sent it; per-flow counters, global totals, history and timeline
  tell the same story; only idle flows are closed, all of them in the end, and a
  closed flow is never touched again.
- *Capture*: frames arrive in order, at most once, and a frame that got a record
  is received, under way or counted as dropped; shutdown ends every loop.
- *Event reader*: nothing stays open when a start fails or after `Close`; what the
  status log tells of the interface can have happened, and a lasting change is
  noticed.
- *Dashboard*: one row per conversation, no rows for what is gone, a selection
  and a drill-down that stay with their conversation; no view scrolled past its
  end, the marked row in sight; samples of the throughput that are the traffic.
- *Decoding*: each field is read where it is in the frame, whatever its lengths
  say; the DNS parser gives back the questions of a message and takes nothing else.

## Modules

| Module | Models | Extends / instantiates |
|---|---|---|
| `BoundedHistory` | abstract: a history of the latest items, read at one instant | |
| `RingBuffer` | `ringbuffer.go` | refines `BoundedHistory` |
| `FlowTable` | abstract: flows opened, continued and expired | |
| `FlowAggregator` | `aggregator.go` with the types of `packet.go` | refines `FlowTable` |
| `LiveFlows` | `updateFlows` against the running aggregator, load by store | `FlowAggregator` |
| `Dashboard` | the dashboard's state machine over the abstract table | instantiates `FlowTable` |
| `Scrolling` | the scroll positions, the mouse and the size of the terminal | |
| `Throughput` | the probe's counters, `KernelStats`, `updateThroughputHistory` | |
| `LossyPipe` | abstract: in order, at most once, losses counted | |
| `Capture` | probe, ring, `readLoop`, channel, shutdown | refines `LossyPipe` |
| `EventReader` | `NewEventReader`, `Close`, `interfaceWatcherLoop`, `StatusLog` | refines `BoundedHistory` |
| `Headers` | the fields of a packet from the wire to `net.IP`, as operators | |
| `DnsParser` | `ParseDNS` and `parseDomainName`, as operators | |
| `Decoding` | one frame or payload on its way through both | `Headers`, `DnsParser` |
| `RingBufferProof`, `DashboardProof`, `CaptureProof`, `EventReaderProof`, `ScrollingProof`, `ThroughputProof`, `DecodingProof` | theorems | the module of that name |
| `FlowAggregatorProof` | theorems about the aggregator, alone and under the dashboard's refreshes | `LiveFlows` |
| `MC*` | constants for TLC | |

### RingBuffer

One variable per field of the struct; `Add` and `Clear` are one step each because
the whole body is under `rb.mu`. `GetAll` is two steps: `GetAllCopy` up to the
unlock (copying slots and indices into locals) and `GetAllReturn`, which walks the
copy. Packets are model values. Refinement: the abstract history is the window of
`count` slots from `readIdx`, and a reader's answer is settled when it copies.

### FlowAggregator

`flows` maps keys to places in `heap`, the sequence of all Flow objects ever
allocated, since an object outlives its entry. `AggReceive` is the part of
`processEvent` before the lock (it takes the timestamp and leaves the event and
the time in `job`); `ProcessEvent` is the locked part, whole; `Updated` is its
body as a function on flows. `CloseIdleFlows` is a tick's reception and the locked
sweep. `TickerFires` is the runtime's one-place ticker channel. The clock is a
counter; the zero `time.Time` is 0. A host is the rank of its dotted-quad text,
because that is the order `getFlowKey` compares by. The port maps are functions on
all ports with 0 for an absent key, which is how Go reads them. The packet
history is the sequence that `RingBuffer` is proved to implement. `dns` in an
event is what `ParseDNS` would return; no event that the reader produces carries
a payload, so the checked events have none.

`GetAllFlows` and `GetGlobalStats` change nothing; the first is in `LiveFlows`.
The `recover` in `aggregateLoop` and its test for a closed channel have no
counterpart: nothing closes `eventsChan`, and no statement of `processEvent`
panics in a state the model reaches.

### LiveFlows

The same actions with the dashboard's `updateFlows` beside them.
`currentFlow.F = newFlow.F` is a load and a store with the aggregator free to run
in between, for each of the twelve fields; in the usual case both sides are the
same object. `PacketHistory` is a pointer and `DNSQueryNames` a map, so assigning
them makes two flows share one: `refs` says whose object a flow refers to where it
is not its own. Only a row whose Flow was closed while its conversation was
reopened in another is ever given another's; it never gets its own back. That Go calls such
a race undefined gives a compiler more freedom than this; word-sized fields are
loaded and stored whole on the platforms the program runs on. `RefreshBegins` is
`GetAllFlows` and the first loop's matching of rows, `RefreshEnds` the addition
of new flows and the sort. The rows to keep are settled from the identities
alone, which no assignment changes, so matching before the assignments is the
same as matching between them.

### Dashboard

Bubbletea calls `Update` in one goroutine, so a message is one step. `Key(k)` is
`handleKeypress`: one action per mode, and in the main view one per key. The flows
come from `FlowTable`, in place of the whole aggregator, justified by
`RefinesFlowTable`. A flow has the conversation, which is undirected, and who opened
it; the identity of a row is directional, as in `getFlowId`. The properties speak of
conversations and name what the difference costs (`ReopenedFromOtherEnd`). A sort may leave the rows in any order: its keys are live counters, ties
are common and `sort.Slice` is not stable. `allFlows` is a set since its order is
never used unsorted. Mouse and paging keys only scroll, and scroll positions are
in `Scrolling`.

### Scrolling

The three scroll positions, with the rows reduced to their number (`Dashboard` says
which they are). Bubbletea calls `View` after every `Update`, and `View` writes to
the dashboard: it cuts the position of the view it renders, and of no other. So
every action ends with `Render`, which is `View` applied to the positions that the
handler has set. `KeyBound` is the estimate that the keys and the wheel use in the
drill-down (50 lines beside the packets, taken from the live flow), and
`DrillLines` what `renderDrillDown` really has, from the packets cached on entering.
`content` is what the estimate counts; a refresh may replace it by that of a new
flow, the aggregator makes it grow. How many lines the rest of the main view has is
any of a set, since widgets grow and shrink with their contents. `Panics` is the negative
slice bound of a drill-down that is too low for its frame; nothing happens after it.

### Throughput

The map entry with its two counts, which a probe increments one after the other;
`KernelStats`, whose lookup copies them one after the other too, or fails and
answers 0, 0; and `updateThroughputHistory`. The differences are `uint64`, hence
taken modulo `Modulus`. Rates are integer quotients where the code divides floats
and cuts the result off. `timeDiff` is the clock, in ticks since the last sample;
it does not run while an update is under way. `arrived`, `over`, `lookup` of a
sample and `looked` are not in the code: they record what the properties compare
the rates with.

### Capture

`probe[c]` is where CPU `c` is in `xdp_probe_func`; counting, reserving and
submitting are separate steps, so records may be completed out of order. A frame
is complete IPv4, and asks for a record, or it is not.
`id` numbers reservations and exists to tell frames apart; it is not in the code.
`readLoop` has one action per case of its two selects and per outcome of `Read`.
A parse error cannot happen: the probe's record is longer than
`parsePacketEvent` asks for. The ring buffer and its reader are a library; assumed
of them is what their documentation says and this code uses: reservations fail
when the ring is full, records are read in the order reserved and not before they
are submitted, and `Close` makes a blocked `Read` return `ErrClosed`.
`ShutDown` runs through `CloseOrder`. `eventsChan` survives its reader, so what
is left in it after the shutdown stays there.

### EventReader

`NewEventReader` is one action per step that acquires something, each of which may
fail instead (`StartFails`, which closes what its branch closes). `Close` is one
step per statement, since the goroutines run on. `interfaceWatcherLoop` looks and
tells in two steps: messages of others may come between, and the interface may
change again. A method of `StatusLog` is one step, because it holds the mutex
throughout. A message is who wrote it, except for the two that tell of the
interface; the abstract log has these as its items. `readLoop` is here only what it
writes; the rest is in `Capture`.

### Headers, DnsParser, Decoding

In `Headers` a byte of a frame is its offset, so that a value says where it was read
from, and a number is the sequence of its bytes, the first the most significant.
`Stored` and `LittleEndian` are what a host and the reader make of such a sequence
in memory. `DnsParser` works on real bytes; its loops are recursive functions on
offsets (`Read` is the body of `parseDomainName`'s loop) and on the number of questions. `Decoding` takes a frame, a payload that a
client has written (and that may have been cut off anywhere), or arbitrary bytes.
The two ways do not meet in the code either: the probe captures no payload.

## Checks

Every run finishes within a minute or so.

| Run | Shows | Bounds |
|---|---|---|
| `ring_buffer` | refinement and index invariant | 3 slots, 3 packets, 1 reader |
| `aggregator` | table, counters, times, refinement, which flows close, and three liveness properties | 4 events, 3 clock steps, timeout 1, history 2, channel 2 |
| `live_flows` | what the unlocked copy preserves | 3 events, 3 clock steps, two conversations |
| `dashboard` | rows, selection and drill-down under every key in every mode | 3 flows, 2 conversations, 3 filter options |
| `scrolling` | views within their bounds, what panics, the marked row in sight, the estimate | terminals of 2, 8 and 16 lines, 5 rows of which 4 are shown, 0 or 12 packets |
| `throughput` | samples against the real traffic, what an outage spoils | 2 CPUs, 3 frames of 1 or 2 bytes, window 2, modulus 32 |
| `capture` | accounting and order, the reader goes on, the shutdown ends | 2 CPUs, ring 2, channel 1, 6 frames |
| `event_reader` | start and end, the messages about the interface, the log | log of 3, asked for 2 |
| `decoding` | fields of frames, questions of payloads | 18 lengths of frames, bodies of up to 7 of 4 arbitrary bytes, messages of 2 questions |

Why the bounds are enough to be interesting:

- Three slots and unboundedly many additions wrap both indices any number of
  times; with three packets the copy a reader holds can differ from the buffer in
  every slot. One reader suffices because readers do not see each other.
- Four events of three kinds (both directions of a TCP conversation on different
  ports, and an ICMP packet between the same hosts) reach `established`, overflow
  a history of two, and close and reopen a conversation from either end. The
  events arrive with the clock at any value up to three, against a timeout of one.
  The limit of 100 state changes is out of reach for the code too: a flow changes
  its state three times and is closed.
- Three flows over two conversations are a reopened conversation, from its own or
  its other end, beside another row. A packet count of one is enough, since the
  dashboard's state does not depend on counts: any order of the rows is allowed.
- The lowest terminal is too low for the drill-down. That of eight lines has room
  for fewer rows than the table shows, fewer lines
  than the main view has, and fewer than the drill-down has with twelve packets;
  the highest has room for all rows and lines and for more of the drill-down, so
  that a resize may have to cut a position. Of the width matters only whether it is
  zero. The margin is 15 instead of 50, the least that the theorem allows.
- Two frames beside one that was there before the dashboard let a lookup be torn
  within a frame and across frames; a window of two is full after two seconds. Three
  packets of two bytes stay below the modulus of 32, while a difference to a failed
  lookup does not.
- Six frames over a ring of two, a channel of one and the reader's hands: the
  ring can be full when a reservation is made, and the channel when an event is
  sent; two CPUs are enough for one record to overtake another.
- The log holds three messages of unboundedly many, of which two may tell of the
  interface.
- The lengths of frames are those just below and at the end of the Ethernet header,
  of IP headers without and with options, and of the TCP and UDP headers behind
  them. Labels may contain bytes that look like a root or a pointer. Arbitrary bodies
  consist of a root, of labels of one and two bytes, and of the byte that begins a
  pointer.

### Disagreements with what the repository says

Three runs are expected to fail, each on a single property taken from a comment or
the README. `PROJECT.json` quotes the lines.

| Run | What TLC finds |
|---|---|
| `live_idle_close` | A refresh stores an old `LastPacketTime`, and the sweep closes an active flow. |
| `dashboard_filter` | The refresh after choosing a filter brings the other protocols back. |
| `addresses_reversed` | The bytes of every address shown are in reverse: the probe copies it as it is on the wire, the reader takes it for little-endian. |

Others are plain from the models or the code and have no run:

- *Live table*: a refresh undoes a packet the aggregator has just counted
  (`CountersNeverAhead` says that it never invents one, and that only these counters
  lose it). A reopened conversation's row goes on pointing to the closed Flow, and
  the next refresh gives that the history of the new one (`dashboard.go:1228`): after
  two packets, a closure, one packet and a refresh the row has one packet of history
  and two on its ports. This is why `AllAccountedFor` asks for a complete history only
  of flows that have their own. The
  help promises that P pauses the *capture*, while the counters of the rows move on.
- *Aggregator*: `packet.go:92` documents the states new, established, closing and
  closed. The code assigns new, syn, syn-ack, established and closed (`States`), so
  `TypeOK` shows a `State` that the comment does not know, and none is ever closing.
- *Dashboard*: the selection is "sticky" (`dashboard.go:58`), but `getFlowId`
  (`dashboard.go:1193`) tells the ends of a conversation apart. One that expires and is
  reopened from its other end is a new row, the mark stays at the number where the old
  row was, and Enter drills into whatever row that is. The drill-down leaves the screen when rows expire
  (`dashboard.go:128`), while keys still go to it. Ctrl+C quits in the main view
  only, the README's keys `h` and `d` do nothing, and the sort cycle has a fourth
  order, `latest`, that README and help do not name.
- *Scrolling*: PgDn in the drill-down can move *up* when the flow's history has been
  replaced by that of a new flow with fewer packets, which is why
  `EstimateSuffices` asks for `content >= cached`. After a filter, a refresh or a
  resize the marked row may be off the screen. In a terminal of less than three lines
  the drill-down cuts a slice at a negative index and panics (`dashboard.go:451`;
  `panicked` in the model); in a narrow one `line[:min(len(line), width+2)]` does in
  the widgets, which is not modelled.
- *Throughput*: when the totals really are zero, the first traffic is taken for the
  baseline and makes no sample. An outage, a baseline and another outage can put
  two spikes next to each other in the window. The rate labelled Mbps is in
  megabytes.
- *Event reader*: the watcher begins with `lastUp = true`, so an interface that is
  down from the beginning is reported as going down; changes between two ticks are
  not seen; and a flood of "Channel full" can push the message about the interface
  out of the log. `droppedInUserspace` is never read, so the loss rate stays 0.
- *Decoding*: no captured event has a payload, so DNS tracking never sees a question.
  Of a compression pointer ("2 bytes total", `dns.go:83`) one byte is skipped, and the
  type, the class and the questions that follow are read one byte early. This is why
  `OnlyMessagesAreParsed` speaks of bodies in which no byte begins a pointer. A dot
  within a label cannot be told from the dots that join labels (`dns.go:104-111`); in
  the model a name stays the sequence of its labels. On a big-endian host (`bpf_bpfeb.go`) the reader, which is little-endian always,
  reverses every number, which is why `FieldsAreRead` is stated for little-endian
  ones. `TCPFlags` is given the protocol (`aggregator.go:262`).

### Fairness

- *FlowAggregator*: weak fairness of both goroutines' steps and of the ticker:
  Go schedules what can run and the runtime's timers fire. `AggStop` has strong
  fairness because a Go select picks among its ready cases at random, so a stop
  that is ready again and again is taken. Nothing is assumed of the clock, the
  reader or the user: an idle flow is one for which the time has passed already.
- *Capture*: probes run to their end; `readLoop` and the aggregator are
  scheduled; `Read` does not fail for ever while a record is ready (strong
  fairness of `ReadRecord`, as failing returns to the loop's start); and main,
  once it has begun to shut down, goes on.
- *EventReader*: `main` starts the goroutines, the watcher is scheduled and its
  ticker goes on ticking, and a lookup does not fail for ever (strong fairness of
  `LooksUp`). Nothing is assumed of the interface, the writers or `Close`.

`LiveFlows`, `Dashboard`, `Scrolling` and `Throughput` have no liveness property:
that refreshes go on is a timer of the library, and what a message does is an action
property. `Decoding` goes through a fixed number of steps.

Deadlock is checked in `ring_buffer` and `throughput`, where there is
always something to do; the other systems may really stop (bounded inputs, shutdown,
and in `scrolling` the panic).

## Proofs

The theorems hold for every value of the constants. They use the assumptions
named in the component modules: capacities, lengths and timeouts are numbers
(capacity of the history positive, which `NewFlowAggregator`'s clamp guarantees),
events are well-typed, hosts are ranks, the set of CPUs in `Capture` is finite,
terminals have any size, the margin of the estimate is at least 15, the
list of filters begins with none, labels have 1 to 63 bytes and bytes are 0 to 255,
and the `No...` constants are none of the values they stand beside.

- `RingBufferProof`. `Inv` is `TypeOK` and `BufferConsistent`. The second is
  needed since the abstract window says nothing of slots outside it: that
  `writeIdx` is the slot behind the window is what makes `Add` append at its end,
  and that `readIdx` is 0 until the buffer is full is what makes a full buffer
  overwrite exactly its oldest packet. From it: `TypeCorrect`, `Consistent`,
  `RefinesBoundedHistory` (each step of the code is a step of the history or
  leaves it alone; the arithmetic modulo the capacity is in lemmas of its own).
- `FlowAggregatorProof`. `Inv` is `TypeOK`, `TableKeyed` (an entry's object has the
  key of the entry) and `OpenIffInTable`. `OneOpenFlow` follows from them, because a
  key names its conversation (`KeyNamesConversation`): two open flows of one
  conversation would be in the table under one key. From it: `TypeCorrect`,
  `TableIsSound`, `ClosedFlowsStayUntouched` (both goroutines reach objects only
  through the table), `RefinesFlowTable`. `EventsAreConserved` is inductive with
  `TypeOK`.
  - *Counters.* `CountInv` adds that each flow agrees with itself and that the global
    totals are sums over the heap. The sums are folds, which choose an order; that the
    order does not matter, and what adding a place or changing one does to the sum
    (`SumSplits`, `TotalChanges`, `TotalGrows`), is proved by taking the smallest set
    for which it would fail (`SmallestSet`). From it: `CountersAlwaysAgree`.
  - *Times.* `TimeInv` adds what `TimesAgree` leaves out: the event in
    `processEvent`'s hands is between the statistics and the clock, or its flow could
    be set back by it; and the newest packet is the last activity, so that an expired
    flow has only expired packets. From it: `TimesAlwaysAgree`, `FlowsCloseOnlyWhenIdle`.
  - *Live table.* `LiveInv` is `Inv`, the types of the refresh's variables, `RowsInv`
    (rows and snapshot hold one flow per identity, each row has a flow of the snapshot),
    `RefInv` (what a flow refers to was made for a flow of the same ends, and an open
    flow refers to its own) and `CopyInv`: an open flow is assigned only to itself, what is loaded is
    not ahead of where it came from, and counters are not ahead of the port
    counts, which no refresh touches. The first is why a row's stale object cannot be
    written to a live flow, and needs `Inv`: two open flows never share an identity.
    `KeepInv` says what is left of `CountInv` when counters may be overwritten: port
    counts, a flow's own history and the statistics count the same packets, in closed
    flows too; `RefInv` carries it to whatever history a flow shows.
    From them: `OneRowAlways`, `CountersStayBehind`, `LiveTableIsSound`,
    `LiveEventsAreConserved`.
- `CaptureProof`. `Inv` is `TypeOK` and `CountersFit`, which is inductive because it
  also says when `readLoop` holds an event and counts the probes that have counted
  but not yet reserved. The way's three stretches (channel, hands, ring) are sequences laid
  end to end; lemmas say what adding, moving and taking a number does to the whole.
  From it: `TypeCorrect`, `CountersAgree`, `RefinesLossyPipe`. What the pipe's steps
  mean for the frames is `FramesInOrder`: the numbers received and those on the way
  behind them go up (`Ordered`, which each of `Enter`, `Deliver` and `Lose` keeps).
- `DashboardProof`. `Inv` is `TypeOK`, `OneRow`, `DrillIsFrozen`,
  that the aggregator has at most one open flow per conversation, its latest
  (`ObjectsOK`, which
  `FlowTable`'s steps keep: the dashboard is proved against what the aggregator is
  proved to implement), that `allFlows` holds no two flows of one conversation, since
  a filter makes rows of it, and `Selected`: some flow had the selected identity, the
  row that has it is the marked one, and a row of its conversation with another
  identity came later. The last is
  `StickySelection` in a form that a refresh keeps: its rows are open flows or have
  the identity of one, and no flow is later than the open one. What the keys do is
  first brought to
  five effects on rows, selection and drill-down (`KeyEffects`); each is then one
  step. From it: `TypeCorrect`, `SelectionSticks`,
  `DrillStaysFrozen`, `RefreshMatchesTable`.
- `EventReaderProof`. `Inv` is `TypeOK`, `EdgesAlternate`, `HeldFollows` (what is held
  is the first so many resources, as many as the phase of the start or of `Close`
  says) and `TellsChange` (the watcher is about to tell only what differs from
  `lastUp`), without which two equal messages might follow each other. That the log
  loses its oldest message keeps the order of the others, by a lemma of its own.
  From it: `TypeCorrect`, `LeaksNothing`, `TellsInOrder`, `RefinesStatusHistory`.
- `ScrollingProof`. `Inv` is `TypeOK`, `ScreenIsFull` and `RunsInRoom` (a drill-down
  that has not panicked has its three lines), which the estimate needs. Each action is `Render` of
  natural numbers, and a lemma says that `Render` leaves every view within its
  bounds, whatever it is given. From it: `TypeCorrect`, `NeverPastTheEnd`,
  `KeepsSight` and `EstimateHolds`, which shows that a margin of 15 would suffice.
- `ThroughputProof`. `Inv` says that looks go forward (`LooksGoForward`), that the
  totals are those of the last look or zeros (`LastIsKnown`), and that while no packet
  was seen no byte was (`PacketsComeFirst`: the probe counts packets first). The last
  makes the baseline safe: zeros in `lastTotalPackets` can only be a failed lookup or
  a look before any traffic. From it: `TypeCorrect`, `ShowsTheTraffic`, `SpoilsOne`.
- `DecodingProof`. `Followed` says what each stage knows of its frame; the rest is the
  calculation of where each byte lies, turned round or not (`Turned`). From it: `FieldsArrive`. `PayloadFollowed` says
  the same of payloads. What the parser computes is brought to its step first:
  `NameIsRead` says that `parseDomainName` at an offset is `Read` of what it is
  further on, `LoopIsRun` that the state of `ParseDNS` after a question is
  `NextQuestion` of the one before. Then a label, a name, a question and a message
  are each shown to come back from their encoding, and not to if the body ends earlier
  (`LabelComesBack`, `NamesComeBack`, `QuestionComesBack`, `MessagesComeBack`);
  the other way round, whatever is taken is the encoding of what is given
  (`NamesAreNames`, `QuestionsAreQuestions`, `MessagesAreMessages`). From these:
  `MessagesArrive`, `NothingElseIsTaken`. The lemmas for the second hold with pointers
  too: there the first byte of one may stand where the encoding ends a name
  (`StandsFor`). Where no byte begins a pointer, this is equality.

Induction, where a sum or a parser needs it, is by the least counterexample: a set of
numbers that is not empty has a least element (`LeastNumber`, from `WFMin`), for the
library's induction rules take an operator, which the provers cannot instantiate.
`Upwards` and `Backwards` give it the form that the parser's two directions need.

Only model-checked: liveness, which is out of the prover's reach (`IdleFlowsClose`,
`EventsAreCounted`, `StopEndsBothLoops`, `RecordsAreHandled`, `ShutdownEndsLoops`,
`StateIsNoticed`). Every other property of a passing run is a theorem.

## Not modelled

Rendering (formatting of the state into widgets, layout and colours), the command
line (a straight line), `findPrimaryInterface` (the choice of a name), the generated
bindings (one step of the start that works or fails), `GetQueryType` and
`GetResponseCode` (names for numbers), `internal/model/stats.go` (a record) and
`test_ebpf.go` (a manual program). Overflow of the 64-bit counters is out of any
run's reach except in `Throughput`, where they are compared with the difference
modulo their width. The sort orders are left open: `sort.Slice` is not stable and
its keys are live counters.

## Plan

Done, in this order: `RingBuffer`, `FlowAggregator` with `FlowTable`, `LiveFlows`,
`Dashboard`, `Capture` with `LossyPipe`, then `EventReader`, `Scrolling`, `Throughput`,
`Headers` and `DnsParser` with `Decoding`, with the proofs of all of them.

There is no bound on what refreshes lose: each undoes the packets counted between a
load and its store, and the next loads what the last one has left, so the shortfall of
`CountersNeverAhead` may grow for as long as the flow is open.
