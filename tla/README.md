# Specifications of the Tuning Module

The Tuning Module (`userspace/user_dtn.c`, with `user_assess.c` and a few small
files) runs on the data transfer nodes (DTNs) at both ends of a flow.  On the
*destination* it is fed by an INT sink with queue occupancies and hop latencies,
and asks the *source* to slow down while they are too high.  On the source it limits
the rate of the network device with `tc`, and lifts the limit when it is told to, or
when the link falls idle.  One program plays both parts: a process with about ten
threads, four POSIX timers whose handlers run in signal context, a shared memory
segment, and a child process per message received.  Most of its state is plain global
variables that threads, handlers and children use without a lock; that is what makes
it hard, and what this project is about.

## 1. Inventory

Line numbers are those of `src/userspace/user_dtn.c`.

| component | state | operations | with whom | properties that make it correct |
|---|---|---|---|---|
| **peer message ring** (230-248, 686-834, 1587-1603, 7340-7497) | `sMsg[]`, `sMsgsIn`, `sMsgsOut`, `dtn_mutex`, `full`, `empty` | enqueue by `sample_func`, `SendResetPacingMsg`, `SendResetCleanUpPacingMsg` and two timer handlers; dequeue by `fDoRunSendMessageToPeer` | between the monitor and the network | a FIFO queue; no lost wake-up; no deadlock |
| **congestion monitor** (668-834, 1147-1517, 4727-4798) | the timers `qOCC_Hop`, `qOCC`, `qEvaluation` and the flags `vq_TimerIsSet`, `vCanStartEvaluationTimer`, `vSentPacingOver`, `vTwiceInaRow` | a report of the sink, the expiry of a timer, a second without traffic, the command `-r#` | fills the ring | one action at a time; no action once the state is over; lasting congestion is acted on; pacing asked for is called off |
| **pacing control** (93-149, 3079-3705, 3880-4201, 4727-4852) | `shm` (flag and current pacing), the buffer `sResetPacingBack`, the root qdisc | the messages QINFO, RESET_PACING and CLEANUP_RESET_PACING, each in a child of its own; the idle branch of `fDoRunGetThresholds`; a Kafka message | driven by the other end, the link and the operator | a limit is never forgotten, is sensible, and is set back after the transfer |
| **tables of attached DTNs** (603-666, 1519-1560, 7149-7222) | `aSrc_Dtn_IPs`, `aDest_Dtn_IPs`, their counters, `vIamADestDtn`, `vIamASrcDtn` | look-up, refresh and insertion; removal by the housekeeping timer | used by the monitor and by `process_request` | the counters agree with the tables; no entry outside the table; an attached peer is found |
| **peer connections** (6660-6958, 7104-7497) | sockets and children | connect, write and wait; accept, fork and read | lossy: a failed connect drops the message | what a lost, repeated or overtaken message breaks is mended when the transfer ends; no descriptor is leaked |
| **HPN-SSH mailbox** | `sHpnRetMsg`, `hpnretcdone`, `hpn_ret_mutex`, `hpn_ret_cond` | written by the perf event loop, read by connected clients | the INT sink and clients | readers see whole records and are woken |
| **buffer tuning** (2368-2554, 4799-5100) | the highest and previous rate, the direction `tune`, the counters `applied`, `suggested`, `nothing_done`, `max_apply`, the last and the best command | `check_if_bitrate_too_low` once a second; the commands `-l#` and `-t` | sysctl | the size stays in bounds, the search ends |
| **retransmission rate and RTT** (5405-5700) | the counters of the last pass, a ring of intervals, `vGlobalRetransmissionRate`, the global `aDest_Ip2_Binary` | a pass over `/sys/fs/bpf/tcp4` every 100 ms; accepting a peer or an HPN-SSH client redirects it | a threshold of the pacing control | the rate is that of the last intervals, of one peer; an old one fades |
| **HTTP settings** | thresholds, modes, debug level | one command each | every other part reads them | a change takes effect as a whole |
| **activity log** (536-571, 1250-1275, 1702-1760, 5106-5130) | `sFlowCounters`, `vFlowCount`, `vFlowCountWrapped` | `record_activity`, a change of flow, the listing `-pc` | called by the timer handlers and by `fDoRunGetThresholds` | the listing shows the latest activities of each flow, nothing is written outside the table |
| **Kafka consumer** (3398-3705) | none of its own | one call per message | calls the pacing control from a thread of the parent | as for pacing control |
| **assessment at start-up** (`user_assess.c`, `dtn_tune.c`) | configuration | runs once, sequentially | may install a root qdisc | not modelled |
| **start-up, shutdown, helper thread** (93-155, 425-439, 7700-7964) | thread ids, the segment | create, wait, SIGINT | all | what a restart forgets does no lasting harm |

What is hard here, in the order the models take it up: handlers that lock a mutex on
top of the thread that holds it; check-then-act on flags across threads and handlers;
timers armed before the flag that describes them is set; read-modify-write of shared
memory by concurrent children that run external commands in between; one buffer used
by two threads; messages lost, repeated or overtaken, and processes that are started
again; tables at their limit; settings changed while an operation that depends on them
is under way; counters that wrap.  `PROJECT.json` lists
each under "hazards" with its line.

## 2. Modules

| module | models | size of the instance |
|---|---|---|
| `BoundedFifo` | what the ring promises: a FIFO queue of `Capacity` messages | - |
| `PeerQueue` | the ring, its locking, and handlers that interrupt threads | `MCPeerQueue` |
| `PeerQueue_proofs` | theorems about `PeerQueue` | - |
| `CongestionMonitor` | the decisions of the destination, on top of the promised queue | `MCCongestionMonitor` |
| `CongestionMonitor_proofs` | theorems about `CongestionMonitor` | - |
| `PacingControl` | the source: children, the idle branch, Kafka, shared memory, qdisc | `MCPacingControl` |
| `PacingControl_proofs` | theorems about `PacingControl` | - |
| `DtnTables` | a table of attached DTNs, its counter and role flag, the housekeeping handler | `MCDtnTables` |
| `DtnTables_proofs` | theorems about `DtnTables` | - |
| `HpnMailbox` | polls, the mailbox and its HPN-SSH clients | `MCHpnMailbox` |
| `HpnMailbox_proofs` | theorems about `HpnMailbox` | - |
| `DtnSystem` | a destination, its sources and what lies between them, with faults | `MCDtnSystem` |
| `DtnSystem_proofs` | theorems about `DtnSystem` | - |
| `BufferTuner` | the search for a size of the TCP send buffer | `MCBufferTuner` |
| `RetransRate` | the thread that measures the retransmission rate | `MCRetransRate` |
| `MeasuringThreads_proofs` | theorems about `BufferTuner` and `RetransRate` | - |
| `ActivityLog` | the log of tuning activities per flow | `MCActivityLog` |
| `ActivityLog_proofs` | theorems about `ActivityLog` | - |

`PeerQueue` is shown to implement `BoundedFifo`; `CongestionMonitor` and `DtnSystem` take the
ring for what it is shown to be.  `DtnSystem` composes the two ends: a decision that `CongestionMonitor`
looks inside is one step there, and of a child of `PacingControl` only the `tc` command and the write of the
flag are steps, so that faults, several sources and both ends fit in one state space.

Definitions whose comment begins with "Mutant" are variants of the definition that
follows them, with one mistake a programmer could make.  Nothing uses them: they
record, property by property, a mistake that the property detects.

### PeerQueue

State: the array and its indices, the mutex (its holder), a program counter per
context, the thread that each active handler interrupts, the message a producer
carries, and the consumer's copy `sMsg2`.

| action | code |
|---|---|
| `Enqueue`, `Interrupt` | a thread reaches enqueuing code; a timer signal is delivered on a thread (`makeTimer` asks for a process-directed `SIGRTMIN`, so on any one that does not block it) |
| `Lock` | `Pthread_mutex_lock`, and the end of `pthread_cond_wait` |
| `WaitNotFull`, `PutSlot`, `SignalFull`, `ProducerUnlock` | the locked section of every producer |
| `WaitNotEmpty`, `TakeSlot`, `SignalEmpty`, `SenderUnlock`, `Transmit` | the loop of `fDoRunSendMessageToPeer` |
| `SpuriousWake` | a condition wait that returns without a signal, which POSIX allows |

A thread does not move while a handler runs on top of it.  That one fact makes the
difference between a correct monitor and one that can stop: see the findings.

### CongestionMonitor

State: the flags of the program under their names, the set `armed` of timers that count
down, the queue `pending` of signals that wait for delivery, and a program counter for
`sample_func`, for each handler activation and for the idle branch.  `sample_func`
is split where another thread can see a difference: after the timer is armed, before and
after the message is queued, before the flag is cleared.  A report is abstracted to
which thresholds it exceeds.  `Send` is the enqueue that `PeerQueue` is shown to
implement; it waits while the queue is full.  The message that `sample_func` sends at
the first report of a flow has no part in these decisions and is left to `PeerQueue`.
What else can happen in a behaviour, an idle link (`"idle"`), the operator's command (`"command"`) or handlers that
run at once on several threads (`"overlap"`), is a
set `events` that the initial state takes from `Scenarios`.  The idle branch disarms a timer and sets its flag in separate
steps.  `asked` is history: whether the last message queued asks to pace or calls it off, and whether a QINFO was queued
between a message that calls pacing off and the assignment `vSentPacingOver = 0` after it (`"overtaken"`).

### PacingControl

State: the segment `shm`, the buffer `sResetPacingBack` of the parent's threads, the
kind and rate of the root qdisc, and for each actor (a child, the idle branch, the Kafka
consumer) its point and its decision, and the globals it depends on.  A child works on
a copy of the parent's globals, so `Fork` records the mode and the limit computed from
the rate at that moment, and a child's `shm_read` with the decision is one step.  The
threads share the buffer, so for them `shm_read`, the decision, the assignment and
`shm_write` are four.  Every `system("tc ...")` is a step.  Setters run `tc` and then
write the flag; resets write the flag and then run `tc`: the model keeps both orders.
`tc` itself is external: `del` leaves the default qdisc, `change` fails on the default
one, `add` fails if there is another, and nobody reads the exit status.

As in `CongestionMonitor`, `Scenarios` says which sets of events the initial state may choose:
children that overlap (`"overlap"`; without it a message comes when the child before has ended), commands of the
operator (`"command"`), and a program started with Kafka (`"kafka"`), in which the consumer takes the place of the children.

Rates are in tenths of Gb/s, the resolution of the `%.1f` that the code puts in the
command; the products by 0.9 and 0.95 are rounded down.

### DtnTables

State: the addresses and times of one table, its counter, the role flag, the thread that
looks up and enters, the slot whose traffic is being measured, and the housekeeping handler.
The program has two such tables that share nothing but the handler, which goes through one
and then the other; a behaviour follows one of them, chosen by the initial state.  Of a time
the model keeps whether it is `vHouseTime` ago.

| action | code |
|---|---|
| `Arrive`, `Scan`, `Refresh` | the look-up in `sample_func` (sources) and `fDoRunGetMessageFromPeer` (destinations) |
| `EnterFirst`, `EnterSecond` | a new entry: time and then address for sources, address and then time for destinations |
| `ReadNetworks`, `AddNetwork`, `SetRole` | the increment of the counter, which is not atomic, and the role flag; that of sources is set only if `new_traffic` is, which the measuring thread sets and clears at any time |
| `Fork` | the child for the message, which looks its sender up in the copy of the table it inherits |
| `Measure`, `Measured`, `Age` | `fDoRunGetThresholds` and the retransmission thread refresh an entry; time passes |
| `KeeperStart` ... `KeeperOff` | `tHouseKeeping_TimerID_Handler`: test, clear, decrement, and the role flag at zero |

### HpnMailbox

State: the extremes of the poll under way and the two buffers with their times, the mailbox
(`sHpnRetMsg`, `sHpnRetMsg2`, `hpnretcdone`), and for each client its thread and its connection.  A
record is the number of its poll, with the poll whose time it carries.  Sections under
`hpn_ret_mutex` are one step each: what they share is protected, except the buffer that
`sHpnRetMsg2.pts` points to, which a step of the poll may overwrite at any time before.

| action | code |
|---|---|
| `Sample`, `Publish` | a hop of a report in `sample_func`; the end of a poll in the perf event loop |
| `Connect`, `ReadRequest`, `ReadError`, `EndOfInput` | `doHandleHpnsshQfactorEnv`; `doProcessHpnClientReq` when `Readn` returns a request, -1, or 0 |
| `Take`, `Wait`, `Timeout`, `Peek` | `fDoHpnRead` and `fDoHpnReadAll` up to the end of the locked section |
| `Send1`, `Send2`, `Shutdown` | `str_cli` with the first and second record; `fDoHpnShutdown` |
| `Request`, `Hangup`, `SpuriousWake` | the client, TCP and the thread library: external |

TCP is modelled by what the calls return: after a FIN a read gives 0 and a write succeeds and
is answered by an RST; after an RST the first call gives an error and later ones 0 or `EPIPE`.
`SIGPIPE` is ignored, which the HTTP library sees to.  How a client's connection may end is a constant.

### DtnSystem

State: which sources transmit; the destination's flags and timers and its queue; for each source that is watched the
messages sent to it and what their children have left to do, oldest first, its flag, its qdisc, and whether its idle
branch is between clearing the flag and running `tc` (`removing`).

| action | code |
|---|---|
| `HighReport`, `LowReport`, `QueueTimer`, `EvaluationTimer`, `BusyTick`, `IdleTick` | the decisions of `CongestionMonitor`, each as one step, for several sources |
| `SendMessage`, `CannotConnect` | `fDoRunSendMessageToPeer`: the message is sent, or lost because the address is zero or the connect fails |
| `Begin`, `End` | the first and the second change that the child of a message makes, in the order of its function: `tc` and then the flag for QINFO, the flag and then `tc` for the others; children run in any order, and handle their message again after a broken connection |
| `Ignore` | a child that changes nothing, because the sender is not in the table, the link shows no traffic, the retransmission rate is low or the flag says so; or no child |
| `SourceIdleTick`, `SourceRemove` | the idle branch of the source: the flag, then `tc` |
| `RestartSource`, `RestartDestination` | SIGINT and a new start: flags and segment are new, the qdisc stays |

### BufferTuner

State: `kmaximum` (the maximum of `net.ipv4.tcp_wmem`), the locals of `fDoRunGetThresholds` as a
record, `gTuningMode`, and whether the thread lives.  A second is one step, `Tick`: first the
comparison of the average with the highest and the previous one (`Compare`), then the pauses (`Pause`,
`Skips`), then `check_if_bitrate_too_low`.  These are functions from the locals to the locals, in
the order of the code.  A command is represented by the size it sets; the two commands are
uninitialised at first (`Unset`).  `ApplyRecommended` is the operator's command `-t`, which runs the `sysctl` that the
assessment saved (`user_assess.c:673`) and so sets the size under the search.

### RetransRate

State: the connections with their counters, the peer that is watched, the pass under way with its
line and sums, the counters of the last pass, and the ring.  Every line is read in a step of its own, and
compared with the peer that is set at that moment.  `rate` keeps the sums and the number that
`vGlobalRetransmissionRate` is computed from.  Differences are taken modulo `Word`.  `totals` and `calm` are history: the
totals of the passes in the window, and the passes since the counters could go down.  The loop that adds up the ring is
a recursive function (`SumUpTo`).  The names of this module are such that it can share a module of
proofs with `BufferTuner`.

### ActivityLog

State: `sFlowCounters` and its two indices, where each caller of `record_activity` and the tracking
of flows are.  Every access to the shared counters is a step.  A text is the number of its
activity.  `recorded` is the history that the listing (`Listed`, `LoopMax`) is compared with; `raced` records
that two of them were at it at once.

## 3. Runs

| run | result | what it shows |
|---|---|---|
| `PeerQueue_ring` | pass, 242,812 states | The ring implements `BoundedFifo`; no wake-up is lost on either condition; the oldest message is taken eventually, unless a handler waits for the thread under it. |
| `PeerQueue_selfdeadlock` | violation | The last one without the exception. |
| `CongestionMonitor_decisions` | pass, 661,789 states | Two handlers at once on a link that falls idle, or an operator who sends commands: what was asked for is remembered until it is called off, a flag loses its timer only if it is set after the timer has gone, lasting congestion is reported again and again, and the last QINFO is followed by a reset, with the exceptions named below. |
| `CongestionMonitor_overlap` | violation | Action is not deferred while an earlier one is evaluated. |
| `DtnTables_races` | pass, 142,290 states | Whatever the handler removes during a look-up, a peer has one entry at most, a new one gets a free slot of the table, and a silent peer is removed unless the role flag stays off. |
| `PacingControl_source` | pass, 646,752 states | Two children that overlap, one at a time beside an operator who switches modes, or the Kafka consumer beside that operator, each with the idle branch: without Kafka a limit is never forgotten, with it only by the write that ends the race of finding 3; a limit that is not forgotten is set back once the link is idle; it is between 2 and 34 Gb/s, or with Kafka at least a tenth of the speed of the device; with one child at a time the flag NOPACING is true. |
| `PacingControl_kafkarace` | violation | `PacingIsSetBack` with the Kafka consumer. |
| `HpnMailbox_clients` | pass, 427,182 states | A client of READ and one of READALL beside two polls: no record is taken twice, no wake-up is lost, the first record has its own time, no client waits forever beside a record, and the thread of a client that has gone ends, with two exceptions. |
| `DtnSystem_faults` | pass, 142,712 states | Whatever becomes of the messages, and in whatever order children and idle branch run `tc` and write the flag, only a new start of the source makes it lose track of its limit; otherwise the limit is removed when the transfer ends. |
| `BufferTuner_search` | pass, 473,524 states | The size stays in bounds, also when the operator sets the recommended one; at a steady rate the search comes to an end again and again; a transfer that holds its best rate has its buffer shrunk to the lowest size. |
| `RetransRate_window` | pass, 1,486,967 states | While the peer and its connections stay, the rate is exactly the growth over the last intervals; a rate, a wrapped one too, goes to zero when nothing is sent again. |
| `ActivityLog_listing` | pass, 2,887,469 states | The listing shows the most recent activities of every flow that is kept and nothing else, and the next place is in the table, unless two calls, or a call and a change of flow, overlapped. |

**Bounds.**  Three slots make a ring with two messages: it fills, empties and wraps.
One thread and two handlers are enough for a handler on top of the consumer beside
one on top of a producer, and for three producers to compete for one slot.  A queue
of one message makes every second sender of `CongestionMonitor` wait; one flow is enough
because its flags do not tell flows apart.  Two handlers at once let a second one test the flag of the evaluation
while the first is at any point between its test and its assignment.  In `PacingControl` two children suffice for each race between
a setter and a resetter, with the idle branch as the third party; the rates 1 and 39 Gb/s
are below the floor of the limit and above the value that stands for "no limit", and
with 0 for a link that only receives they reach each branch.  With Kafka there is one consumer, and rates and
residuals are on both sides of each comparison with the speed of the device (40 Gb/s).

Two peers and two slots are enough for a look-up to pass a slot that is emptied behind it, and
for both peers to be entered while the other is removed.  The counter is taken modulo 4
instead of 2^32, so that its wrap below zero, after a lost increment, is within reach.  More
peers than slots are not explored: the code then uses the index -1.

The mailbox needs two clients to compete for a record and two polls for a record that is replaced,
or paired with a later one, before it is taken.  Occupancies have one bit: 0 and
the greatest value, which is also the start of the minimum.  A connection is made once.

`DtnSystem` needs two sources for a reset that goes to the wrong one and two messages on their way, or at work, for
one that overtakes the other and for children that overlap.  What a source does is noticed neither by the destination nor by the
other source, so it is enough to watch one of the two (`Watched`), and the properties, which speak of one source at a time,
hold of each.  Both ends may be started again any number of times.  `BufferTuner` starts below the lowest size that it lowers to, or two changes below
the recommended size; three fruitless changes end its search instead of ten; the rates are none, below one
gigabit, two that are too low and a good one.  `RetransRate` has a ring of two intervals instead of the
program's, which wraps within the passes of a behaviour; at most seven things happen to the connections, while
passes are unbounded; `Word` is 64, more than the counters can reach, so that a
wrapped difference is told from every other.  `ActivityLog` keeps two flows with two places, five activities and four flows in all:
both rings wrap, and an entry is used again.

**Symmetry** is not used: most runs check temporal properties.

**Deadlock** is not checked in the runs of `PeerQueue`, where a self-deadlock of every
thread is a reachable state and the subject of two properties and a theorem, nor in that of `HpnMailbox`, where
clients may be gone and polls are bounded, nor in those of `BufferTuner` and `RetransRate`, whose thread may end, and
`ActivityLog`, where activities and flows are bounded.  It is checked in all others.

**Fairness.**  Threads and handlers that can run do run (weak fairness of each).  A
context that finds `dtn_mutex` free again and again gets it: strong fairness of `Lock`,
because waiters of a futex are queued.  The
housekeeping timer is periodic.  The deadline of a client's timed wait is computed once, so that
wakes without a record do not put it off: strong fairness of `Timeout`.  Armed timers expire and delivered signals are
handled.  The sink keeps reporting, but what it reports is open; `fDoRunGetThresholds`
looks at the link every second, but whether the link is idle is open.  Messages, signals,
traffic and commands of the operator are never assumed to come, nor not to come.  In `DtnSystem` the sender
sends or loses what is queued, and the oldest child of each source ends (`Oldest`); faults are never assumed, nor excluded.  In
`BufferTuner` and `RetransRate` the thread goes on as long as it lives.

**Why the exceptions in the liveness properties.**  `timer_settime` comes before the flag
that says the timer runs (1183-1186, 1154-1156).  If the handler runs in between, the flag
stays set and nothing clears it: `FlagWithoutTimer` and `EvaluationWithoutTimer` name
these states; `TimersAreLostAtFlags` shows that nothing else leads to them, and the liveness properties that nothing else
stops the monitor.  With timeouts of 500 ms and 5 s the window is improbable, not impossible.  `asked = "overtaken"` in
`AskedIsFlagged` and `PacingIsCalledOff` is a QINFO that was queued, and flagged, between the reset (1481) and the
assignment `vSentPacingOver = 0` (1482): the flag is gone, and the source stays limited until another QINFO is followed by a reset or
the link is idle.  The exception of
`SilentPeersAreRemoved` is the role flag: the handler tests the counter (629) and then clears the flag
(630), and an increment lost to its decrement, or a `role = TRUE` in between, leaves a table with
entries that no handler visits until the flag is set again; a new source whose `new_traffic` was cleared before it was tested (5109, 1578) does the same.  `Remembered` in `OnlyRestartsForget`, `LimitIsRemoved` and
`SetBackUnlessForgotten` says that the flag shows the limit or that somebody is about to make the two agree.  A source that is started
again has lost it, because the process removes the segment when it ends and leaves the qdisc; with Kafka a lost write loses it.  The
action properties show that nothing else does.  While a transfer goes on, a reset that was lost, overtaken by its QINFO or sent to another
source leaves the source limited: messages are sent once, without acknowledgement, and one flag stands for all sources.  No
property promises otherwise; `LimitIsRemoved` shows that it lasts no longer than the transfer.
`raced` and `calm` limit `ActivityLog` and `RetransRate` to what code without a lock, or an
unsigned difference, can promise at all.

## 4. Findings

1. **Self-deadlock of the ring** (703; `PeerQueue_selfdeadlock`).  A timer handler locks
   `dtn_mutex`, also when it runs on top of the thread that holds it, or waits for room on
   top of the consumer.  `SelfDeadlockForever` proves that no other step resolves it.
2. **Action that is not deferred** (701; `CongestionMonitor_overlap`).  Two handlers on different threads both test
   `vCanStartEvaluationTimer` before either has queued its message, armed the timer and cleared the flag (1154-1157), and
   both send QINFO; `src/userspace/readme.txt:36-37` says that the evaluation timer is "used to defer action if said
   action is already in the process of being taken".  A signal of the evaluation timer that was queued when the idle branch
   ended the evaluation (4753) is another way: it ends the next one.
3. **A limit that is never removed** (3617; `PacingControl_kafkarace`).  The Kafka consumer
   and the idle branch use the same buffer.

Met while modelling, without a run of their own:

- A value above 34 Gb/s is replaced by 40.0, the speed of one NIC, so on a faster one the Kafka
  consumer applies 40 Gb/s as a limit where its comment asks for 95% of the total (3482).
- A reset deletes the root qdisc, so an `fq` that the assessment installed
  (`user_assess.c:2149`) is not restored.
- A child writes its flag after the idle branch has removed the qdisc it refers to (4050); later
  adjustments use `tc qdisc change` and have no effect.
- Whether `qOCC` is turned off depends on the setting now (1469), so a countdown that was armed
  under another setting survives the end of the congestion.
- The housekeeping handler clears an entry some steps after it tested its time (641), and a new
  destination has its address (7172) before its time (7174): the peer whose message is being
  handled can be removed, and the child does not find the sender.
- The end of a client's connection is recognised by `saveerrno && !y` (2792), but `recv` does not set
  `errno` when it returns 0: a client that closes before the first timeout is not noticed until a
  record is written to it.  `readn2` tests `!y` alone (6691).
- A poll with one record leaves `sHpnRetMsg2.pts` as it is (1050-1060), so a client may get a second
  record of an earlier poll, with the time of a later one (2826); READ then sends only that one.
- The start value of the minimum is a value a report can show (545): a poll whose only report shows it
  publishes the maximum of an earlier poll, with occupancy 0 (1086).  The first report of a poll
  does not count for the maximum (1336).
- A QINFO that is queued and flagged between a reset and `vSentPacingOver = 0` (1482, 4760) is not followed by a
  reset of its own; `PacingIsCalledOff` is false without the exception for it.
- A report is looked at hop by hop, so one hop below the thresholds turns off the timer that another
  one of the same report has armed (1423; compare `src/userspace/readme.txt:32-34`).
- A source that is started again while it is limited keeps the limit: its flag is new (7860-7861) and
  `sig_int_handler` removes the segment but not the qdisc.  `README.md:126` promises that pacing is set back.
- When a connection to the peer closes, or another peer is watched, a pass can find more packets but
  fewer retransmissions than the last one; the difference wraps (5579) and the rate is beyond every threshold until
  it has left the window.
- An HPN-SSH client that connects becomes the peer whose retransmissions are counted (7017).
- `vSomeIntTran` is the quotient of two sums and is divided by their number once more (5627, 5649).
- When no line matches, everything but `vGlobalRetransmissionRate` is reset (5675).
- A `popen` that fails once ends `fDoRunGetThresholds` (4659) or the retransmission thread (5487)
  for good, and with the first the idle branch that removes limits.
- If no rate was a best one while a change was applied, the search ends with a command that was
  never initialised (5017).
- At a steady rate every tick is a new best (4941), so the buffer is lowered to the lowest size.
- Two calls of `record_activity` that overlap can both pass the test for the last place (1269):
  the count goes past it and further texts are written beyond the entry.  `vFlowCount` is one too large between 5122 and
  5125.  Between 1266 and 1268 the first activity of an entry makes it look full (1727).
- SIGCHLD is ignored (7742), so the `wait` of `fDoRunHelperDtn` (6595) returns only when every child has
  ended, those of `fDoRunGetMessageFromPeer` included: a dead `help_dtn.sh` is restarted after them.
- The listing writes `aResp[start-1]` also when nothing was listed (1743).

## 5. Theorems

All hold for every value of the constants that satisfies the assumptions of the module.

`PeerQueue_proofs` (any finite numbers of threads and handlers, any messages, any buffer of at least two
slots; the consumer is not a producer; the names of contexts are distinct):

- the inductive invariant is `TypeOK`, `MutexInv`, `HandlerInv`, `OfferInv` and
  `SenderSleepsOnlyWhenEmpty`.  `HandlerInv` says that a handler is at its code exactly while
  it interrupts a thread, `OfferInv` that a producer under way carries a message; without
  the first a thread could move under its handler, without the second a slot could
  receive nothing.  `TypeCorrect`, `MutualExclusion` and `NoLostWakeup` are its parts;
- `SelfDeadlockForever` goes through the actions: the thread under the handler cannot move, so it
  does not give back the mutex or take from the ring, and nobody else may;
- `RefinesFifo`: `PutSlot` is the abstract enqueue and `TakeSlot` the abstract dequeue, every
  other step leaves the content alone.  It rests on lemmas about the index
  arithmetic, where the modulo is replaced by a case distinction once and for all;
- `NoLostFreeSlot`: `ProducersSleepOnlyWhenFull` counts, for any number of producers.  It is inductive beside the
  invariant above: a put takes a slot and a looker (`Lookers`: woken, or about to test) away, a take frees a slot and owes
  a signal, the signal makes a looker of a sleeper, and who goes to sleep has found the ring full.

`PacingControl_proofs` (any number of children, any rates):

- `PacingRemembered` (without Kafka): a limit that the flag does not show is about to be flagged or removed.  The
  invariant adds `PlanInv` (who runs `tc` first will write a flag that is not zero; who
  clears the flag will delete the qdisc) and `BufferInv` (the idle branch has the buffer to itself).
  With Kafka the second is false, and a limit can be forgotten: see finding 3.  The mode is part of the state and stays as it is
  (`ModeStays`), so the theorem speaks of every behaviour and the property excepts those with Kafka.
- `LimitsForgottenByLostWrites`: `OnlyLostWritesForget`, in either mode.  The only step that makes `Remembered` false is a `shm_write` of the
  Kafka consumer whose flag in the shared buffer has become zero since it assigned its own (`LostWrite`).  It goes
  through the actions, with `AllPlanned`: `PlanInv` and what the idle branch may do, which do not depend on
  the buffer.  So finding 3 is the only way to forget a limit: it takes the buffer that the two threads share.
- `NopacingFlagIsTrue` (without Kafka): `NopacingIsUnlimited`.  The invariant adds `RoleInv` (a child that sets a
  limit will write the regular flag, the idle branch only clears) and `LiftedInv`: without overlap one child at most is
  under way; when it has lifted the limit nobody sets one before it writes NOPACING; and while that flag is
  false, the child that made it so has yet to lift the limit or to overwrite the flag.
- `LimitsInRange`, in either mode: without Kafka every limit is between 2 and 34 Gb/s, by `LimitInv`, the
  same of the limit that an actor is about to give to `tc`; with Kafka it is at least a tenth of the speed of
  the device, by `KafkaInv`, which does not need the buffer to be the consumer's own.
- `PacingTypeCorrect`, in either mode: what the segment and the qdisc hold is of its type; inductive as it stands.

`DtnTables_proofs` (any finite set of peers, any size of table, any width of the counter):

- `OneEntry`: `OneEntryPerPeer` for tables of any size.  The invariant adds `PassedInv`, that the
  slots a look-up has passed do not hold its peer, also after a removal, and `NewInv`, that when a
  peer is about to be entered no slot holds it.  `PeerInv` says that a thread under way has a peer.
- `NewPeersGetASlot`: `EntryInTable`.  A slot the look-up has noted stays free (`FreeInv`), because only its
  thread enters addresses.  If it noted none, the slots it passed may be free by now, so the table of the moment says nothing:
  `BeganInv` is about the table the look-up began with, which had other peers in all of them, each once.  At the end that is
  as many other peers as there are slots (`PigeonHole`), one too many.
- `TablesTypeCorrect`: indices stay in the table and counters in their width.

`HpnMailbox_proofs` (any clients, any number of polls, any width of the occupancy):

- `RecordsTakenOnce`: the invariant adds `PollInv`, that what clients have is not newer than what the
  mailbox had last, which is older than the poll under way.  So a record that is put is new to
  everyone, and a take leaves nothing to be taken.
- `FirstRecordWhole`: `TimeInv` says that an extreme set in this poll has its time in its buffer, and that
  the first record in the mailbox has its own time.
- `SecondRecordSound`: the second record outlives its poll in the mailbox and its time is read through a pointer, so it need
  not be whole.  Still, one that a client may send was put there by a poll, is not newer than the first record taken
  with it, and has its own time or a later one.  `PointerInv` says the same of the mailbox: a second record is
  put only when both buffers hold the time of this poll, and later polls only write later times.
- `NoWakeupLost`: inductive as it stands.  `MailboxTypeCorrect`: the mask keeps occupancies in their width.

`MeasuringThreads_proofs`, about `BufferTuner` (any rates, any size that is found, any recommended size and number of applications):

- `BuffersInBounds`: the invariant is `TypeOK`, `WmemInBounds` and
  `JudgedAtOnce`, that no suggestion is out when a change was applied.  The command `-t` sets the size between any two ticks; it
  disturbs the bounds no more than the size that was found does.  The lemmas follow the stages of a
  tick.  The attempt showed that `WmemInBounds` once said too much: a buffer that is found below the lowest size is
  raised by steps from there, so only the size that was found bounds it from below.
- `TypeCorrect`: the pauses and the number of applications stay within their limits.

and about `RetransRate` (any number of connections, any peers, any number of intervals; no counter outgrows an unsigned
long, which is `WordAssumption`, since every packet is an event):

- `RateTypeCorrect`: the types rest on what the counters add up to.  `CountersAreBounded` says that a pass and the lines it has not
  read yet count no packet twice, also if a connection closes behind it and another takes a line ahead of it;
  `LinesAreConsistent` that what is sent again is sent; `PassIsInLines` where the pass is.
- `RateIsOfTheWindow`: `RateIsGrowth`.  While connections and peer stay, the previous totals are behind those that the pass under way will
  have at its end, in retransmissions and in first sends separately (`PreviousIsBehind`): hence no difference wraps, and an
  interval without new packets has no retransmissions either.  That needs one more undisturbed pass before it
  (`PassIsBehind`).  The slots of the ring then hold differences of consecutive totals (`RingIsDifferences`), of which the
  history has as many as the window and one more (`WindowIsTotals`), and their sum telescopes, in two parts
  if the ring has wrapped.  TLC has checked these parts on the run's instance before.
- What a sum is, is proved by induction over its length.  The induction theorems of the library take an operator as a parameter, which
  the provers do not instantiate; `SetInduction` is the same for a set, from the minimum that a nonempty set of
  natural numbers has (`WFMin`).

`DtnSystem_proofs` (any number of sources, any capacity, any number of messages and restarts):

- `LimitsForgottenByRestarts`: `OnlyRestartsForget`.  The argument goes through the actions at a source.  Whoever sets a limit
  on a clear flag has the flag left to write; whoever clears the flag has `tc qdisc del` left to run; a child or an idle branch that
  completes does just that, so the limit is gone or flagged, also when others have worked in between.  A child that is done leaves the
  list, and those behind it move up: `Remembered` speaks of some child, not of its place.
- `TypeCorrect` bounds the queue by its capacity; it is the invariant of the theorem above.

`ActivityLog_proofs` (any number of handlers, flows, places and activities):

- `ListingsAreRecent` and `WritesStayInTable`: while nothing has raced, at most one actor is at the log (`AloneInv`);
  the places that an entry counts hold the last texts of its flow, and all of them do if it counts none and was used
  (`EntryInv`); a writer has done what its point says (`WriterInv`) and an entry that is being cleared has no
  text (`ClearInv`).  `FlowInv` says where the number of the flow is while it wraps.  TLC has checked the invariant on the
  run's instance before.
- `TypeCorrect` holds with races too.

`CongestionMonitor_proofs` (any flows, any capacity, any number of handlers at once):

- `AskedFlagged`: `AskedIsFlagged`.  `AskedInv` adds that no message which calls pacing off is queued with its assignment still to come
  (`ClearPending`): only such an assignment clears `vSentPacingOver`, and a QINFO that is queued before it is the exception.
- `TimersLostAtFlags`: `TimersAreLostAtFlags`.  For every step but the two assignments: if the flag is set and its timer neither armed
  nor its signal queued afterwards, that was so before.  A timer that expires leaves its signal (`SignalsStay`); who takes the signal clears the
  flag, or in the case of the evaluation sets it; disarming is followed by the assignment of the same thread.  `LowInv` is needed for the
  low report: it has cleared the flag and only `sample_func` sets it.
- `TypeCorrect`: in particular the queue is never longer than the ring.

Only model-checked: the liveness properties, which are beyond the prover.  Every invariant and action property that a passing run checks is
stated by a theorem, and so is the refinement `ImplementsFifo`.

## 6. Assumptions and what is left out

`timer_settime`, `shm_read`, `shm_write`, `fork` and the pthread calls succeed.  `vMaxPacingRate`
keeps its default of 90%.  Thresholds are not modelled: a report says which of them it exceeds.  In `PacingControl` a
message that is not acted on (a QINFO or RESET_PACING of an unknown peer, no transmission, few retransmissions) changes
nothing and is not represented; in `DtnSystem` it is the action `Ignore`, because there it takes the place of one that is.  Logging, formatting, parsing of the output of tools, and the
text of messages are left out.

`CongestionMonitor` and `DtnSystem` are the mode without Kafka: with it the sink is not started (7866), nothing is reported, and
`fStartEvaluationTimer`, called by the consumer, leaves `vSentPacingOver` alone (1159), which is in `PacingControl`.
`RetransRate` is the mode without Kafka too; sums of counters that another thread changes meanwhile are read line
by line, a line as a whole.  Its counters do not wrap.  In the kernel `segs_out` and `total_retrans`, which `iter_tcp4.bpf.c:142` prints, have
32 bits (`iter/vmlinux.h:83090`, `83199`), less than the `unsigned long` they are read into: in a long transfer the total of a pass goes down by 2^32 although no
connection closed.  `Interval` then counts that pass as one without packets (5582-5586), and the next one is exact again; `RateIsGrowth` does
not hold of a window with such a pass.  In `ActivityLog` an access outside the table does nothing to the
modelled state.  `DtnSystem` leaves out START messages and the learning mode, in which no limit is set; `PacingControl` has the switch.

Not modelled: vendored code (`facil_io_7.0`, `headers`), generated code
(`iter/vmlinux.h`), the BPF programs and their loaders, demonstration clients, scripts and packaging;
these are most of the repository's lines and none of its logic.  The assessment at start-up
(`user_assess.c`, and `dtn_tune.c`, an earlier version of it as a program of its own) is a sequence of reads and
commands without shared state, before any thread runs.  `fDoRunFindHighestRtt`
only logs what it finds (`fDoManageRtt` returns at once, 5172), and `fDoRunHelperDtn` keeps the script
`help_dtn.sh` alive, which shares no state with the program.  Of the HTTP interface `-r#`, `-l#`, `-t` (its effect on the send buffer; the other settings it applies are in no model) and `-pc` are modelled;
the commands that only set a threshold or a debug level are left out, since the models leave thresholds open.

## 7. Plan

The modules of the plan are written and every safety property that the runs check is proved.  Left open:

1. `CongestionMonitor`: how many QINFO messages overlapping handlers can send in one evaluation (finding 2).
2. `DtnSystem` against its parts: that a source there is what `PacingControl` does with several children, as a refinement with the
   limits and the globals of the fork abstracted, and that its destination is what `CongestionMonitor` does step by step.
3. `PacingControl` with Kafka: how long a limit stays forgotten; the next message of the consumer may flag it again.
