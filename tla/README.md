# mayhem-b200: formal models

TLA+ models of mayhem-b200 (a PortaPack Mayhem user interface on a PC, driving an
Ettus USRP B200 or a remote SDR), the TLC runs that check them and the TLAPS proofs
about them. Every definition that models code has a comment or a name that leads to
its source; `PROJECT.json` ("map") gives the lines. Source paths below are relative
to the repository root.

Contents: [1 Inventory](#1-inventory) · [2 Plan](#2-plan) · the modules:
[3 Raw sample tap](#3-the-raw-sample-tap) · [4 Network radio](#4-the-network-radio) ·
[5 Replay model](#5-the-replay-model) · [6 USRP radio](#6-the-usrp-radio) ·
[7 Transmission](#7-a-burst-on-its-way-ring-transmitter-morse) ·
[8 Receiver model](#8-the-receiver-model) · [9 Policies](#9-rates-filters-and-gains) ·
[10 Applications](#10-applications-and-navigation) · [11 Portal](#11-the-portal) ·
[12 Web GUI](#12-the-web-gui) · [13 Runs](#13-runs) · [14 Proofs](#14-proofs) ·
[15 Disagreements](#15-disagreements-between-the-code-and-its-documentation) ·
[16 Not modelled](#16-what-is-not-modelled)

## 1 Inventory

One process (`src/main.cpp`) runs the UI at about 60 frames a second on its main
thread and talks to the radio through `radio::RadioDevice`. A second process, the Go
portal, shows the program in a browser; a third, optional, is a web GUI for a remote
SDR.

```
 browser -- WebSocket --> portal (Go): screenHub, tiles, panels
                              | HTTP long poll /api/screen, POST /api/input
                              v
 RemoteServer (connection threads) -> AppBridge <- UI thread (main loop, apps, nav)
                                                    |            |
                              RawSampleTap.read <---+            v
                                    ^                  ReceiverModel / TransmitterModel
                                    |                  / ReplayModel (DSP threads)
                                    +-- write ------------------+ | RingBuffer
                                                                  v
                                       RadioDevice: UsrpRadio | NetworkRadio
                                                    (RX/TX threads, keepalive thread)
```

| Component | State it keeps | Operations | Hard behaviour | What makes it correct |
|---|---|---|---|---|
| **Raw sample tap** (`src/radio/receiver_model.*`, class RawSampleTap) | ring, absolute positions, seam, pending hole, counters, Dekker gate | write (DSP thread); read, open, restart, close, reset_stats (UI thread) | lock-free interleaving, overflow, resizing under the producer | blocks are contiguous, every hole is announced and placed, no slot race |
| **Network radio** (`src/radio/network_radio.*`) | control and stream connection, link state, cached settings, three threads | open, close, start_rx, stop_rx, setters, keepalive, reconnect ladder, recover_stream | server restarts, half-open links, three threads reconnecting over one mutex | the caller's settings survive, calls return, the link and the stream come back |
| **Replay model** (`src/radio/replay_model.*`) | file reader, state, position, flags, a refused remainder | open, close, play, pause, stop, seek, loop; DSP thread | pause and stop handshakes, back-pressure, seek under the DSP thread | in order, nothing lost or repeated, transport calls settle |
| USRP radio (`src/radio/usrp_radio.*`) | UHD streamers, generation counter, rings, statistics | open, close, setters, start/stop RX and TX, RX and TX threads | a rate change replaces the streamer under the RX thread; starvation watchdog | the RX thread always ends up on the current streamer |
| Receiver model (same files as the tap) | chain, capture file, running/stop | start, stop, tuning, modes, capture | DSP thread against UI thread, full disk | a started receiver receives; a capture is whole |
| Transmitter model (`src/radio/transmitter_model.*`) | sources, running/stop | start, stop, modes | pacing against the ring, end of burst | what was handed over is sent before stop |
| Ring buffer (`src/dsp/ring_buffer.hpp`) | two indices | write, read, clear | single producer, single consumer; clear | FIFO, bounded |
| Radio device, rate and capability policies (`src/radio/{radio_device,rate_policy,capability_policy}.*`) | none | pure choices of rates and capabilities | boundaries of ranges | the choice lies in the device's range |
| AppBridge and RemoteServer (`src/remote/`) | launch and input queues, cached JSON, last frame, wait epoch | queue/drain, refresh, capture, screen_frame, stop | connection threads against the UI thread, long polls, drop-oldest queues | a waiter wakes on a new frame or on shutdown; input in order |
| Browser Morse transmit (`src/remote/morse_tx.*`) | pending and active burst | request, tick, sample source | three threads, ownership of the transmitter | never keys over another transmission |
| Main loop and quit (`src/main.cpp`, `src/core/quit.*`) | quit flag, shutdown-complete | request_quit, teardown | a handler thread waits for the teardown | teardown is complete and ordered |
| Navigation, dispatch, registry (`src/apps/ui_navigation.*` ...) | view stack, deferred operations | push, pop, service | deferred changes | one live top view |
| UI toolkit, window, input (`src/ui/`) | widgets, framebuffer | drawing, events | long presses | - |
| Applications (`src/apps/`) | per view | - | users of the tap and the replay model | - |
| Audio (`src/audio/`) | ring, device blocks, idle flag | write, feeder thread | idle gate | written samples are played |
| DSP and decoders (`src/dsp/`) | filters, bit state | pure and numeric | - | numeric |
| Files, settings (`src/core/`) | on disk | load, save | - | round trips |
| Telemetry (`src/core/telemetry.*`, `analytics-worker/`) | day stamp | one ping a day | failed post | at most one a day |
| Portal screen hub (`webgui/internal/portal/server`) | clients, controller, held keys, last frame | join, leave, poll, input | overlapping loops, failed posts | no stuck key, frames never go back |
| Tile proxy (`webgui/internal/portal/tiles`) | cache, in-flight calls, back-off | get, fetch | coalescing, refusal racing success | a refusal is respected |
| sdrlink client in Go (`webgui/internal/sdrclient`) | pending calls | call, readLoop, fail | timeout against late reply | each call gets its own reply |
| Web GUI adapter (`webgui/internal/{web,webadapter}`) | device state, stream, subscribers | StartRx, StopRx, subscribe | stream ending by itself | the state shown is the device's |
| Browser pages, packaging, installers, scripts, tools | - | - | - | - |

The hazards that matter most are in `PROJECT.json` ("hazards"), each at its line, with
the properties that cover it. A hazard without one has a counterexample instead: the code
does go wrong there, and the configuration named in its note shows how (section 15).
Further ones, not modelled: a request for a tile that waited for a slot and goes out after
a refusal (`webgui/internal/portal/tiles/tiles.go:514`); the console handler that waits for
the teardown at most as long as the operating system lets it (`src/core/quit.cpp`).

## 2 Plan

In order of what matters to the user of the program: samples that are right, samples that
keep coming, a transmitter that is on only when somebody wants it, the remote faces.

| Step | Modules | State |
|---|---|---|
| 1 | `RawSampleTap` with its contract `GapStream`, proofs in `RawSampleTapProofs` | done, proved |
| 2 | `NetworkRadio` | done, its safety proved in `NetworkRadioProofs` |
| 3 | `ReplayModel` | done, its safety proved in `ReplayModelProofs` |
| 4 | `UsrpRadio` | done, its safety proved in `UsrpRadioProofs` |
| 5 | `RingBuffer`, its contract `Fifo`, and `Transmission`, which drives it | done, the refinement and the safety proved in `TransmissionProofs` |
| 6 | `ReceiverModel` over the policies `Capabilities` | done, its safety proved in `ReceiverModelProofs` |
| 7 | `Capabilities`, `RatePolicy` against reference definitions | done, what is kept of the five guarantees proved in `ReceiverModelProofs` |
| 8 | `RadioUse`, `AppProfiles`, `Navigation` | done, its safety proved in `NavigationProofs` |
| 9 | `Portal` | done, `KeysReleased` proved in `WebGuiProofs` |
| 10 | `SdrClient`, `WebDevice` | done, its safety proved in `WebGuiProofs` |
| 11 | Audio idle gate, tile proxy, quit handler, `frames_dropped_between` | not done: small, and beside what the runs ask |

How the modules are composed: `GapStream` is instantiated by `RawSampleTap`; `Fifo` by
`Transmission`, which extends `RingBuffer` and adds its two threads; `Capabilities` is
extended by `RatePolicy` and by `ReceiverModel`; `RadioUse` by `AppProfiles`, that by
`Navigation`; `SdrClient` by `WebDevice`. The `MC` modules give values to the constants.
The `Proofs` modules extend the modules they are about: `ReceiverModelProofs` extends
`ReceiverModel` and `RatePolicy`, `WebGuiProofs` extends `WebDevice` and `Portal`, which is why
`RatePolicy` and `Portal` have names of their own for their specifications (`PolicySpec`,
`PortalSpec`).

## 3 The raw sample tap

`RawSampleTap.tla` models `radio::RawSampleTap`
(`src/radio/receiver_model.{hpp,cpp}`): a lock-free ring between the DSP thread, which
may never wait, and the decoder on the UI thread.

* Each shared atomic access is a step. The DSP thread is at `ppc` (`Enter`,
  `CheckEnabled`, `Offer`, `DiscardAtSeam`/`PublishGap`, `Reserve`, `Fill`, `Commit`,
  `Overflow`, `Tear`, `Leave`); the UI thread at `cpc` (`Snapshot`, `TakeGap`, `Copy`,
  `Release`, `ClearSeam`, `Return`, and `Open`/`Restart`/`Close` through `Drained`,
  `Reallocate`, `Enable`, `Free`).
* A sample is its own position in the offered stream, so a block can be compared with
  what the radio sent. `streamed` and `expected` are history variables.
* The code's acquire/release and sequentially consistent atomics are sequentially
  consistent steps in program order. The one place where the code relies on more than
  acquire/release, the gate between `enabled_` and `producer_in_`, uses
  sequentially consistent accesses in the code as well.
* Positions are unbounded naturals (the code's are 64-bit and never wrap in practice);
  that none of them, and no hole, would go below 0 is part of `TypeOK`.

`GapStream.tla` is the contract: a source offers 0, 1, 2, ...; the decoder gets blocks,
each an unbroken run preceded by the number of samples skipped. `ImplementsGapStream`
is the refinement: a `Deliver` of the contract is the step in which `read()` returns.

The accounting (`EverySampleAccountedFor`) reads: everything streamed is delivered, or
in `read()`'s hand, or a hole pending, or unread in the ring, or in the hole still
growing, or in `produce()`'s hand.

## 4 The network radio

`NetworkRadio.tla` models `radio::NetworkRadio`, the client of an sdrlink server, with
three threads: `ui` (the caller), `ka` (keepalive_main) and `rx` (rx_thread_main with
recover_stream). The server and the network are the environment.

* A request is one step, since `config_mutex_` is held throughout. The reconnect
  ladder (`reconnect_control`) has a step for each connection it makes and one for the
  replay, because outages and the other threads' unlocked stores fall between them.
* The stages `establish`, `replay`, `retry`, `start` and `connect` are where the owner
  of the mutex is; `reconnecting_` is their consequence and has no variable.
* `Policies` are the values of `ReconnectPolicy::max_attempts`: 0, which switches
  reconnection off, is set by the tests only.
* Settings are split into those `replay_settings()` sends (`Replayed`) and those that
  `open()` initialises (`Seeded`); `Achieved` is the device's rounding. A rate, a frequency
  and a bandwidth of 0 are not sent (`ZeroIsAbsence`), a gain of 0 is. The runs have a
  frequency, the proofs any settings.
* `HalfOpen` lets a vanished host leave the stream socket silent rather than ended.
  The reader then waits on it for as long as nothing closes it: a stream in that state is
  neither lost nor live in the model.
* `receiving` is `ReceiverModel::running_`, which is why `start_rx()` is not called
  twice in a row.

Abstracted: frames and their sequence numbers (a lost frame only moves a counter), the
sample ring, JSON, the time between attempts. `set_rx_agc`, the two bandwidth
filters and the transmit side send the same kind of request and are not repeated. A
keepalive interval of 0 (a seam for the tests) is not modelled.

## 5 The replay model

`ReplayModel.tla` models `radio::ReplayModel`: an IQ file played by a DSP thread into a
sink. The reader, its position, the block in hand and the remainder that the sink
refused are intervals of sample indices; the transport calls of the UI thread are
split where the code gives up a mutex, and so is each pass of `dsp_thread_main`.

* A read, and the seek to the start in a loop, may fail; both end the thread.
* Resampling and the pacing clock are abstracted: a pass owes a whole number of
  samples up to a block, or nothing.
* `wait_for_idle()` gives up after 500 ms in the code. Here it waits: the properties
  about `pause()` describe a thread that is scheduled in time.
* `due` and `order` are history: the sample the listener should hear next, and what
  first went wrong.
* `SeekIn` names the states in which the caller seeks. The applications seek only
  while stopped, and the run `replay_playback` covers that use; `ReplayModel_seek.cfg` adds
  the seeks while playing that the class itself allows.

## 6 The USRP radio

`UsrpRadio.tla` models the receive half of `radio::UsrpRadio`: `rx_thread_main` with its
watchdog, `start_rx`, `stop_rx`, and `set_rx_rate` where it moves the master clock and so
replaces the streamer under the thread.

* A streamer is `"current"`, `"old"` (replaced) or `"null"`, seen from the device
  (`rx_stream`) and from the thread (`stream`); `moved` is the question the thread asks of
  `rx_stream_generation_`, so the counter itself needs no bound.
* UHD is external: a replaced streamer throws, one whose clock was moved under it or that
  was wedged returns nothing (`hw`), as the driver's comments say.
* `ReplacementIsAnnounced` is the abstract promise to the thread: whenever it works on a
  streamer that is not the device's any more, the counter has moved or is about to.

`set_rx_rate` on a live stream is part of the driver's contract (the hardware tests use it);
`ReceiverModel` stops first. Left out: tuning, gain, antenna, capability reading (single
UHD calls under the mutex), statistics.

## 7 A burst on its way: ring, transmitter, Morse

`RingBuffer.tla` is `dsp::RingBuffer` in steps of its atomics: load both indices, copy,
store one. `Fifo.tla` is what it promises. `Transmission.tla` owns the ring and adds

* `morse_tx_request` (connection thread), `morse_tx_tick` (UI thread) and the source,
* `TransmitterModel::start`, `stop`, and the raw branch of its DSP thread, which pulls a
  block only when the ring has room for it,
* `UsrpRadio::start_tx`, `stop_tx` and the transmit thread,
* the two others who may stop a transmission: an application, and a reconnect of the
  device view, which makes a new ring.

`ImplementsFifo` says that the ring, through clears, short reads and a stop in the middle
of a copy, is the queue of `Fifo`. `SentInOrder` then speaks of the end of the chain: what is
given to UHD's `send()` is the burst, from its first sample, nothing missing, doubled or left
from the one before. What the antenna gets differs from it in two ways. `send()` has half a
second and may come back with fewer samples than it was given; the loop does not look and
reads the next block over the rest, which is lost (`short`; `usrp_radio.cpp:819-820`). And
where the ring has too little the block is filled with zeros, so that a DSP thread that is
late leaves silence in between the samples; this is not modelled.

## 8 The receiver model

`ReceiverModel.tla` models the control surface of `radio::ReceiverModel` against its DSP
thread. A block carries the oscillator and the rate it was sampled with; a chain the mode
and the rate it was built for. Code under one mutex is one step; `set_mode`, which marks
the chain dirty after it has given up the mutex, is two. `set_sampling_rate` is a sequence
of steps (stop, device, filter, tap, start). The radio is abstract: it rounds, fills its
ring, drops what does not fit, may refuse. Targets, rates and hints are natural numbers,
rates positive, and a radio's ranges are made of natural numbers, all zeros where it says
nothing (`AskedAssumption`, `RadioAssumption`).

`FrontEndFollowsRate` says of the filter what the code does in every case: a hint goes
through `Range::clamp()`, which clamps nothing when the range has no extent. A radio with
one filter width (`min = max`) is therefore asked for the hint as it is, although without a
hint it is asked for its one width. The runs have no such radio.

## 9 Rates, filters and gains

`Capabilities.tla` translates `rate_policy.cpp`, `capability_policy.cpp` and
`Range::clamp` as operators over whole numbers, with `NotReal` for infinities and NaN and
`Denormal` for divisors that make a quotient infinite. `RatePolicy.tla` measures the rate
choice against the five guarantees of `rate_policy.hpp`, stated by quantification over the
rates a radio has (`RadioRates`, `Nearest`), not by calculation. What a radio publishes and an
application wishes are whole numbers or `NotReal` (`InputsAssumption`); a step too small to
divide by is left out. `PolicySpec` is the choice made for it. `ReceiverModel` uses the same
operators for its filter and gain.

`KeepsItsPromises` is what the code keeps of the five guarantees. 1, 2 and 5 it keeps for
every radio and application but two kinds: an ideal below the first step of a grid that
begins at zero is answered with the ceiling of the radio (`FallsToZero`), and guarantee 2 is
not asked for an application whose bounds contradict each other (`Sane`). Without a step it
keeps 3 and 4 for whoever asks for a rate at all, where a multiple below the application's
own minimum, of which the header does not speak, is not given. On a radio with a step it keeps
less than the header says, and the property asks for no more: a preferred multiple is given if
it is one of the two next to the rate, and the rate is the nearest from below. A radio of 1 to
7 in steps of 3 has 1, 4 and 7; asked for 8 in multiples of 2 it is run at 7, although 4 is a
multiple it has.
`MultipleWhereAdmitted` and `AsCloseAsAllowed` quote the header for every radio and are
violated (`RatePolicy_steps.cfg`, section 15).

## 10 Applications and navigation

* `RadioUse.tla`: the receiver and the transmitter as the UI thread sees them, and the
  calls on them as data (`Do`, `Perform`).
* `AppProfiles.tla`: for each application of `src/apps` that uses the radio, the calls of
  its constructor, `on_show`, `on_hide`, destructor and buttons, in the code's order.
* `Navigation.tla`: the view stack, the deferred operations that `service()` applies, the
  home screen with its stop of everything, modals, the portal's launch queue, and the
  order of a frame. The Morse sender's tick and the end of a waveform (found by the DSP
  thread) come in between.

A frame is cut into the phases `events`, `drain` and `sync`, in the order of `main.cpp`.
Within one, everything runs on the UI thread and is one step. `service()` is `Serviced`: the
queued operations one after another (`Applied`), each hiding and destroying views
(`HideTop`, `DropTop`, `DropAboveRoot`) or putting one on top, and then, if anything changed,
`on_show()` of the view on top and the stop of everything at the root (`Settled`).

A prompt and a page have an `owner`, the view whose methods their buttons call. What a call
into a destroyed owner does is not defined, so `Answer` has no step for it; `OwnersAreAlive`
says when there is none. `PushAfterPop` says whether an event handler may push a view over one
that another event of the same frame has already popped. The program allows it: two touches or
keys between two frames are two events, and the first only queues its operation. With it a
prompt can outlive its application (`Navigation_owner.cfg`, section 15) and, with a third event
in the same frame, an application can come up as another left the receiver. The two runs are
without it, and the theorems that need that say so.

## 11 The portal

`Portal.tla` composes the Go hub (`webgui/internal/portal/server/screen.go`) and the
endpoint in the program (`AppBridge`, `RemoteServer`). A long poll and an input loop exist
per *generation*: when the last browser leaves, the loops are cancelled and may still run
beside those of the next one. Requests with input (`posts`) can be served after one
another's successors, or be lost with the program, which may end and start again with frame
numbers from 1.

## 12 The web GUI

`SdrClient.tla` models the control connection (`sdrclient/client.go`): ids, the table of
pending calls, time-outs, late, doubled and reordered replies, the end of the connection.
`WebDevice.tla` extends it with what makes the calls: `OpenDevice`, `CloseDevice`, the
adapter's setters, `StartRx`, `StopRx`, the fan-out, and the spectrum socket that looks up
the current adapter and subscribes to it.

The server may refuse any command, `close_device` too. `CloseDevice` has forgotten the adapter
by then and returns the error to its caller; `OpenDevice` gives a device back that it cannot
read and ignores the error (`backend.go:100`). Neither tries again, so the server keeps the
device (`server.kept`) and refuses every later open, until the session ends. `OpenIsReachable`
names this as the one reason, besides an adapter, for a device to be open; the time-outs of
calls, which can bring a device into the same state, it leaves out.

## 13 Runs

| Run | Configuration | Checks | Size |
|---|---|---|---|
| `tap` | `RawSampleTap_stream.cfg` | `BlockContiguousAndPlaced`, `EverySampleAccountedFor`, `CountersBalanceAtRest`, `NoSlotRace`, `ExclusiveReallocation`, `ImplementsGapStream`, `TearHeals` | 649 k states |
| `net` | `NetworkRadio_link.cfg` | `TuningSurvives`, `StreamIsTuned`, `ClosedStaysClosed`, `CallsReturn`, `LinkRecovers` | 252 k |
| `replay_playback` | `ReplayModel_playback.cfg` | `InOrder`, `CallsReturn`, `PlaybackEnds` | 20 k |
| `usrp_stream` | `UsrpRadio_stream.cfg` | `ReplacementIsAnnounced`, `StopReturns`, `SamplesResume` | 11 k |
| `tx_burst` | `Transmission_burst.cfg` | `SentInOrder`, `SamplesOutliveTheSource`, `ImplementsFifo`, `BurstEnds` | 470 k |
| `receiver` | `ReceiverModel_run.cfg` | `TargetInTheBand`, `LateByOneBlock`, `FrontEndFollowsRate` | 1.8 M |
| `rate_choice` | `RatePolicy_choice.cfg` | `KeepsItsPromises` | 33 k |
| `apps_receive` | `Navigation_rx.cfg` | `ShownAsConfigured`, `ResourcesHaveOwners`, `FoundIsRestored` | 712 k |
| `apps_transmit` | `Navigation_tx.cfg` | `NoDanglingSource`, `CarrierIsAccountedFor`, `OwnersAreAlive`, `BurstEnds` | 106 k |
| `portal` | `Portal_hub.cfg` | `KeysReleased`, `CatchesUp`, `NobodyLooksNobodyPolls` | 327 k |
| `web` | `WebDevice_gui.cfg` | `OwnReply`, `OpenIsReachable`, `NeverPanics`, `SpectrumFollows` | 546 k |
| `portal_closed` | `Portal_closed.cfg` | expects `ReleasedOnDisconnect` violated | |

The modules with threads also have a `TypeOK`, the statement of their state space: the
invariant holds in each of these configurations when it is put in the place of their
properties, and section 14 proves it for all of them but `Portal`. The runs themselves list
what could fail for a reason in the code.

**Bounds.**

* Tap: rings of 2 and 3 slots, blocks of 1 and 3 (smaller and larger than the free space,
  and than the ring), at most 5 samples offered: enough to wrap the smaller ring twice,
  overflow, heal and overflow again, with a resize in between. The proofs hold for every
  ring, block and stream.
* Network radio: 4 outages, one of each kind, or a second while the first is being
  repaired; attempts 0 and 2, so that a ladder can be off, succeed at its second rung or
  be spent; one setting (a frequency), rounded by the device or not.
* Replay: files of 0 and 4 samples in blocks of up to 2, so that a file takes two passes,
  can be refused in part, and can wrap.
* USRP: 4 faults, so that start commands can be refused until the radio counts as broken
  (3), and a rebuild can itself fail.
* Transmission: 4 slots (3 usable), bursts of 4 in blocks of 2: a burst is longer than the
  ring and wraps it; two bursts after one another can be told apart.
* Receiver: rates below, in and above the radio's range, a filter narrower than the fastest
  rate, a target near and one far from the oscillator, a ring of 2 blocks; two modes, one
  of which demodulates nothing.
* Rates: ranges with and without a step, from zero and above it, empty, reversed and not
  finite, with every combination of the opinions, useful or not.
* Applications: two different applications in one behaviour, each any number of times
  and in any order (the one before and the one after), a stack of 4 views, one or two operations queued in
  one frame and one portal request; with and without a device for the transmitters.
* Portal: two browsers, two generations of loops; two frames in each of two runs of the
  program, or one press and its release (`EitherSide`: the frames and the keys touch no
  state in common). The queues hold one event, so that they overflow.
* Web GUI: two concurrent callers, three requests, two faults.

Deadlock is checked but in the runs of the USRP radio, the transmission and the web GUI: a
program that has ended (`terminate`) or a GUI nobody uses any more stands still.

**Fairness.**

* Tap: the DSP thread leaves `write()` (weak), a call under way on the UI thread goes on
  (weak), and the spin of `drain_producer()` sees the producer outside in the end (strong):
  the DSP thread sleeps on the radio's ring between blocks and the spin loads the flag far
  more often. Nothing forces new blocks or new control calls.
* Network radio: strong fairness of each thread's steps, since a thread finds
  `config_mutex_` free again and again (the keepalive holds it for a request every two
  seconds, the ladders sleep between attempts). Nothing is assumed of callers, the server or
  outages; the properties say "if the server is up for good".
* Replay: both threads run (weak); the sink takes something and the clock owes something
  again and again when asked (strong), as the transmitter drains and time goes on.
* USRP: the RX thread and a call that was made go on (weak): `recv()` has a time-out, a start
  command returns or throws. Nobody has to call, and the device need not fail or work.
* Transmission: the DSP thread, the transmit thread and calls under way go on (weak); the
  tick comes again and again between other calls of the UI thread (strong).
* Navigation: the phases of a frame come again and again, and the DSP thread comes to the
  end of a waveform (weak). Nobody has to press anything.
* Portal: the goroutines run, a poll ends at its deadline, a request ends, the main loop
  draws. Nobody has to come, leave or press, and the display need not change.
* Web GUI: the goroutines run, the ticker ticks, a server whose connection stands answers.
  A timer that fires is a fault, so a property cannot owe its truth to time-outs.

**Faulty variants.** Each module holds variants of its definitions (named in its header)
that no specification uses. Each is a plausible mistake in the code; putting it in the
place of the definition it precedes makes TLC find the property named for it in
`PROJECT.json` ("mutants") violated.

## 14 Proofs

TLAPS proves the theorems below for every value of the constants: any capacity, block,
file, burst, number of faults, callers, requests, settings, attempts. The assumptions on
the constants are those of the modules, each named and evaluated by TLC in the runs; a
theorem that needs more says so. Each `IInv` was checked by TLC on the configuration of its
component's run before it was proved. A proof has one lemma per action or group of actions,
and under it a step per conjunct that the action can disturb.

| Module | Theorem | States |
|---|---|---|
| `RawSampleTapProofs` | `InductiveInvariant`, `TypeCorrect` | `[]IInv`, `[]TypeOK` |
| | `BlocksCorrect` | `[]BlockContiguousAndPlaced`: the contract of `read()` |
| | `NoSilentLoss` | `[]EverySampleAccountedFor` |
| | `CountersBalance` | `[]CountersBalanceAtRest` |
| | `NoRaceOnSlots` | `[]NoSlotRace` |
| | `ReallocationIsExclusive` | `[]ExclusiveReallocation` |
| | `TapImplementsContract` | `Spec => Contract!Spec` (GapStream) |
| `NetworkRadioProofs` | `InductiveInvariant`, `TypeCorrect` | `[]IInv`, `[]TypeOK` |
| | `SettingsSurvive` | `[]TuningSurvives` |
| | `SamplesAreTuned` | `[]StreamIsTuned` |
| | `CloseIsFinal` | `[]ClosedStaysClosed` |
| `ReplayModelProofs` | `TypeCorrect` | `[]TypeOK`, wherever seeks are made |
| | `SamplesInOrder` | `[]InOrder`, if seeks are made only while stopped |
| `UsrpRadioProofs` | `InductiveInvariant`, `TypeCorrect` | `[]IInv`, `[]TypeOK` |
| | `ReplacementAnnounced` | `[]ReplacementIsAnnounced` |
| | `ThreadIsJoined` | `[]JoinedBeforeRestart`: no thread object is assigned while joinable |
| `TransmissionProofs` | `InductiveInvariant`, `TypeCorrect` | `[]IInv`, `[]TypeOK` |
| | `BurstIsSentInOrder` | `[]SentInOrder` |
| | `SamplesOutlive` | `[]SamplesOutliveTheSource` |
| | `RingIsAQueue` | `Spec => Queue!Spec` (Fifo) |
| `ReceiverModelProofs` | `InductiveInvariant` | `[]IInv` |
| | `TargetStaysInTheBand` | `[]TargetInTheBand` |
| | `OneLateBlock` | `[]LateByOneBlock` |
| | `FrontEndIsConsistent` | `[]FrontEndFollowsRate` |
| | `RatesKeepPromises` | `PolicySpec => []KeepsItsPromises`, the guarantees as far as they are kept (section 9) |
| `NavigationProofs` | `Invariant`, `TypeCorrect` | `[]IInv`, `[]TypeOK` |
| | `SourcesStay` | `[]NoDanglingSource` |
| | `CarrierHasAnOwner` | `[]CarrierIsAccountedFor` |
| | `ResourcesAreReturned` | `[]ResourcesHaveOwners` |
| | `OwnersStay` | `[]OwnersAreAlive`, if nothing is pushed after a pop |
| | `ShownConfigured` | `[]ShownAsConfigured`, if nothing is pushed after a pop |
| | `SettingsGivenBack` | `FoundIsRestored` |
| `WebGuiProofs` | `KeysInductiveInvariant` | `PortalSpec => []KeysIInv` |
| | `KeysAreReleased` | `PortalSpec => []KeysReleased` |
| | `InductiveInvariant` | `[]IInv` |
| | `RepliesMatch` | `[]OwnReply` |
| | `NoChannelClosedTwice` | `[]NeverPanics` |
| | `OpenDeviceIsReachable` | `[]OpenIsReachable` |

**Tap.** The contract of `read()` is not inductive: that a block is right depends on what
the slots hold, which depends on the ring never overfilling and on a hole never being
published while samples from before it are unread. `IInv` adds just that: `GateInv`
(who may be where while the tap is closed), `SpaceInv` (occupancy), `ReaderInv` (what
`read()` remembers), `SeamInv` (a seam is at the write position; a hole is not published
early), `ContentInv` (slots hold consecutive samples) and `CounterInv`. Slots need
arithmetic modulo the capacity: `ModRange`, `DivMod`, `MultiplesApart`, `ModWindow` and
`SlotInjective` say that a window no longer than the ring visits no slot twice. Freedom from
slot races then follows from `SpaceInv` and `ReaderInv` alone.

**Network radio.** That a stream is tuned depends on who holds `config_mutex_` and how far
its ladder is. `LockInv` ties the owner to the stage of the ladder, `ReaderInv` and `CallInv`
say which threads exist during which call, `SessionInv` that a session which still has to be
tuned does not stream, `StreamInv` that a live stream comes from an armed session of an open
radio and has a reader. `OpenInv` is there because `recover_stream()` clears `open_` without
the mutex: it may do so only where nobody is about to rely on it. `ClosedInv` says that after
`close()` neither the keepalive nor the reader is left to connect again.

**Replay.** `InOrder` alone says what the sink was given; to preserve it, what is still to
be given must be known. `OrderInv` says that, during a pass, the block in hand, then what the
sink refused, then the rest of the file are one stretch from the sample that is due.
`StoppedInv` says that a stopped model has no pass under way, which is where the hypothesis
on seeks enters; `ReplayModel_seek.cfg` shows the counterexample without it.

**USRP.** `ReplacementIsAnnounced` needs that the device's streamer is the one handed out
last (`NewestInUse`). `StoppedIsJoined` is what makes `start_rx()` after a thread that ended
by itself safe: a model that believes it is stopped has joined its thread.

**Transmission.** What the device has given to `send()`, the block in its hand, the ring and
the block in the DSP thread's hand are one stretch of the burst (`OrderInv`), because the ring
is empty when a burst begins, each half of it is used by one thread (`ThreadInv`), and a block
is pulled only when it fits (`RoomInv`). For the refinement a queue is read off the ring
(`Content`): the store of the write index is `Put`, that of the read index is `Get`, `clear()`
is `Clear`, and all other steps stutter, among them the copies, for which `WriterInv` and
`ReaderInv` say that the slots being copied are none the other side owns. The number of slots
is any power of two.

**Receiver.** `BandInv` says that the target is in the band also while the oscillator has
been moved and the mixer is still to follow; `RingInv` that every block was sampled at the
rate the radio has; `FrontInv` says that the filter is behind only between a new
rate and the restart it makes; `ChainInv` that a chain which is out of date is marked dirty,
or its one late block has been counted. Trying to prove `FrontEndFollowsRate` led to the case
of the single filter width (section 8).

**Rates.** The proof follows the calculation: the ideal, bounded by the range (`Within`),
moved down onto the steps (`SnapDown`, `DeviceType`), and then to a multiple of the symbol
rate (`Floor`, `Ceiling`: no other multiple is nearer from that side). Moving down passes no rate
of the radio by, so the rate is the nearest from below, and on any side without a step
(`DeviceIsNearest`). The assumption is
`InputsAssumption`. The tolerance is any natural number; the run has 0.

**Navigation.** The theorems hold for every set of the 69 applications, every bound and
any number of applications opened, views stacked and operations queued. What an application
does to the radio is data, a sequence of calls, and `service()` is a recursion over a queue.
Neither needs an induction theorem with an operator for a parameter: `UpTo` takes the *set* of
the numbers a property holds of, and its proof is that a non-empty set of naturals has a least
element (`LeastNumber`); `Recursion` gives a recursively defined function its defining equation
in the same way. The argument then has three layers.

* *Calls.* `ProfilesConform` checks of each application, by name, what the layers above rely
  on: it sends with one kind of source only; its destructor ends what its start button
  began; the tap, the recording and the microphone it opens it closes; no `on_hide` and no
  destructor opens any of them. `PerformEffect`, `PerformOpens` and `PerformCloses` say what a
  sequence of such calls does.
* *Views.* `HideTopGood`, `DropTopGood`, `DropAboveRootIs` and `ApplyPush` say what one operation
  does to the stack and the radio; `AppliedReached` what a queue of them does.
* *The invariant.* `Shape`: the root is at the bottom, identities differ. `Owned`: each shared
  resource and each transmitter source belongs to a view on the stack. `Carried`: a view
  believes it is transmitting exactly while it is, as far as the browser's Morse sender is not
  in between. `Queued`: the queue fits the stack it will be applied to; a view that is still
  queued has an identity of its own and uses nothing. A view that sends is covered by
  pages and prompts only, hence at most one does; this is where the order of the operations
  matters.

`OwnersStay` needs in addition that, with `PushAfterPop = FALSE`, every push of a frame comes
before its first pop (`PushesFirst`), so that a prompt is applied over the very view that asked
for it and covers it (`Attended`, `ViewsStay`).

`ShownConfigured` needs that and `ShownInv`: while nothing is queued, the application on top
finds the receiver `Ready`, and only the view on top can be one that has not been shown or
covered since it was opened (`FreshOnTop`). The hard case is an application that sets the
receiver up in its constructor, which runs when the operator chooses it, while `service()`
shows it later, after the rest of the batch. `Kept` says what the operations of a batch leave
of that: hiding a view tunes nothing, so as long as they are pushes the receiver is tuned as
the constructor left it (`ReadyToPush`). `ProfilesTune` says of each application, by name, that
`on_show()` sets up what it needs or leaves alone what its constructor set up, and that its
buttons do not undo it.

`SettingsGivenBack` holds for both values of `PushAfterPop`; it needs `FoundInv`. What gives
settings back and has been shown remembers the ones it found (`Remembers`). Only what gives
nothing back lies over a shown application, and only over one that opens something
(`MayCover`), so of several views destroyed together at most one has something to give. And
what is queued keeps to that when it is applied (`Promised`). `DropRestores` says that
destroying the top leaves the radio as each destroyed view found it; `Follows` is what the
operations of a batch leave: a pushed view was destroyed again (the property says nothing of
such a batch), or a view was pushed last, or views were only removed, in which case the menu
that is then shown tunes nothing (`MenuTunesNothing`). `ProfilesRestore` says of each
application, by name, that only `on_show()` saves settings, before it changes any, and that
its destructor gives back what was saved.

**Portal.** A key event passes the hub's batch, a request, the program's queue and the key.
The newest event on that way decides what the key will be (`WillBeDown`), so `IInv` demands
that this event agree with what the hub believes is held. What a failed or overtaken request
carried may be lost, as `spoilt` records, and the invariant then says nothing; no more does
the property.

**Web GUI.** Ids are handed out once, so a reply's id determines its request (`IdInv`), and an
id is at one place at a time (`OnceInv`). `SocketInv` says which channels are open, closed or
not yet made; adapters come one after another and none becomes current twice. For
`OpenIsReachable`, as long as nothing was late and the connection stands, every request on
its way has its caller waiting (`Awaited`), and the server's device is open for exactly one
reason: there is an adapter, one is being made, the last one is being closed, or its close was
refused (`ForOneReason`).

**Only model-checked:**

* Liveness: `TearHeals`, `CallsReturn`, `LinkRecovers`, `PlaybackEnds`,
  `StopReturns`, `SamplesResume`, `BurstEnds`, `CatchesUp`, `NobodyLooksNobodyPolls`,
  `SpectrumFollows`. Fairness and ENABLED are out of TLAPS's reach.
* `TypeOK` of `Portal`, whose queues are filtered with `SelectSeq`.

## 15 Disagreements between the code and its documentation

Each was found while modelling and ends in a counterexample of TLC. One is a run and a
finding of `PROJECT.json`; the other configurations are kept beside it. Those that name two
properties are run with TLC's `-continue`, which shows a counterexample of each.

| Configuration | Violated | What happens |
|---|---|---|
| `Portal_closed.cfg` (run `portal_closed`) | `ReleasedOnDisconnect` | a release that waits in `inputQ` when its socket ends is dropped, and the key stays down |
| `NetworkRadio_gaveup.cfg` | `KeepaliveRestores` | `recover_stream()` gives up because the *stream* cannot be restarted and declares the live control link Disconnected; pings then succeed and never correct it |
| `NetworkRadio_dropped.cfg` | `StreamComesBack` | after an outage longer than the stream's attempts the link comes back, the stream does not, and the receiver counts as running |
| `NetworkRadio_unreplayed.cfg` | `EveryCachedSettingSurvives` | the LO offset and the transmit settings are cached and not sent again |
| `ReplayModel_seek.cfg` | `SeekIsClean` | a block already read is handed over after a seek has returned |
| `ReplayModel_pause.cfg` | `PauseSettles` | `play()` clears the idle acknowledgement, a thread just parking sets it again, and the next `pause()` returns early |
| `ReplayModel_resume.cfg` | `ResumedPlaybackEnds` | `pause()` overwrites the Stopped of a thread that just reached the end of the file; a later `play()` resumes no one |
| `UsrpRadio_null.cfg` | `PickedUpBeforeUse` | a thread stopped before its first pass issues the stop command through a null streamer |
| `Transmission_cut.cfg` | `FinishedIsSent` | a burst is finished when its last sample is in the ring; `stop()` ends it with samples still queued. A send that was short cuts it too |
| `Navigation_audible.cfg` | `ListeningAppAudible` | an application made for listening can be shown muted after one that mutes |
| `Navigation_morse.cfg` | `SendingIsAlwaysOnAir` | the end of the browser's Morse takes the carrier from an application that started meanwhile |
| `Navigation_owner.cfg` | `OwnersAreAlive` | Back and then Start in one frame: the pop is applied before the push of the prompt, the application is destroyed under it, and Yes calls `start_tx()` of the destroyed view. `ui_navigation.hpp:22-25` gives the deferral as what makes it safe to change the stack from within a view's own handler |
| `RatePolicy_steps.cfg` | `MultipleWhereAdmitted`, `AsCloseAsAllowed` | with a step, a preferred multiple the radio has is not found unless it is next to the rate, and the rate is moved down where the one above is nearer; `rate_policy.hpp:117-119` promises both where the range admits them |
| `RatePolicy_grid.cfg` | `BelowMinimumIsTrue` | with a step, an application can be told that the radio is too slow for it when it has a faster rate |
| `ReceiverModel_centre.cfg` | `RecordingIsCentred` | the description of a recording names the target; the samples are centred on the oscillator |
| `WebDevice_state.cfg` | `StateIsDevice` | two setters at once store their answers in the other order than the device applied them |
| | `StreamingIsTrue` | a `StopRx` overtakes the dial of a `StartRx`: the state says streaming is off, the stream is on |

Seen in the models and without a configuration of their own: the tap's counters are "exact at
every instant" (`receiver_model.hpp`) only while no write is under way, since a block counts as
offered before it is committed or dropped; a half-open stream keeps the
reader waiting for ever; a getter may report the unrounded value it replayed; a recovery cut
short by `stop_rx()` leaves the link at Reconnecting until the next request; `stop_rx()` with
no stream open does not tell the server; a seek at the instant the file ends is overwritten
by the end; a flush meant for the old position may drop samples that were read after the
seek; a post that a failed or overtaken request carried leaves a key as it was; an open that
times out and succeeds afterwards leaves the device open on the server, and so does a
`close_device` that the server refuses: no adapter is left to close it, and every later open
is refused as in use; a new frame with the
number of the last one before a restart is shown only with the next change.

## 16 What is not modelled

`PROJECT.json` ("components") has a row for each part and the reason.

* **Applications.** What an application decodes, draws and stores, and the ones that never
  touch the radio. They make up most of the source: sequential code on one thread whose
  substance is bit layouts, text and pixels.
* **DSP and decoders.** Filters, modulators and protocol decoders compute on floating point
  and bits; TLC cannot enumerate their inputs and a model would repeat them line by line.
* **UI toolkit, window, input.** Widgets and drawing on one thread without state that
  outlives a view; fonts and bitmaps are data.
* **The modulation of the transmitter.** The microphone sets it when it is shown and when its
  field changes, sending or not (`MicTXView::apply_mode`), and so also under the Morse sender.
  The profiles leave it out: the properties are about who is on the air, not in which mode.
* **Audio.** Platform I/O around the ring of `RingBuffer`. The feeder's idle gate is left.
* **Files, settings, telemetry, panel providers, HTTP, WebSocket framing, JSON.** I/O and
  formatting.
* **Tile proxy, quit handler.** Small state machines beside the radio and the screen; the
  first candidates for an extension.
* **USRP tuning, gains and capability reading; the transmit side of the network radio.**
  Single calls under the mutex, of the kind the models already have.
* **Browser pages, packaging, installers, scripts, tools, tests.** Not part of the program
  that runs the radio.
