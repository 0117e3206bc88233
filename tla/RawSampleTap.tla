---------------------------- MODULE RawSampleTap ----------------------------
(***************************************************************************)
(* radio::RawSampleTap (src/src/radio/receiver_model.cpp): the lock-free   *)
(* ring between the DSP thread, which must never wait, and the one decoder *)
(* on the UI thread, which must be told where every lost sample was.       *)
(*                                                                         *)
(* Two threads take turns one atomic access at a time.  The DSP thread     *)
(* runs write()/produce() at pc "ppc"; the UI thread runs read() and the   *)
(* control calls open/restart/close/reset_stats at pc "cpc" (the contract  *)
(* of the class puts both on one thread).  A sample is its own position in *)
(* the stream offered to the tap, so a delivered block can be compared     *)
(* with what the radio really sent.  The code's release/acquire pairs are  *)
(* modelled as sequentially consistent accesses in program order.          *)
(*                                                                         *)
(* ReserveOneTooMany, TakeGapWithoutExchange, ClearSeamByFlag,             *)
(* ClearSeamIfSamples, DrainedWithoutWaiting, RestartStreamUncounted and   *)
(* ReallocateForgetsTear are faulty variants of the definitions they       *)
(* precede.  No specification uses them: each is a mistake that one of the *)
(* properties has to catch.                                                *)
(***************************************************************************)
EXTENDS Integers, FiniteSets

CONSTANTS
    Capacities,  \* ring sizes an app or a rate change may ask for
    Counts,      \* sizes of the blocks the DSP thread offers
    MaxStream,   \* bound on the samples offered in one behaviour
    Zero         \* a value-initialised element of the buffer

ASSUME CapacitiesAssumption == Capacities \subseteq Nat \ {0}
ASSUME CountsAssumption == Counts \subseteq Nat
ASSUME MaxStreamAssumption == MaxStream \in Nat
ASSUME ZeroAssumption == Zero \notin Nat

VARIABLES
    buffer, capacity,              \* buffer_, capacity_
    write, read,                   \* absolute positions write_, read_
    torn, tear_pos,                \* the seam the consumer must drain to
    gap_pending, episode_gap,      \* published hole; hole still growing
    offered, delivered, dropped, overflows,
    enabled, producer_in,          \* the Dekker handshake
    ppc, count, n,                 \* produce(): its argument, what fits
    cpc, want, r, w, lost, out,    \* control and read(): their locals
    streamed, expected, counting   \* history: see below

(***************************************************************************)
(* History variables.  "streamed" is the position of the next sample the   *)
(* DSP thread will offer; "expected" is the position the consumer believes *)
(* comes next, from what read() has returned to it; "counting" says that   *)
(* reset_stats() has not been called.                                      *)
(***************************************************************************)
ring == <<buffer, capacity, write, read>>
tear == <<torn, tear_pos, gap_pending, episode_gap>>
stats == <<offered, delivered, dropped, overflows>>
gate == <<enabled, producer_in>>
producer == <<ppc, count, n>>
consumer == <<cpc, want, r, w, lost, out>>
history == <<streamed, expected, counting>>
vars == <<ring, tear, stats, gate, producer, consumer, history>>

Slot(p) == p % capacity
Nothing == [i \in 0 .. -1 |-> Zero]
Unread == write - read

Init ==
    /\ buffer = Nothing /\ capacity = 0
    /\ write = 0 /\ read = 0
    /\ torn = FALSE /\ tear_pos = 0 /\ gap_pending = 0 /\ episode_gap = 0
    /\ offered = 0 /\ delivered = 0 /\ dropped = 0 /\ overflows = 0
    /\ enabled = FALSE /\ producer_in = FALSE
    /\ ppc = "outside" /\ count = 0 /\ n = 0
    /\ cpc = "idle" /\ want = 0 /\ r = 0 /\ w = 0 /\ lost = 0
    /\ out = Nothing
    /\ streamed = 0 /\ expected = 0 /\ counting = TRUE

-----------------------------------------------------------------------------
(* The DSP thread: write() and produce().                                  *)

Enter ==
    /\ ppc = "outside"
    /\ \E c \in Counts : streamed + c <= MaxStream /\ count' = c
    /\ producer_in' = TRUE
    /\ ppc' = "entered"
    /\ UNCHANGED <<ring, tear, stats, enabled, n, consumer, history>>

CheckEnabled ==
    /\ ppc = "entered"
    /\ ppc' = IF enabled /\ count # 0 THEN "produce" ELSE "leave"
    /\ UNCHANGED <<ring, tear, stats, gate, count, n, consumer, history>>

Offer ==
    /\ ppc = "produce"
    /\ IF capacity = 0
       THEN /\ ppc' = "leave"
            /\ UNCHANGED <<offered, streamed>>
       ELSE /\ ppc' = "seam"
            /\ offered' = offered + count
            /\ streamed' = streamed + count
    /\ UNCHANGED <<ring, tear, delivered, dropped, overflows, gate, count, n,
                   consumer, expected, counting>>

(* The ring is torn: the whole block joins the hole in progress.           *)
DiscardAtSeam ==
    /\ ppc = "seam" /\ torn
    /\ episode_gap' = episode_gap + count
    /\ dropped' = dropped + count
    /\ ppc' = "leave"
    /\ UNCHANGED <<ring, torn, tear_pos, gap_pending, offered, delivered,
                   overflows, gate, count, n, consumer, history>>

PublishGap ==
    /\ ppc = "seam" /\ ~torn
    /\ gap_pending' = gap_pending + episode_gap
    /\ episode_gap' = 0
    /\ ppc' = "reserve"
    /\ UNCHANGED <<ring, torn, tear_pos, stats, gate, count, n, consumer,
                   history>>

ReserveOneTooMany ==
    LET free_slots == capacity - Unread + 1
        fits == IF count < free_slots THEN count ELSE free_slots
    IN  /\ ppc = "reserve"
        /\ n' = fits
        /\ ppc' = IF fits # 0 THEN "fill" ELSE "overflow"
        /\ UNCHANGED <<ring, tear, stats, gate, count, consumer, history>>

Reserve ==
    LET free_slots == capacity - Unread
        fits == IF count < free_slots THEN count ELSE free_slots
    IN  /\ ppc = "reserve"
        /\ n' = fits
        /\ ppc' = IF fits # 0 THEN "fill" ELSE "overflow"
        /\ UNCHANGED <<ring, tear, stats, gate, count, consumer, history>>

(* The slots that produce() writes, and the sample that lands in each.     *)
Filling == {Slot(p) : p \in write .. (write + n - 1)}
SampleFor(i) ==
    LET p == CHOOSE p \in write .. (write + n - 1) : Slot(p) = i
    IN  (streamed - count) + (p - write)

Fill ==
    /\ ppc = "fill"
    /\ buffer' = [i \in DOMAIN buffer |->
                    IF i \in Filling THEN SampleFor(i) ELSE buffer[i]]
    /\ ppc' = "commit"
    /\ UNCHANGED <<capacity, write, read, tear, stats, gate, count, n,
                   consumer, history>>

Commit ==
    /\ ppc = "commit"
    /\ write' = write + n
    /\ ppc' = IF n < count THEN "overflow" ELSE "leave"
    /\ UNCHANGED <<buffer, capacity, read, tear, stats, gate, count, n,
                   consumer, history>>

Overflow ==
    LET missing == count - n
    IN  /\ ppc = "overflow"
        /\ dropped' = dropped + missing
        /\ overflows' = overflows + 1
        /\ episode_gap' = episode_gap + missing
        /\ tear_pos' = write
        /\ ppc' = "tear"
        /\ UNCHANGED <<ring, torn, gap_pending, offered, delivered, gate,
                       count, n, consumer, history>>

Tear ==
    /\ ppc = "tear"
    /\ torn' = TRUE
    /\ ppc' = "leave"
    /\ UNCHANGED <<ring, tear_pos, gap_pending, episode_gap, stats, gate,
                   count, n, consumer, history>>

Leave ==
    /\ ppc = "leave"
    /\ producer_in' = FALSE
    /\ ppc' = "outside"
    /\ count' = 0 /\ n' = 0
    /\ UNCHANGED <<ring, tear, stats, enabled, consumer, history>>

Write ==
    \/ Enter \/ CheckEnabled \/ Offer \/ DiscardAtSeam \/ PublishGap
    \/ Reserve \/ Fill \/ Commit \/ Overflow \/ Tear \/ Leave

-----------------------------------------------------------------------------
(* The UI thread: read().                                                  *)

Snapshot ==
    /\ cpc = "idle"
    /\ r' = read
    /\ w' = write
    /\ cpc' = "take_gap"
    /\ UNCHANGED <<ring, tear, stats, gate, producer, want, lost, out, history>>

(* How many samples this read() hands over.                                *)
Taken == IF capacity = 0 THEN 0 ELSE w - r

TakeGapWithoutExchange ==
    /\ cpc = "take_gap"
    /\ lost' = gap_pending
    /\ cpc' = IF Taken # 0 THEN "copy" ELSE "at_seam"
    /\ out' = Nothing
    /\ UNCHANGED <<ring, tear, stats, gate, producer, want, r, w, history>>

TakeGap ==
    /\ cpc = "take_gap"
    /\ lost' = gap_pending
    /\ gap_pending' = 0
    /\ cpc' = IF Taken # 0 THEN "copy" ELSE "at_seam"
    /\ out' = Nothing
    /\ UNCHANGED <<ring, torn, tear_pos, episode_gap, stats, gate, producer,
                   want, r, w, history>>

Copy ==
    /\ cpc = "copy"
    /\ out' = [k \in 0 .. (Taken - 1) |-> buffer[Slot(r + k)]]
    /\ cpc' = "release"
    /\ UNCHANGED <<ring, tear, stats, gate, producer, want, r, w, lost, history>>

Release ==
    /\ cpc = "release"
    /\ read' = r + Taken
    /\ delivered' = delivered + Taken
    /\ cpc' = "at_seam"
    /\ UNCHANGED <<buffer, capacity, write, tear, offered, dropped, overflows,
                   gate, producer, want, r, w, lost, out, history>>

ClearSeamByFlag ==
    /\ cpc = "at_seam"
    /\ torn' = FALSE
    /\ cpc' = "return"
    /\ UNCHANGED <<ring, tear_pos, gap_pending, episode_gap, stats, gate,
                   producer, want, r, w, lost, out, history>>

ClearSeamIfSamples ==
    /\ cpc = "at_seam"
    /\ torn' = (torn /\ ~(Taken # 0 /\ r + Taken = tear_pos))
    /\ cpc' = "return"
    /\ UNCHANGED <<ring, tear_pos, gap_pending, episode_gap, stats, gate,
                   producer, want, r, w, lost, out, history>>

(* torn_ and tear_pos_ are two loads; once torn_ is seen set, only this    *)
(* thread can clear it and the producer leaves tear_pos_ alone, so one     *)
(* step stands for both.                                                   *)
ClearSeam ==
    /\ cpc = "at_seam"
    /\ torn' = (torn /\ r + Taken # tear_pos)
    /\ cpc' = "return"
    /\ UNCHANGED <<ring, tear_pos, gap_pending, episode_gap, stats, gate,
                   producer, want, r, w, lost, out, history>>

(* The caller adds what it was told and what it got to its own position;   *)
(* the history variable does the same.                                     *)
Return ==
    /\ cpc = "return"
    /\ expected' = expected + lost + Taken
    /\ lost' = 0
    /\ out' = Nothing
    /\ r' = 0 /\ w' = 0
    /\ cpc' = "idle"
    /\ UNCHANGED <<ring, tear, stats, gate, producer, want, streamed, counting>>

Read == Snapshot \/ TakeGap \/ Copy \/ Release \/ ClearSeam \/ Return

-----------------------------------------------------------------------------
(* The UI thread: open(), restart(), close(), reset_stats().               *)

Open(c) ==
    /\ cpc = "idle"
    /\ c # 0
    /\ want' = c
    /\ enabled' = FALSE
    /\ cpc' = "drain"
    /\ UNCHANGED <<ring, tear, stats, producer_in, producer, r, w, lost, out,
                   history>>

Restart(c) ==
    /\ enabled
    /\ Open(c)

Close ==
    /\ cpc = "idle"
    /\ want' = 0
    /\ enabled' = FALSE
    /\ cpc' = "drain"
    /\ UNCHANGED <<ring, tear, stats, producer_in, producer, r, w, lost, out,
                   history>>

DrainedWithoutWaiting ==
    /\ cpc = "drain"
    /\ cpc' = IF want # 0 THEN "reallocate" ELSE "free"
    /\ UNCHANGED <<ring, tear, stats, gate, producer, want, r, w, lost, out,
                   history>>

Drained ==
    /\ cpc = "drain"
    /\ ~producer_in
    /\ cpc' = IF want # 0 THEN "reallocate" ELSE "free"
    /\ UNCHANGED <<ring, tear, stats, gate, producer, want, r, w, lost, out,
                   history>>

RestartStreamUncounted ==
    /\ dropped' = dropped
    /\ write' = 0 /\ read' = 0
    /\ tear_pos' = 0 /\ torn' = FALSE
    /\ episode_gap' = 0

(* Everything buffered, and a tear still open, become one pending hole.    *)
RestartStream ==
    /\ dropped' = dropped + Unread
    /\ write' = 0 /\ read' = 0
    /\ tear_pos' = 0 /\ torn' = FALSE
    /\ episode_gap' = 0

ReallocateForgetsTear ==
    /\ cpc = "reallocate"
    /\ buffer' = [i \in 0 .. (want - 1) |->
                    IF i \in DOMAIN buffer THEN buffer[i] ELSE Zero]
    /\ capacity' = want
    /\ RestartStream
    /\ gap_pending' = gap_pending + Unread
    /\ cpc' = "enable"
    /\ UNCHANGED <<offered, delivered, overflows, gate, producer, want, r, w,
                   lost, out, history>>

Reallocate ==
    /\ cpc = "reallocate"
    /\ buffer' = [i \in 0 .. (want - 1) |->
                    IF i \in DOMAIN buffer THEN buffer[i] ELSE Zero]
    /\ capacity' = want
    /\ RestartStream
    /\ gap_pending' = gap_pending + Unread + episode_gap
    /\ cpc' = "enable"
    /\ UNCHANGED <<offered, delivered, overflows, gate, producer, want, r, w,
                   lost, out, history>>

Enable ==
    /\ cpc = "enable"
    /\ enabled' = TRUE
    /\ want' = 0
    /\ cpc' = "idle"
    /\ UNCHANGED <<ring, tear, stats, producer_in, producer, r, w, lost, out,
                   history>>

(* The next subscription starts wherever the stream is by then.            *)
Free ==
    /\ cpc = "free"
    /\ RestartStream
    /\ gap_pending' = 0
    /\ buffer' = Nothing
    /\ capacity' = 0
    /\ expected' = streamed
    /\ cpc' = "idle"
    /\ UNCHANGED <<offered, delivered, overflows, gate, producer, want, r, w,
                   lost, out, streamed, counting>>

ResetStats ==
    /\ cpc = "idle"
    /\ offered' = 0 /\ delivered' = 0 /\ dropped' = 0 /\ overflows' = 0
    /\ counting' = FALSE
    /\ UNCHANGED <<ring, tear, gate, producer, consumer, streamed, expected>>

Control ==
    \/ \E c \in Capacities : Open(c) \/ Restart(c)
    \/ Close \/ Drained \/ Reallocate \/ Enable \/ Free \/ ResetStats

Next == Write \/ Read \/ Control

Spec == Init /\ [][Next]_vars

(***************************************************************************)
(* Both threads keep running: the DSP thread leaves write() once inside,   *)
(* and the UI thread finishes a call it started and keeps polling the tap  *)
(* from its frame handler.  The spin in drain_producer() loads producer_in *)
(* far more often than the DSP thread, which sleeps on the radio's ring    *)
(* between blocks, can toggle it, so the spin meets a FALSE: strong        *)
(* fairness for Drained.                                                   *)
(***************************************************************************)
LeaveWrite == Write /\ ~Enter
Fairness ==
    /\ WF_vars(LeaveWrite)
    /\ WF_vars(Read \/ Control)
    /\ SF_vars(Drained)

FairSpec == Spec /\ Fairness

-----------------------------------------------------------------------------
(* Properties.                                                             *)

(* Every variable stays in its range; in particular no position, hole or   *)
(* free-slot count that the code keeps in an unsigned integer goes below 0. *)
NumbersOK ==
    /\ capacity \in Nat /\ write \in Nat /\ read \in Nat
    /\ tear_pos \in Nat /\ gap_pending \in Nat /\ episode_gap \in Nat
    /\ offered \in Nat /\ delivered \in Nat /\ dropped \in Nat
    /\ overflows \in Nat /\ count \in Nat /\ n \in Nat
    /\ want \in Nat /\ r \in Nat /\ w \in Nat /\ lost \in Nat
    /\ streamed \in Nat /\ expected \in Nat

ModesOK ==
    /\ torn \in BOOLEAN /\ counting \in BOOLEAN
    /\ enabled \in BOOLEAN /\ producer_in \in BOOLEAN
    /\ ppc \in {"outside", "entered", "produce", "seam", "reserve", "fill",
                "commit", "overflow", "tear", "leave"}
    /\ cpc \in {"idle", "take_gap", "copy", "release", "at_seam", "return",
                "drain", "reallocate", "enable", "free"}

BuffersOK ==
    /\ buffer \in [0 .. (capacity - 1) -> Nat \cup {Zero}]
    /\ DOMAIN out \subseteq Nat /\ out \in [DOMAIN out -> Nat \cup {Zero}]

TypeOK == NumbersOK /\ ModesOK /\ BuffersOK

(* The contract of read() (receiver_model.hpp 65-74): a returned block is  *)
(* one unbroken run of the stream, and it starts exactly lost_before       *)
(* samples after the position the consumer had reached.  A hole reported   *)
(* late, reported in the wrong place or landing inside a block breaks it.  *)
BlockContiguousAndPlaced ==
    cpc \in {"release", "at_seam", "return"} =>
        \A k \in DOMAIN out : out[k] = expected + lost + k

(* Samples read() has moved past but not yet returned; samples of the      *)
(* block being offered that produce() has neither committed nor dropped.   *)
InHand == IF cpc \in {"at_seam", "return"} THEN Taken ELSE 0
InFlight ==
    IF ppc = "overflow" THEN count - n
    ELSE IF ppc \in {"seam", "reserve", "fill", "commit"} THEN count ELSE 0

(* Every sample ever offered is delivered, still buffered, or part of a    *)
(* hole that has been announced, is pending, or is still growing: no loss  *)
(* can go unannounced, also across open() and restart() while torn         *)
(* (receiver_model.cpp 143-151).                                           *)
EverySampleAccountedFor ==
    streamed = expected + lost + InHand + gap_pending + Unread
                 + episode_gap + InFlight

(* The lifetime counters agree with the ring whenever the producer is not  *)
(* inside produce(), until reset_stats() is called (receiver_model.hpp     *)
(* 84-91; the tests check it "with the producer stopped").                 *)
CountersBalanceAtRest ==
    counting /\ ppc \in {"outside", "entered", "leave"} =>
        offered = delivered + dropped + Unread

(* The producer never fills a slot that read() is copying out of.          *)
NoSlotRace ==
    ppc = "fill" /\ cpc = "copy" =>
        Filling \cap {Slot(r + k) : k \in 0 .. (Taken - 1)} = {}

(* The Dekker handshake: while the control thread resizes or frees the     *)
(* buffer and rewinds the positions, the DSP thread is not in produce(),   *)
(* nor can it get there.                                                   *)
ExclusiveReallocation ==
    cpc \in {"reallocate", "free"} =>
        /\ ppc \in {"outside", "entered", "leave"}
        /\ ~enabled

(* The tap implements the contract GapStream: the decoder's position       *)
(* moves when a block is complete, and only as the block says.             *)
Contract == INSTANCE GapStream WITH
    head <- streamed,
    pos <- IF cpc = "return" THEN expected + lost + Taken ELSE expected,
    handed <- IF cpc = "return" THEN <<[lost_before |-> lost, samples |-> out]>>
              ELSE <<>>

ImplementsGapStream == Contract!Spec

(* A consumer that keeps polling always reaches the seam and lets the      *)
(* producer start again, however the seam was set during its reads.        *)
TearHeals == torn ~> ~torn

-----------------------------------------------------------------------------
(***************************************************************************)
(* The inductive invariant behind the safety properties, part by part.     *)
(***************************************************************************)
InProduce == ppc \in {"seam", "reserve", "fill", "commit", "overflow", "tear"}

(* The handshake: who may be where while the tap is closed.                *)
GateInv ==
    /\ producer_in <=> ppc # "outside"
    /\ cpc \in {"drain", "reallocate", "enable", "free"} => ~enabled
    /\ cpc \in {"reallocate", "enable", "free"} =>
          ppc \in {"outside", "entered", "leave"}
    /\ enabled => capacity # 0
    /\ cpc = "reallocate" => want # 0
    /\ cpc = "enable" => capacity # 0
    /\ InProduce \/ ppc = "produce" => capacity # 0 /\ count # 0

(* The ring never holds more than its capacity, nor will after a commit.   *)
SpaceInv ==
    /\ read <= write /\ write - read <= capacity
    /\ n <= count /\ (ppc = "outside" => n = 0)
    /\ ppc \in {"fill", "commit"} => n # 0 /\ write + n - read <= capacity
    /\ ppc = "overflow" => n < count

(* What read() remembers of the positions.                                 *)
ReaderInv ==
    /\ cpc \in {"take_gap", "copy", "release"} => r = read /\ r <= w /\ w <= write
    /\ cpc \in {"at_seam", "return"} => r <= w /\ w <= write /\ read = r + Taken
    /\ cpc \in {"copy", "release"} => Taken # 0 /\ gap_pending = 0
    /\ cpc \notin {"copy", "release", "at_seam", "return"} => lost = 0
    /\ cpc \in {"release", "at_seam", "return"} => DOMAIN out = 0 .. (Taken - 1)

(* A hole is never published while samples from before it are unread.      *)
SeamInv ==
    /\ torn => tear_pos = write /\ ppc \notin {"reserve", "fill", "commit",
                                              "overflow", "tear"}
    /\ ppc = "tear" => tear_pos = write
    /\ ppc \in {"reserve", "fill", "commit", "overflow"} => episode_gap = 0
    /\ ~torn /\ episode_gap # 0 /\ ppc # "tear" => Unread = 0

(* The stream position of the oldest unread sample, in the decoder's       *)
(* terms: everything announced, in hand or pending precedes it.            *)
Base == expected + lost + InHand + gap_pending

(* Slots hold consecutive samples: the unread ones and the ones filled but *)
(* not yet committed.                                                      *)
ContentInv ==
    /\ \A p \in read .. (write - 1) : buffer[Slot(p)] = Base + (p - read)
    /\ ppc = "commit" =>
          \A p \in write .. (write + n - 1) :
              buffer[Slot(p)] = (streamed - count) + (p - write)

(* Between two steps of the two threads the lifetime counters differ only  *)
(* by what produce() has offered and neither committed nor dropped.        *)
CounterInv == counting => offered = delivered + dropped + Unread + InFlight

IInv ==
    /\ TypeOK
    /\ GateInv
    /\ SpaceInv
    /\ ReaderInv
    /\ SeamInv
    /\ ContentInv
    /\ CounterInv
    /\ EverySampleAccountedFor
    /\ BlockContiguousAndPlaced
=============================================================================
