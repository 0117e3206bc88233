------------------------------ MODULE UsrpRadio ------------------------------
(***************************************************************************)
(* The receive half of radio::UsrpRadio (src/src/radio/usrp_radio.cpp): the *)
(* thread that reads the B200's streamer, its recovery from replaced and   *)
(* from silent streamers, and the calls that start it, stop it and move    *)
(* the master clock under it.  ReceiverModel (receiver_model.cpp) makes    *)
(* the first two calls; set_rx_rate on a live stream is the driver's own   *)
(* contract, which the hardware tests and the self test exercise.          *)
(*                                                                         *)
(* UHD is external, modelled from what the driver's comments and guards    *)
(* say of it: a streamer that get_rx_stream has replaced throws; one whose *)
(* clock was moved under it, or that was wedged, returns nothing.  Sample  *)
(* data, levels and counters are left out.  rx_stream_generation_ is the   *)
(* question the thread asks of it: has it moved since the last look.       *)
(*                                                                         *)
(* MaxFaults bounds what the device does wrong in a behaviour.             *)
(*                                                                         *)
(* QuietRebuild, DeafToStop and KickForever are faulty variants of the     *)
(* definitions they precede; no specification uses them.                   *)
(***************************************************************************)
EXTENDS Integers

CONSTANT MaxFaults
ASSUME MaxFaultsAssumption == MaxFaults \in Nat

VARIABLES
    rx,         \* the RX thread: where it is
    stream,     \* its streamer: "null", "current" or "old" (replaced)
    attempt,    \* start commands that threw, of this pickup
    dry,        \* consecutive_timeouts
    rx_stream,  \* impl_->rx_stream, as stream
    moved,      \* rx_stream_generation_ is not the one the thread last saw
    rx_running, rx_stop,
    model,      \* ReceiverModel::running_
    ui,         \* the calling thread: where it is
    hw,         \* the device's end of the current streamer
    faults      \* how often the device has misbehaved

thread == <<rx, stream, attempt, dry>>
flags == <<moved, rx_running, rx_stop>>
caller == <<model, ui>>
device == <<hw, faults>>
vars == <<thread, rx_stream, flags, caller, device>>

\* A start command is refused this often before the radio counts as broken.
Attempts == 3
\* Dry windows after which the start command is repeated, and the rebuild.
KickAt == 3
RebuildAt == 6

Locked == ui \in {"moved", "bump"}    \* set_rx_rate holds config_mutex_
Joinable == rx # "none"

TypeOK ==
    /\ rx \in {"none", "head", "pickup", "start", "start_threw", "recv", "recv_threw",
               "rebuild", "tail", "gone", "crashed", "terminated"}
    /\ stream \in {"null", "current", "old"} /\ rx_stream \in {"null", "current", "old"}
    /\ attempt \in 0..Attempts /\ dry \in 0..RebuildAt
    /\ moved \in BOOLEAN /\ rx_running \in BOOLEAN /\ rx_stop \in BOOLEAN
    /\ model \in BOOLEAN /\ ui \in {"idle", "joining", "joining_ended", "moved", "bump", "dead"}
    /\ hw \in {"none", "off", "on", "silent", "deaf"}
    /\ faults \in 0..MaxFaults

Init ==
    /\ rx = "none" /\ stream = "null" /\ attempt = 0 /\ dry = 0
    /\ rx_stream = "null"
    /\ moved = FALSE /\ rx_running = FALSE /\ rx_stop = FALSE
    /\ model = FALSE /\ ui = "idle"
    /\ hw = "none" /\ faults = 0

----------------------------------------------------------------------------
\* The device.

Misbehaves == faults < MaxFaults /\ faults' = faults + 1
Behaves == UNCHANGED faults
Replaced(s) == IF s = "current" THEN "old" ELSE s

(***************************************************************************)
(* A start command the device takes: a streamer the clock was not moved    *)
(* under wakes, or is accepted and stays silent, or is wedged for good.    *)
(***************************************************************************)
Accepts ==
    \/ hw' = (IF hw = "deaf" THEN "deaf" ELSE "on") /\ Behaves
    \/ hw' \in {"silent", "deaf"} /\ Misbehaves

\* A live stream falls silent without a word.
Wedge ==
    /\ hw = "on" /\ hw' \in {"silent", "deaf"} /\ Misbehaves
    /\ UNCHANGED <<thread, rx_stream, flags, caller>>

----------------------------------------------------------------------------
\* The calling thread.

(***************************************************************************)
(* ReceiverModel::start() and start_rx(): a new streamer, then the thread. *)
(* Assigning a joinable std::thread ends the program, and so does the use  *)
(* of a null streamer below: the caller is then "dead".                    *)
(***************************************************************************)
StartRx ==
    /\ ui = "idle" /\ ~model
    /\ \/ Misbehaves /\ UNCHANGED <<thread, rx_stream, flags, caller, hw>>
       \/ /\ Behaves /\ rx_stream' = "current" /\ hw' = "off"
          /\ rx_stop' = FALSE /\ rx_running' = TRUE /\ moved' = TRUE
          /\ stream' = "null" /\ attempt' = 0 /\ dry' = 0 /\ model' = TRUE
          /\ IF Joinable
             THEN rx' = "terminated" /\ ui' = "dead"
             ELSE rx' = "head" /\ UNCHANGED ui

\* ReceiverModel::stop() and stop_rx(), up to the join.
StopRx ==
    /\ ui = "idle" /\ model' = FALSE
    /\ \/ /\ rx_running
          /\ rx_stop' = TRUE /\ ui' = "joining"
       \/ /\ ~rx_running /\ UNCHANGED rx_stop
          /\ ui' = IF Joinable THEN "joining_ended" ELSE ui
    /\ UNCHANGED <<thread, rx_stream, moved, rx_running, device>>

\* The join returns; only a stream that was still running is given up.
Join ==
    /\ ui \in {"joining", "joining_ended"} /\ rx = "gone"
    /\ rx' = "none" /\ stream' = "null" /\ ui' = "idle"
    /\ IF ui = "joining"
       THEN rx_running' = FALSE /\ rx_stream' = "null"
       ELSE UNCHANGED <<rx_running, rx_stream>>
    /\ UNCHANGED <<attempt, dry, moved, rx_stop, model, device>>

\* set_rx_rate() moves the master clock: every streamer handed out goes deaf.
MoveClock ==
    /\ ui = "idle" /\ ui' = "moved"
    /\ hw' = IF hw = "none" THEN hw ELSE "deaf"
    /\ UNCHANGED <<thread, rx_stream, flags, model, faults>>

\* ... builds a new streamer, if one is in use, ...
ReplaceStreamer ==
    /\ ui = "moved"
    /\ \/ /\ ~(rx_running /\ rx_stream # "null")
          /\ ui' = "idle" /\ UNCHANGED <<stream, rx_stream, device>>
       \/ /\ rx_running /\ rx_stream # "null"
          /\ \/ Misbehaves /\ ui' = "idle" /\ UNCHANGED <<stream, rx_stream, hw>>
             \/ /\ Behaves /\ ui' = "bump" /\ hw' = "off"
                /\ rx_stream' = "current" /\ stream' = Replaced(stream)
    /\ UNCHANGED <<rx, attempt, dry, flags, model>>

QuietRebuild ==
    /\ ui = "bump" /\ ui' = "idle"
    /\ UNCHANGED <<thread, rx_stream, flags, model, device>>

\* ... and only then tells the thread.
BumpGeneration ==
    /\ ui = "bump" /\ ui' = "idle" /\ moved' = TRUE
    /\ UNCHANGED <<thread, rx_stream, rx_running, rx_stop, model, device>>

----------------------------------------------------------------------------
\* The RX thread, rx_thread_main().

DeafToStop ==
    /\ rx = "head"
    /\ IF moved
       THEN rx' = "pickup" /\ moved' = FALSE
       ELSE rx' = "recv" /\ UNCHANGED moved
    /\ UNCHANGED <<stream, attempt, dry, rx_stream, rx_running, rx_stop, caller, device>>

\* The loop head: stop, pick up a new streamer, or read.
LoopHead ==
    /\ rx = "head"
    /\ \/ rx_stop /\ rx' = "tail" /\ UNCHANGED moved
       \/ ~rx_stop /\ moved /\ rx' = "pickup" /\ moved' = FALSE
       \/ ~rx_stop /\ ~moved /\ rx' = "recv" /\ UNCHANGED moved
    /\ UNCHANGED <<stream, attempt, dry, rx_stream, rx_running, rx_stop, caller, device>>

Pickup ==
    /\ rx = "pickup" /\ ~Locked
    /\ stream' = rx_stream /\ attempt' = 0
    /\ rx' = IF rx_stream = "null" THEN "tail" ELSE "start"
    /\ UNCHANGED <<dry, rx_stream, flags, caller, device>>

\* The start command: taken, thrown back, or not tried again.
StartStream ==
    /\ rx = "start"
    /\ \/ /\ rx_stop \/ attempt = Attempts
          /\ rx' = "tail" /\ UNCHANGED <<dry, device>>
       \/ /\ ~rx_stop /\ attempt < Attempts /\ stream = "current" /\ Accepts
          /\ rx' = "recv" /\ dry' = 0
       \/ /\ ~rx_stop /\ attempt < Attempts
          /\ IF stream = "old" THEN Behaves ELSE Misbehaves
          /\ rx' = "start_threw" /\ UNCHANGED <<dry, hw>>
    /\ UNCHANGED <<stream, attempt, rx_stream, flags, caller>>

\* The retry, unless the streamer was replaced: then the newer one.
StartThrew ==
    /\ rx = "start_threw"
    /\ IF moved
       THEN rx' = "head" /\ UNCHANGED attempt
       ELSE rx' = "start" /\ attempt' = attempt + 1
    /\ UNCHANGED <<stream, dry, rx_stream, flags, caller, device>>

\* recv() returns samples, or an overflow that leaves the stream running.
Receive ==
    /\ rx = "recv" /\ stream = "current" /\ hw = "on"
    /\ dry' = 0 /\ rx' = "head"
    /\ UNCHANGED <<stream, attempt, rx_stream, flags, caller, device>>

KickForever ==
    /\ rx = "recv" /\ stream = "current" /\ hw # "on"
    /\ \/ /\ dry + 1 < KickAt
          /\ dry' = dry + 1 /\ rx' = "head" /\ UNCHANGED device
       \/ /\ dry + 1 = KickAt /\ rx' = "head" /\ Accepts /\ dry' = 0
    /\ UNCHANGED <<stream, attempt, rx_stream, flags, caller>>

(***************************************************************************)
(* recv() times out: the watchdog counts the dry window, repeats the start *)
(* command at the third and rebuilds the streamer from the sixth on.  A    *)
(* repeated command that throws makes the next window the last.            *)
(***************************************************************************)
Starve ==
    /\ rx = "recv" /\ stream = "current" /\ hw # "on"
    /\ \/ /\ dry + 1 < RebuildAt /\ dry + 1 # KickAt
          /\ dry' = dry + 1 /\ rx' = "head" /\ UNCHANGED device
       \/ /\ dry + 1 = KickAt /\ rx' = "head"
          /\ \/ Accepts /\ dry' = KickAt
             \/ Misbehaves /\ dry' = RebuildAt - 1 /\ UNCHANGED hw
       \/ /\ dry + 1 >= RebuildAt
          /\ rx' = "rebuild" /\ dry' = RebuildAt /\ UNCHANGED device
    /\ UNCHANGED <<stream, attempt, rx_stream, flags, caller>>

(***************************************************************************)
(* The watchdog's rebuild, under the mutex.  The old pointer is dropped    *)
(* first, so a get_rx_stream that throws leaves none; a start command that *)
(* throws leaves the new streamer unstarted.  Nothing moves the generation.*)
(***************************************************************************)
Rebuild ==
    /\ rx = "rebuild" /\ ~Locked
    /\ dry' = 0 /\ rx' = "head"
    /\ \/ Misbehaves /\ rx_stream' = "null" /\ UNCHANGED <<stream, hw>>
       \/ /\ rx_stream' = "current" /\ stream' = "current"
          /\ \/ Behaves /\ hw' = "on"
             \/ Misbehaves /\ hw' \in {"off", "silent", "deaf"}
    /\ UNCHANGED <<attempt, flags, caller>>

\* recv() throws: always on a replaced streamer, else because the radio failed.
RecvFails ==
    /\ rx = "recv" /\ rx' = "recv_threw"
    /\ IF stream = "old" THEN Behaves ELSE Misbehaves
    /\ UNCHANGED <<stream, attempt, dry, rx_stream, flags, caller, hw>>

RecvThrew ==
    /\ rx = "recv_threw"
    /\ rx' = IF moved THEN "head" ELSE "tail"
    /\ UNCHANGED <<stream, attempt, dry, rx_stream, flags, caller, device>>

\* The way out: the stop command goes through the streamer, whatever it is.
Tail ==
    /\ rx = "tail"
    /\ \/ /\ stream = "null"
          /\ rx' = "crashed" /\ ui' = "dead" /\ hw' = "none" /\ UNCHANGED rx_running
       \/ /\ stream # "null" /\ rx' = "gone" /\ rx_running' = FALSE
          /\ hw' = (IF stream = "current" THEN "off" ELSE hw)
          /\ UNCHANGED ui
    /\ UNCHANGED <<stream, attempt, dry, rx_stream, moved, rx_stop, model, faults>>

----------------------------------------------------------------------------
Thread ==
    \/ LoopHead \/ Pickup \/ StartStream \/ StartThrew \/ Receive \/ Starve
    \/ Rebuild \/ RecvFails \/ RecvThrew \/ Tail
Call == StartRx \/ StopRx \/ MoveClock
Return == Join \/ ReplaceStreamer \/ BumpGeneration

Next == Thread \/ Call \/ Return \/ Wedge

Spec == Init /\ [][Next]_vars

(***************************************************************************)
(* The thread runs, since recv() waits no longer than its timeout and a    *)
(* start command no longer than its retries; so does a call, once made.    *)
(* Nobody has to make a call, and the device need not fail.                *)
(***************************************************************************)
FairSpec == Spec /\ WF_vars(Thread) /\ WF_vars(Return)

----------------------------------------------------------------------------
(***************************************************************************)
(* A streamer is never replaced behind the thread's back: while it is at   *)
(* work on one that is no longer the device's, either the generation has   *)
(* moved or the call that replaced it is about to move it.  Two rate       *)
(* changes in a row, a failing rebuild and the watchdog's own rebuild,     *)
(* which moves nothing, all keep it.                                       *)
(***************************************************************************)
ReplacementIsAnnounced ==
    stream = "old" => moved \/ ui = "bump" \/ rx \in {"pickup", "tail", "gone"}

(***************************************************************************)
(* stop_rx() returns: whatever the thread is doing -- retrying a start     *)
(* command, waiting for the mutex, rebuilding -- it sees rx_stop_ and ends.*)
(***************************************************************************)
StopReturns == (ui \in {"joining", "joining_ended"}) ~> (ui \in {"idle", "dead"})

(***************************************************************************)
(* A stream that has gone quiet is heard again: once the device stops      *)
(* misbehaving, a thread that nobody stops or disturbs gets to the rebuild *)
(* and reads samples, unless an error ended it.                            *)
(***************************************************************************)
SamplesResume ==
    (rx = "recv" /\ stream = "current" /\ hw # "on") ~>
        \/ stream = "current" /\ hw = "on"
        \/ rx_stop \/ rx \in {"tail", "gone"} \/ ui # "idle"

(***************************************************************************)
(* The streamer the thread stops on its way out is one it has: rx_thread_  *)
(* main() says of the null pointer it starts with that it is "picked up by *)
(* the first loop pass below".                                             *)
(***************************************************************************)
PickedUpBeforeUse == rx # "crashed"

=============================================================================
