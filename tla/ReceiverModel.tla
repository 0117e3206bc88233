--------------------------- MODULE ReceiverModel ---------------------------
(***************************************************************************)
(* The receiver between a radio and the loudspeaker:                       *)
(* radio::ReceiverModel (src/src/radio/receiver_model.cpp).  The UI thread *)
(* tunes it, selects a mode, sets the rate, the filter and the gain,       *)
(* starts and stops it and records; its DSP thread takes blocks from the   *)
(* ring of the radio, writes them to the recording and demodulates them    *)
(* with a chain of filters that it rebuilds when it finds it marked dirty. *)
(*                                                                         *)
(* A block is no more than where the radio was tuned and at which rate it  *)
(* was sampled; a chain is the mode and the rate it was built for.  What   *)
(* runs under chain_mutex_ or capture_mutex_ is one step.  The samples,    *)
(* the audio, the squelch and the spectrum snapshot are left out, and the  *)
(* gapless tap is only the size it is given (module RawSampleTap has the   *)
(* rest).  The radio is any device: it rounds what it is asked for, fills  *)
(* its ring, drops what does not fit, and may refuse to start.             *)
(*                                                                         *)
(* Targets, Rates, Hints, Gains and Modes are what the applications ask    *)
(* for, Ring the blocks that fit the ring of the radio; nothing else is    *)
(* bounded.  An application starts the receiver when it is shown, and then *)
(* nothing is being recorded: the views that record stop before they go.   *)
(*                                                                         *)
(* StartUntuned, HintTakenBackOnly and CleanAfterRebuild are faulty        *)
(* variants of the definitions they precede; nothing uses them.            *)
(***************************************************************************)
EXTENDS Capabilities, Sequences

CONSTANTS Targets, Rates, Hints, Gains, Modes, Ring, LoStep,
          RateRange, WidthRange, GainRange

\* SpectrumAnalysis feeds the waterfall and demodulates nothing.
CONSTANT Spectrum
ASSUME SpectrumAssumption == Spectrum \in Modes

\* A range that a radio leaves empty is all zeros.
ASSUME AskedAssumption ==
    Targets \subseteq Nat /\ Rates \subseteq Nat \ {0} /\ Hints \subseteq Nat
ASSUME RadioAssumption ==
    /\ LoStep \in Nat \ {0}
    /\ {RateRange, WidthRange} \subseteq [min : Nat, max : Nat, step : Nat]

VARIABLES
    lo, hw_rate, width, gain, streaming, ring,      \* the radio
    target, sample_rate, mode, hint, tap,           \* what was set (UI thread)
    nco, chain, chain_dirty,                        \* the DSP chain
    running, stop, dsp, block,                      \* the DSP thread
    capturing, file, recorded,                      \* the recording
    ui, request, restart,                           \* the call in progress
    late                                            \* history, see Demodulate

radio == <<lo, hw_rate, width, gain, streaming, ring>>
settings == <<target, sample_rate, mode, hint, tap>>
thread == <<running, stop, dsp, block>>
recording == <<capturing, file, recorded>>
call == <<ui, request, restart>>
vars == <<radio, settings, nco, chain, chain_dirty, thread, recording, call,
          late>>

NoFile == [center |-> 0, rate |-> 0]
NoBlock == [lo |-> 0, rate |-> 0]

\* A radio that was never tuned has its oscillator at 0, and the receiver
\* wants a rate that the radio may not have.
Init ==
    /\ lo = 0 /\ hw_rate = 0 /\ width = 0 /\ gain = 0
    /\ streaming = FALSE /\ ring = <<>>
    /\ target \in Targets /\ sample_rate \in Rates
    /\ mode \in Modes /\ hint = 0 /\ tap = 0
    /\ nco = 0 /\ chain = [mode |-> Spectrum, rate |-> 0] /\ chain_dirty = TRUE
    /\ running = FALSE /\ stop = FALSE /\ dsp = "none" /\ block = NoBlock
    /\ capturing = FALSE /\ file = NoFile /\ recorded = {}
    /\ ui = "idle" /\ request = 0 /\ restart = FALSE
    /\ late = 0

-----------------------------------------------------------------------------
(* The radio.                                                              *)

RoundedRate(hz) == Clamp(RateRange, hz)
RoundedLo(hz) == hz - (hz % LoStep)

Deliver ==
    /\ streaming /\ Len(ring) < Ring
    /\ ring' = Append(ring, [lo |-> lo, rate |-> hw_rate])
    /\ UNCHANGED <<lo, hw_rate, width, gain, streaming, settings, nco, chain,
                   chain_dirty, thread, recording, call, late>>

-----------------------------------------------------------------------------
(* The parts several calls share.                                          *)

\* The analog filter of a receiver at this rate: what the application hinted
\* at, or else what the rate wants, or else what it was.
AppliedWidth(h, hz) ==
    LET hinted == Clamp(WidthRange, h)
        choice == ChooseRxBandwidth(WidthRange, hz)
    IN  IF h > 0 /\ hinted > 0 THEN hinted
        ELSE IF AppliesBandwidth(choice) THEN Clamp(WidthRange, choice.bandwidth)
        ELSE width

Distant(hz, from) == IF hz > from THEN hz - from ELSE from - hz

\* The oscillator moves only when the target leaves the middle 80 %.
MovesLo(hz, rate) == lo = 0 \/ 5 * Distant(hz, lo) > 2 * rate

RetunedLo(hz, rate) == IF MovesLo(hz, rate) THEN RoundedLo(hz) ELSE lo
RetunedNco(hz, rate) == IF MovesLo(hz, rate) THEN 0 ELSE lo - hz

-----------------------------------------------------------------------------
(* start()                                                                 *)

StartUntuned(at) ==
    /\ hw_rate' = RoundedRate(at)
    /\ sample_rate' = hw_rate'
    /\ tap' = IF tap = 0 THEN 0 ELSE hw_rate'
    /\ width' = AppliedWidth(hint, hw_rate')
    /\ UNCHANGED <<lo, nco>>
    /\ chain_dirty' = TRUE
    /\ \/ /\ streaming' = TRUE /\ ring' = <<>>
          /\ stop' = FALSE /\ running' = TRUE /\ dsp' = "top"
       \/ UNCHANGED <<streaming, ring, stop, running, dsp>>

\* Everything up to the new thread, which finds the radio streaming; or the
\* radio does not start, and the receiver is where it was, only set.  The
\* size of an open tap is in samples: its time, here 1, at the new rate.
DoStart(at) ==
    /\ hw_rate' = RoundedRate(at)
    /\ sample_rate' = hw_rate'
    /\ tap' = IF tap = 0 THEN 0 ELSE hw_rate'
    /\ width' = AppliedWidth(hint, hw_rate')
    /\ lo' = RetunedLo(target, hw_rate')
    /\ nco' = RetunedNco(target, hw_rate')
    /\ chain_dirty' = TRUE
    /\ \/ /\ streaming' = TRUE /\ ring' = <<>>
          /\ stop' = FALSE /\ running' = TRUE /\ dsp' = "top"
       \/ UNCHANGED <<streaming, ring, stop, running, dsp>>

Start ==
    /\ ui = "idle" /\ ~running /\ file = NoFile
    /\ DoStart(sample_rate)
    /\ late' = 0
    /\ UNCHANGED <<gain, target, mode, hint, chain, block, recording, call>>

-----------------------------------------------------------------------------
(* stop(), alone or for a new rate.                                        *)

CloseRecording ==
    /\ capturing' = FALSE /\ file' = NoFile /\ UNCHANGED recorded

Stop ==
    /\ ui = "idle"
    /\ CloseRecording
    /\ ui' = "signal" /\ restart' = FALSE /\ request' = 0
    /\ UNCHANGED <<radio, settings, nco, chain, chain_dirty, thread, late>>

SignalStop ==
    /\ ui = "signal"
    /\ stop' = (stop \/ running)
    /\ ui' = "join"
    /\ UNCHANGED <<radio, settings, nco, chain, chain_dirty, running, dsp,
                   block, recording, request, restart, late>>

\* The thread is joined, the radio stopped; a call that only stops returns.
Join ==
    /\ ui = "join" /\ dsp \in {"none", "ended"}
    /\ dsp' = "none" /\ running' = FALSE /\ streaming' = FALSE
    /\ ui' = IF restart THEN "rerate" ELSE "idle"
    /\ late' = 0
    /\ UNCHANGED <<lo, hw_rate, width, gain, ring, settings, nco, chain,
                   chain_dirty, stop, block, recording, request, restart>>

-----------------------------------------------------------------------------
(* set_sampling_rate()                                                     *)

HintTakenBackOnly(hz) ==
    /\ ui = "idle" /\ hz = sample_rate
    /\ hint' = 0
    /\ UNCHANGED <<radio, target, sample_rate, mode, tap, nco, chain,
                   chain_dirty, thread, recording, call, late>>

\* The same rate again only takes the hint back.
KeepRate(hz) ==
    /\ ui = "idle" /\ hz = sample_rate
    /\ hint' = 0
    /\ width' = AppliedWidth(0, sample_rate)
    /\ UNCHANGED <<lo, hw_rate, gain, streaming, ring, target, sample_rate,
                   mode, tap, nco, chain, chain_dirty, thread, recording,
                   call, late>>

ChangeRate(hz) ==
    /\ ui = "idle" /\ hz # sample_rate
    /\ hint' = 0
    /\ request' = hz
    /\ IF running
       THEN /\ CloseRecording
            /\ ui' = "signal" /\ restart' = TRUE
       ELSE /\ UNCHANGED recording
            /\ ui' = "rerate" /\ restart' = FALSE
    /\ UNCHANGED <<radio, target, sample_rate, mode, tap, nco, chain,
                   chain_dirty, thread, late>>

\* With the receiver stopped: the rate is the radio's, and what was running
\* is started again, if the radio will.
SetRate ==
    /\ ui = "rerate"
    /\ ui' = "idle" /\ late' = 0
    /\ IF restart
       THEN DoStart(RoundedRate(request))
       ELSE /\ hw_rate' = RoundedRate(request)
            /\ sample_rate' = hw_rate'
            /\ width' = AppliedWidth(hint, hw_rate')
            /\ chain_dirty' = TRUE
            /\ UNCHANGED <<lo, nco, tap, streaming, ring, stop, running, dsp>>
    /\ request' = 0 /\ restart' = FALSE
    /\ UNCHANGED <<gain, target, mode, hint, chain, block, recording>>

-----------------------------------------------------------------------------
(* set_target_frequency(): the oscillator first, the mixer under the lock. *)

Tune(hz) ==
    /\ ui = "idle"
    /\ target' = hz
    /\ lo' = RetunedLo(hz, sample_rate)
    /\ request' = RetunedNco(hz, sample_rate)
    /\ ui' = "mix"
    /\ UNCHANGED <<hw_rate, width, gain, streaming, ring, sample_rate, mode,
                   hint, tap, nco, chain, chain_dirty, thread, recording,
                   restart, late>>

SetMixer ==
    /\ ui = "mix"
    /\ nco' = request
    /\ ui' = "idle" /\ request' = 0
    /\ UNCHANGED <<radio, settings, chain, chain_dirty, thread, recording,
                   restart, late>>

-----------------------------------------------------------------------------
(* set_mode() and the three configurations of a mode: the selector under   *)
(* the lock, then the mark.                                                *)

Select(m) ==
    /\ ui = "idle" /\ m # mode
    /\ mode' = m
    /\ ui' = "mark"
    /\ UNCHANGED <<radio, target, sample_rate, hint, tap, nco, chain,
                   chain_dirty, thread, recording, request, restart, late>>

MarkDirty ==
    /\ ui = "mark"
    /\ chain_dirty' = TRUE
    /\ ui' = "idle" /\ late' = 0
    /\ UNCHANGED <<radio, settings, nco, chain, thread, recording, request,
                   restart>>

-----------------------------------------------------------------------------
(* The filter, the gain and the tap.                                       *)

HintWidth(hz) ==
    /\ ui = "idle"
    /\ hint' = hz
    /\ width' = AppliedWidth(hz, sample_rate)
    /\ UNCHANGED <<lo, hw_rate, gain, streaming, ring, target, sample_rate,
                   mode, tap, nco, chain, chain_dirty, thread, recording,
                   call, late>>

SetGain(db) ==
    /\ ui = "idle"
    /\ LET choice == ChooseGain(GainRange, db)
       IN  /\ AppliesGain(choice)
           /\ gain' = Clamp(GainRange, choice.gain)
    /\ UNCHANGED <<lo, hw_rate, width, streaming, ring, settings, nco, chain,
                   chain_dirty, thread, recording, call, late>>

SwitchTap ==
    /\ ui = "idle"
    /\ tap' = IF tap = 0 THEN sample_rate ELSE 0
    /\ UNCHANGED <<radio, target, sample_rate, mode, hint, nco, chain,
                   chain_dirty, thread, recording, call, late>>

-----------------------------------------------------------------------------
(* Recording.                                                              *)

\* A recording that is being made is closed before the next one is opened.
StartCapture ==
    /\ ui = "idle"
    /\ CloseRecording
    /\ ui' = "create"
    /\ UNCHANGED <<radio, settings, nco, chain, chain_dirty, thread, request,
                   restart, late>>

\* The file and its description, or an error.
CreateFile ==
    /\ ui = "create"
    /\ \/ /\ file' = [center |-> target, rate |-> sample_rate]
          /\ capturing' = TRUE /\ recorded' = {}
       \/ UNCHANGED recording
    /\ ui' = "idle"
    /\ UNCHANGED <<radio, settings, nco, chain, chain_dirty, thread, request,
                   restart, late>>

StopCapture ==
    /\ ui = "idle" /\ file # NoFile
    /\ CloseRecording
    /\ UNCHANGED <<radio, settings, nco, chain, chain_dirty, thread, call,
                   late>>

-----------------------------------------------------------------------------
(* dsp_thread_main()                                                       *)

Top ==
    /\ dsp = "top"
    /\ IF stop THEN dsp' = "ended" /\ UNCHANGED chain_dirty
       ELSE /\ dsp' = IF chain_dirty THEN "rebuild" ELSE "read"
            /\ chain_dirty' = FALSE
    /\ UNCHANGED <<radio, settings, nco, chain, running, stop, block,
                   recording, call, late>>

\* Nothing is built for a mode that demodulates nothing.
Rebuild ==
    /\ dsp = "rebuild"
    /\ chain' = IF mode = Spectrum THEN chain
                ELSE [mode |-> mode, rate |-> sample_rate]
    /\ dsp' = "read"
    /\ UNCHANGED <<radio, settings, nco, chain_dirty, running, stop, block,
                   recording, call, late>>

\* The mark is taken off when the chain is done, and not before.
CleanAfterRebuild ==
    /\ dsp = "read"
    /\ chain_dirty' = FALSE
    /\ IF ring = <<>> THEN dsp' = "top" /\ UNCHANGED <<ring, block>>
       ELSE /\ block' = Head(ring) /\ ring' = Tail(ring)
            /\ dsp' = IF capturing THEN "write" ELSE "demod"
    /\ UNCHANGED <<lo, hw_rate, width, gain, streaming, settings, nco, chain,
                   running, stop, recording, call, late>>

\* An empty ring is a millisecond of sleep.
Read ==
    /\ dsp = "read"
    /\ IF ring = <<>> THEN dsp' = "top" /\ UNCHANGED <<ring, block>>
       ELSE /\ block' = Head(ring) /\ ring' = Tail(ring)
            /\ dsp' = IF capturing THEN "write" ELSE "demod"
    /\ UNCHANGED <<lo, hw_rate, width, gain, streaming, settings, nco, chain,
                   chain_dirty, running, stop, recording, call, late>>

\* The file may be gone by now, or be another one; the disk may be full.
Write ==
    /\ dsp = "write"
    /\ dsp' = "demod"
    /\ \/ /\ recorded' = IF file = NoFile THEN recorded
                         ELSE recorded \cup {block}
          /\ UNCHANGED <<capturing, file>>
       \/ /\ file # NoFile
          /\ capturing' = FALSE /\ UNCHANGED <<file, recorded>>
    /\ UNCHANGED <<radio, settings, nco, chain, chain_dirty, running, stop,
                   block, call, late>>

\* The history counts the blocks that went through a chain built for another
\* mode or rate since the last call returned, up to two.
Demodulate ==
    /\ dsp = "demod"
    /\ dsp' = "top" /\ block' = NoBlock
    /\ late' = IF /\ ui = "idle" /\ mode # Spectrum
                  /\ chain # [mode |-> mode, rate |-> block.rate]
                  /\ late < 2
               THEN late + 1 ELSE late
    /\ UNCHANGED <<radio, settings, nco, chain, chain_dirty, running, stop,
                   recording, call>>

-----------------------------------------------------------------------------

Calls ==
    \/ Start \/ Stop \/ SwitchTap \/ StartCapture \/ StopCapture
    \/ \E hz \in Rates : KeepRate(hz) \/ ChangeRate(hz)
    \/ \E hz \in Targets : Tune(hz)
    \/ \E m \in Modes : Select(m)
    \/ \E hz \in Hints : HintWidth(hz)
    \/ \E db \in Gains : SetGain(db)

Returns ==
    SignalStop \/ Join \/ SetRate \/ SetMixer \/ MarkDirty \/ CreateFile

Dsp == Top \/ Rebuild \/ Read \/ Write \/ Demodulate

Next == Calls \/ Returns \/ Dsp \/ Deliver

Spec == Init /\ [][Next]_vars

-----------------------------------------------------------------------------

\* What the user tuned to is what comes out of the mixer at 0 Hz, to within
\* what the radio rounds, and it is never out at the skirts of the band: after
\* any sequence of tuning, rates, starts and stops, a receiver that runs is
\* within 40 % of the rate of its oscillator.
TargetInTheBand ==
    ui = "idle" /\ running =>
        IF nco = 0 THEN Distant(target, lo) < LoStep
        ELSE lo - nco = target /\ 5 * Distant(target, lo) <= 2 * sample_rate

\* No block is demodulated with the filters of another mode or another rate,
\* but for the one the DSP thread may already hold when the call returns.
LateByOneBlock == late <= 1

\* Rate, analog filter, tap and chain follow one another: a running receiver
\* believes in the rate the radio has, its filter is the one last hinted at
\* for this rate or else the one of the rate, and its tap holds its time at
\* this rate.  A range of a single width clamps no hint: that is how
\* Range::clamp() is written.
FrontEndFollowsRate ==
    ui = "idle" /\ running =>
        /\ sample_rate = hw_rate
        /\ tap \in {0, hw_rate}
        /\ Usable(WidthRange) =>
              width = IF hint > 0 THEN Clamp(WidthRange, hint)
                      ELSE Bounded(hw_rate, WidthRange.min, WidthRange.max)

\* "Changing the rate mid-recording would make the file's metadata a lie"
\* (capture_app.cpp:37), and so would a frequency that is not the one the
\* samples are centred on.
RecordingIsCentred ==
    file # NoFile =>
        \A b \in recorded : Distant(b.lo, file.center) < LoStep
=============================================================================
