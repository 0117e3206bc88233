------------------------ MODULE ReceiverModelProofs ------------------------
(***************************************************************************)
(* Proofs about ReceiverModel, for any radio whose ranges are numbers, any *)
(* rates, targets, hints and modes and any ring: a receiver that runs has  *)
(* its target in the band, its front end follows its rate, and at most one *)
(* block is demodulated with the filters of another mode or rate.          *)
(*                                                                         *)
(* The second half is about RatePolicy, which chooses the rates that the   *)
(* applications then ask of the receiver.                                  *)
(***************************************************************************)
EXTENDS ReceiverModel, RatePolicy, TLAPS

-----------------------------------------------------------------------------
(* The inductive invariant.                                                *)

Places == {"idle", "signal", "join", "rerate", "mix", "mark", "create"}
DspPlaces == {"none", "top", "rebuild", "read", "write", "demod", "ended"}
Blocks == [lo : Int, rate : Nat]

PlacesOK == ui \in Places /\ dsp \in DspPlaces

NumbersOK ==
    /\ lo \in Int /\ nco \in Int /\ request \in Int
    /\ hw_rate \in Nat /\ target \in Nat /\ hint \in Nat /\ tap \in Nat
    /\ sample_rate \in Nat \ {0}

\* A receiver runs as long as its thread is there, and is stopped when its
\* rate changes.
CallInv ==
    /\ running \in BOOLEAN /\ (running <=> dsp # "none")
    /\ restart \in BOOLEAN
    /\ ui = "rerate" => ~running
    /\ restart => ui \in {"signal", "join", "rerate"}
    /\ restart \/ ui = "rerate" => request \in Nat \ {0}

Wanted(h, hz) ==
    IF h > 0 THEN Clamp(WidthRange, h) ELSE Bounded(hz, WidthRange.min, WidthRange.max)

\* The filter is behind only between a new rate and the restart it makes.
FrontInv ==
    running =>
        /\ sample_rate = hw_rate /\ tap \in {0, hw_rate}
        /\ ~restart /\ Usable(WidthRange) => width = Wanted(hint, hw_rate)

InTheBand(hz, l, n, rate) ==
    IF n = 0 THEN Distant(hz, l) < LoStep
    ELSE l - n = hz /\ 5 * Distant(hz, l) <= 2 * rate

\* The mixer is what it was while the oscillator has moved already.
BandInv ==
    running => InTheBand(target, lo, IF ui = "mix" THEN request ELSE nco, sample_rate)

\* Every block of a receiver that runs was taken at its rate.
RingInv ==
    /\ ring \in Seq(Blocks)
    /\ running =>
          /\ \A i \in DOMAIN ring : ring[i].rate = hw_rate
          /\ dsp \in {"write", "demod"} => block.rate = hw_rate

UpToDate == mode = Spectrum \/ chain = [mode |-> mode, rate |-> sample_rate]

\* A chain for something else is marked, being rebuilt, or about to be
\* marked; and once a block has come too late, none is in hand or can be
\* taken before the rebuilding.
ChainInv ==
    /\ running => UpToDate \/ chain_dirty \/ dsp = "rebuild" \/ ui = "mark"
    /\ late \in {0, 1}
    /\ late = 1 => UpToDate \/ ui = "mark" \/ dsp \notin {"read", "write", "demod"}

IInv ==
    PlacesOK /\ NumbersOK /\ CallInv /\ FrontInv /\ BandInv /\ RingInv /\ ChainInv

-----------------------------------------------------------------------------
(* What the radio makes of a rate, a filter and a frequency.               *)

LEMMA RateIsPositive ==
  ASSUME NEW hz \in Nat \ {0} PROVE RoundedRate(hz) \in Nat \ {0}
BY RadioAssumption DEF RoundedRate, Clamp, Bounded

LEMMA WidthIsWanted ==
  ASSUME NEW h \in Nat, NEW hz \in Nat \ {0}, Usable(WidthRange)
  PROVE  AppliedWidth(h, hz) = Wanted(h, hz)
<1> DEFINE a == WidthRange.min
           b == WidthRange.max
           chosen == ChooseRxBandwidth(WidthRange, hz)
<1>1. a \in Nat /\ b \in Nat /\ b > 0 /\ b >= a
  BY RadioAssumption DEF Usable
<1>2. CASE h > 0
  <2>1. Clamp(WidthRange, h) > 0
    BY <1>1, <1>2 DEF Clamp, Bounded
  <2> QED
    BY <1>2, <2>1 DEF AppliedWidth, Wanted
<1>3. CASE ~(h > 0)
  <2>1. Positive(hz)
    BY SpecialAssumption DEF Positive, Finite
  <2>2. Bounded(hz, a, b) \in Nat /\ Bounded(hz, a, b) > 0 /\ a <= Bounded(hz, a, b) /\ Bounded(hz, a, b) <= b
    BY <1>1 DEF Bounded
  <2>3. chosen.bandwidth = Bounded(hz, a, b) /\ chosen.outcome \in {"Widened", "Narrowed", "Matched"}
    BY <2>1 DEF ChooseRxBandwidth
  <2>4. AppliesBandwidth(chosen)
    BY <2>2, <2>3 DEF AppliesBandwidth
  <2>5. Clamp(WidthRange, Bounded(hz, a, b)) = Bounded(hz, a, b)
    BY <1>1, <2>2 DEF Clamp, Bounded
  <2> QED
    BY <1>3, <2>3, <2>4, <2>5 DEF AppliedWidth, Wanted
<1> QED
  BY <1>2, <1>3

LEMMA RetunedIsInTheBand ==
  ASSUME lo \in Int, NEW hz \in Nat, NEW rate \in Nat
  PROVE  /\ RetunedLo(hz, rate) \in Int /\ RetunedNco(hz, rate) \in Int
         /\ InTheBand(hz, RetunedLo(hz, rate), RetunedNco(hz, rate), rate)
<1>1. CASE MovesLo(hz, rate)
  <2>1. RetunedNco(hz, rate) = 0 /\ RetunedLo(hz, rate) = hz - (hz % LoStep)
    BY <1>1 DEF RetunedNco, RetunedLo, RoundedLo
  <2> DEFINE r == hz % LoStep
  <2>2. r \in Nat /\ r < LoStep
    BY RadioAssumption
  <2> HIDE DEF r
  <2>3. hz - r \in Int /\ Distant(hz, hz - r) = r
    BY <2>2 DEF Distant
  <2> QED
    BY <2>1, <2>2, <2>3 DEF InTheBand, r
<1>2. CASE ~MovesLo(hz, rate)
  <2>1. RetunedNco(hz, rate) = lo - hz /\ RetunedLo(hz, rate) = lo
    BY <1>2 DEF RetunedNco, RetunedLo
  <2>2. Distant(hz, lo) \in Nat
    BY DEF Distant
  <2>3. 5 * Distant(hz, lo) <= 2 * rate
    BY <1>2, <2>2 DEF MovesLo
  <2>4. lo - hz = 0 => Distant(hz, lo) < LoStep
    BY RadioAssumption DEF Distant
  <2>5. lo - (lo - hz) = hz /\ lo - hz \in Int
    OBVIOUS
  <2> QED
    BY <2>1, <2>3, <2>4, <2>5 DEF InTheBand
<1> QED
  BY <1>1, <1>2

LEMMA StartSets ==
  ASSUME NumbersOK, NEW at \in Nat \ {0}, DoStart(at)
  PROVE  /\ hw_rate' \in Nat \ {0} /\ sample_rate' = hw_rate' /\ tap' \in {0, hw_rate'}
         /\ Usable(WidthRange) => width' = Wanted(hint, hw_rate')
         /\ lo' \in Int /\ nco' \in Int /\ InTheBand(target, lo', nco', hw_rate')
         /\ chain_dirty' = TRUE
         /\ \/ ring' = <<>> /\ running' = TRUE /\ dsp' = "top"
            \/ UNCHANGED <<ring, running, dsp>>
<1> USE DEF NumbersOK
<1>1. /\ hw_rate' = RoundedRate(at) /\ sample_rate' = hw_rate'
      /\ tap' = (IF tap = 0 THEN 0 ELSE hw_rate')
      /\ width' = AppliedWidth(hint, hw_rate')
      /\ lo' = RetunedLo(target, hw_rate') /\ nco' = RetunedNco(target, hw_rate')
      /\ chain_dirty' = TRUE
      /\ \/ ring' = <<>> /\ running' = TRUE /\ dsp' = "top"
         \/ UNCHANGED <<ring, running, dsp>>
  BY DEF DoStart
<1>2. hw_rate' \in Nat \ {0}
  BY <1>1, RateIsPositive
<1>3. Usable(WidthRange) => width' = Wanted(hint, hw_rate')
  BY <1>1, <1>2, WidthIsWanted
<1>4. lo' \in Int /\ nco' \in Int /\ InTheBand(target, lo', nco', hw_rate')
  BY <1>1, <1>2, RetunedIsInTheBand
<1> QED
  BY <1>1, <1>2, <1>3, <1>4

-----------------------------------------------------------------------------
LEMMA InitIInv == Init => IInv
<1> SUFFICES ASSUME Init PROVE IInv
  OBVIOUS
<1> USE DEF Init
<1>1. PlacesOK
  BY DEF PlacesOK, Places, DspPlaces
<1>2. NumbersOK
  BY AskedAssumption DEF NumbersOK
<1>3. CallInv /\ FrontInv /\ BandInv
  BY DEF CallInv, FrontInv, BandInv
<1>4. RingInv /\ ChainInv
  BY DEF RingInv, ChainInv
<1> QED
  BY <1>1, <1>2, <1>3, <1>4 DEF IInv

(* A start, from a receiver that is stopped: by the user, or for a rate.   *)
LEMMA StartKeeps ==
  ASSUME IInv, NEW at \in Nat \ {0}, DoStart(at), ~running, late' = 0,
         UNCHANGED <<target, mode, hint>>, ui' = "idle", request' \in Int, restart' = FALSE
  PROVE  IInv'
<1> USE DEF IInv
<1>1. /\ hw_rate' \in Nat \ {0} /\ sample_rate' = hw_rate' /\ tap' \in {0, hw_rate'}
      /\ Usable(WidthRange) => width' = Wanted(hint, hw_rate')
      /\ lo' \in Int /\ nco' \in Int /\ InTheBand(target, lo', nco', hw_rate')
      /\ chain_dirty' = TRUE
      /\ \/ ring' = <<>> /\ running' = TRUE /\ dsp' = "top"
         \/ UNCHANGED <<ring, running, dsp>>
  BY StartSets
<1>2. PlacesOK'
  BY <1>1 DEF PlacesOK, Places, DspPlaces
<1>3. NumbersOK'
  BY <1>1 DEF NumbersOK
<1>4. CallInv'
  <2>1. CASE running' = TRUE /\ dsp' = "top"
    BY <2>1 DEF CallInv
  <2>2. CASE UNCHANGED <<running, dsp>>
    BY <2>2 DEF CallInv
  <2> QED
    BY <1>1, <2>1, <2>2
<1>5. FrontInv'
  BY <1>1 DEF FrontInv
<1>6. BandInv'
  BY <1>1 DEF BandInv
<1>7. RingInv'
  <2>1. CASE ring' = <<>> /\ dsp' = "top"
    BY <2>1 DEF RingInv
  <2>2. CASE UNCHANGED <<ring, running>>
    BY <2>2 DEF RingInv
  <2> QED
    BY <1>1, <2>1, <2>2
<1>8. ChainInv'
  BY <1>1 DEF ChainInv
<1> QED
  BY <1>2, <1>3, <1>4, <1>5, <1>6, <1>7, <1>8

-----------------------------------------------------------------------------
(* The calls.  Most leave the thread and its blocks alone.                 *)

RingLeft == UNCHANGED <<ring, running, hw_rate, dsp, block>>

LEMMA RingIsLeft == ASSUME RingInv, RingLeft PROVE RingInv'
BY DEF RingInv, RingLeft

LEMMA SettingsKeep ==
  ASSUME IInv,
         \/ SwitchTap \/ StopCapture
         \/ \E hz \in Rates : KeepRate(hz)
         \/ \E hz \in Hints : HintWidth(hz)
         \/ \E db \in Gains : SetGain(db)
  PROVE  IInv'
<1> USE DEF IInv
<1>1. /\ ui = "idle" /\ RingLeft
      /\ UNCHANGED <<ui, request, restart, lo, nco, target, sample_rate, mode, chain, chain_dirty, late>>
      /\ tap' \in {tap, 0, sample_rate}
      /\ \/ UNCHANGED <<hint, width>>
         \/ hint' \in Nat /\ width' = AppliedWidth(hint', sample_rate)
  <2>1. CASE SwitchTap \/ StopCapture
    BY <2>1 DEF SwitchTap, StopCapture, RingLeft, radio, settings, thread, recording, call
  <2>2. CASE \E hz \in Rates : KeepRate(hz)
    BY <2>2 DEF KeepRate, RingLeft, thread, recording, call
  <2>3. CASE \E hz \in Hints : HintWidth(hz)
    BY <2>3, AskedAssumption DEF HintWidth, RingLeft, thread, recording, call
  <2>4. CASE \E db \in Gains : SetGain(db)
    BY <2>4 DEF SetGain, RingLeft, settings, thread, recording, call
  <2> QED
    BY <2>1, <2>2, <2>3, <2>4
<1>2. UNCHANGED <<ring, running, hw_rate, dsp, block>>
  BY <1>1 DEF RingLeft
<1>3. PlacesOK' /\ CallInv' /\ RingInv'
  BY <1>1, <1>2, RingIsLeft DEF PlacesOK, CallInv
<1>4. NumbersOK'
  BY <1>1, <1>2 DEF NumbersOK
<1>5. FrontInv'
  <2>1. CASE UNCHANGED <<hint, width>>
    BY <1>1, <1>2, <2>1 DEF FrontInv
  <2>2. CASE hint' \in Nat /\ width' = AppliedWidth(hint', sample_rate)
    <3>1. Usable(WidthRange) => width' = Wanted(hint', sample_rate)
      BY <2>2, WidthIsWanted DEF NumbersOK
    <3> QED
      BY <1>1, <1>2, <3>1 DEF FrontInv
  <2> QED
    BY <1>1, <2>1, <2>2
<1>6. BandInv'
  BY <1>1, <1>2 DEF BandInv
<1>7. ChainInv'
  BY <1>1, <1>2 DEF ChainInv, UpToDate
<1> QED
  BY <1>3, <1>4, <1>5, <1>6, <1>7

LEMMA TuneKeeps ==
  ASSUME IInv, NEW hz \in Targets, Tune(hz) PROVE IInv'
<1> USE DEF IInv
<1>1. /\ ui = "idle" /\ ui' = "mix" /\ RingLeft /\ target' = hz
      /\ lo' = RetunedLo(hz, sample_rate) /\ request' = RetunedNco(hz, sample_rate)
      /\ UNCHANGED <<width, sample_rate, mode, hint, tap, nco, chain, chain_dirty, restart, late>>
  BY DEF Tune, RingLeft, thread
<1>2. UNCHANGED <<ring, running, hw_rate, dsp, block>>
  BY <1>1 DEF RingLeft
<1>3. /\ lo' \in Int /\ request' \in Int /\ hz \in Nat
      /\ InTheBand(hz, lo', request', sample_rate)
  BY <1>1, AskedAssumption, RetunedIsInTheBand DEF NumbersOK
<1>4. PlacesOK' /\ RingInv'
  BY <1>1, <1>2, RingIsLeft DEF PlacesOK, Places
<1>5. CallInv'
  BY <1>1, <1>2 DEF CallInv
<1>6. NumbersOK'
  BY <1>1, <1>2, <1>3 DEF NumbersOK
<1>7. FrontInv' /\ BandInv'
  BY <1>1, <1>2, <1>3 DEF FrontInv, BandInv
<1>8. ChainInv'
  BY <1>1, <1>2 DEF ChainInv, UpToDate
<1> QED
  BY <1>4, <1>5, <1>6, <1>7, <1>8

LEMMA SelectKeeps ==
  ASSUME IInv, NEW m \in Modes, Select(m) PROVE IInv'
<1> USE DEF IInv
<1>1. /\ ui = "idle" /\ ui' = "mark" /\ RingLeft
      /\ UNCHANGED <<lo, width, target, sample_rate, hint, tap, nco, chain, chain_dirty, request, restart, late>>
  BY DEF Select, RingLeft, radio, thread
<1>2. UNCHANGED <<ring, running, hw_rate, dsp, block>>
  BY <1>1 DEF RingLeft
<1>3. PlacesOK' /\ RingInv'
  BY <1>1, <1>2, RingIsLeft DEF PlacesOK, Places
<1>4. CallInv'
  BY <1>1, <1>2 DEF CallInv
<1>5. NumbersOK'
  BY <1>1, <1>2 DEF NumbersOK
<1>6. FrontInv' /\ BandInv'
  BY <1>1, <1>2 DEF FrontInv, BandInv
<1>7. ChainInv'
  BY <1>1, <1>2 DEF ChainInv
<1> QED
  BY <1>3, <1>4, <1>5, <1>6, <1>7

(* A call that begins and has set nothing yet.                             *)
LEMMA CallBegins ==
  ASSUME IInv, Stop \/ StartCapture \/ \E hz \in Rates : ChangeRate(hz) PROVE IInv'
<1> USE DEF IInv
<1>1. /\ ui = "idle" /\ RingLeft
      /\ UNCHANGED <<lo, width, target, sample_rate, mode, tap, nco, chain, chain_dirty, late>>
      /\ \/ ui' = "signal" /\ restart' = FALSE /\ request' = 0 /\ hint' = hint
         \/ ui' = "create" /\ UNCHANGED <<request, restart, hint>>
         \/ /\ request' \in Nat \ {0} /\ hint' = 0
            /\ \/ ui' = "signal" /\ restart' = TRUE
               \/ ~running /\ ui' = "rerate" /\ restart' = FALSE
  <2>1. CASE Stop \/ StartCapture
    BY <2>1 DEF Stop, StartCapture, RingLeft, radio, settings, thread
  <2>2. ASSUME NEW hz \in Rates, ChangeRate(hz)
        PROVE  /\ ui = "idle" /\ RingLeft
               /\ UNCHANGED <<lo, width, target, sample_rate, mode, tap, nco, chain, chain_dirty, late>>
               /\ request' \in Nat \ {0} /\ hint' = 0
               /\ \/ ui' = "signal" /\ restart' = TRUE
                  \/ ~running /\ ui' = "rerate" /\ restart' = FALSE
    BY <2>2, AskedAssumption DEF ChangeRate, RingLeft, radio, thread
  <2> QED
    BY <2>1, <2>2
<1>2. UNCHANGED <<ring, running, hw_rate, dsp, block>>
  BY <1>1 DEF RingLeft
<1>3. PlacesOK' /\ RingInv'
  BY <1>1, <1>2, RingIsLeft DEF PlacesOK, Places
<1>4. CallInv'
  <2>1. restart = FALSE
    BY <1>1 DEF CallInv
  <2> QED
    BY <1>1, <1>2, <2>1 DEF CallInv
<1>5. NumbersOK'
  BY <1>1, <1>2 DEF NumbersOK
<1>6. FrontInv'
  <2>1. restart = FALSE
    BY <1>1 DEF CallInv
  <2> QED
    BY <1>1, <1>2, <2>1 DEF FrontInv
<1>7. BandInv'
  BY <1>1, <1>2 DEF BandInv
<1>8. ChainInv'
  BY <1>1, <1>2 DEF ChainInv, UpToDate
<1> QED
  BY <1>3, <1>4, <1>5, <1>6, <1>7, <1>8

-----------------------------------------------------------------------------
(* The calls go on and return.                                             *)

LEMMA SignalKeeps == ASSUME IInv, SignalStop \/ CreateFile PROVE IInv'
<1> USE DEF IInv
<1>1. /\ ui \in {"signal", "create"} /\ ui' = (IF ui = "signal" THEN "join" ELSE "idle") /\ RingLeft
      /\ UNCHANGED <<lo, width, target, sample_rate, mode, hint, tap, nco, chain, chain_dirty, request, restart, late>>
  BY DEF SignalStop, CreateFile, RingLeft, radio, settings, thread
<1>2. UNCHANGED <<ring, running, hw_rate, dsp, block>>
  BY <1>1 DEF RingLeft
<1>3. PlacesOK' /\ RingInv'
  BY <1>1, <1>2, RingIsLeft DEF PlacesOK, Places
<1>4. CallInv'
  BY <1>1, <1>2 DEF CallInv
<1>5. NumbersOK'
  BY <1>1, <1>2 DEF NumbersOK
<1>6. FrontInv' /\ BandInv'
  BY <1>1, <1>2 DEF FrontInv, BandInv
<1>7. ChainInv'
  BY <1>1, <1>2 DEF ChainInv, UpToDate
<1> QED
  BY <1>3, <1>4, <1>5, <1>6, <1>7

LEMMA JoinKeeps == ASSUME IInv, Join PROVE IInv'
<1> USE DEF IInv
<1>1. /\ ui = "join" /\ dsp' = "none" /\ running' = FALSE /\ late' = 0
      /\ ui' = IF restart THEN "rerate" ELSE "idle"
      /\ UNCHANGED <<lo, hw_rate, ring, target, sample_rate, hint, tap, nco, request, restart>>
  BY DEF Join, settings
<1>2. PlacesOK'
  BY <1>1 DEF PlacesOK, Places, DspPlaces
<1>3. CallInv'
  BY <1>1 DEF CallInv
<1>4. NumbersOK'
  BY <1>1 DEF NumbersOK
<1>5. FrontInv' /\ BandInv' /\ RingInv' /\ ChainInv'
  BY <1>1 DEF FrontInv, BandInv, RingInv, ChainInv
<1> QED
  BY <1>2, <1>3, <1>4, <1>5

LEMMA SetRateKeeps == ASSUME IInv, SetRate PROVE IInv'
<1> USE DEF IInv
<1>1. /\ ui = "rerate" /\ ui' = "idle" /\ late' = 0 /\ request' = 0 /\ restart' = FALSE
      /\ UNCHANGED <<target, mode, hint>>
  BY DEF SetRate
<1>2. ~running /\ RoundedRate(request) \in Nat \ {0}
  BY <1>1, RateIsPositive DEF CallInv
<1>3. CASE restart
  <2>1. DoStart(RoundedRate(request))
    BY <1>3 DEF SetRate
  <2>2. request' \in Int
    BY <1>1
  <2> HIDE DEF IInv
  <2> QED
    BY <1>1, <1>2, <2>1, <2>2, StartKeeps
<1>4. CASE ~restart
  <2>1. /\ hw_rate' = RoundedRate(request) /\ sample_rate' = hw_rate' /\ dsp' = dsp
        /\ UNCHANGED <<lo, nco, tap, ring, running>>
    BY <1>4 DEF SetRate
  <2>2. PlacesOK' /\ CallInv'
    BY <1>1, <1>2, <2>1 DEF PlacesOK, Places, CallInv
  <2>3. NumbersOK'
    BY <1>1, <1>2, <2>1 DEF NumbersOK
  <2>4. FrontInv' /\ BandInv' /\ RingInv' /\ ChainInv'
    BY <1>1, <1>2, <2>1 DEF FrontInv, BandInv, RingInv, ChainInv
  <2> QED
    BY <2>2, <2>3, <2>4
<1> QED
  BY <1>3, <1>4

LEMMA SetMixerKeeps == ASSUME IInv, SetMixer PROVE IInv'
<1> USE DEF IInv
<1>1. /\ ui = "mix" /\ ui' = "idle" /\ nco' = request /\ request' = 0 /\ RingLeft
      /\ UNCHANGED <<lo, width, target, sample_rate, mode, hint, tap, chain, chain_dirty, restart, late>>
  BY DEF SetMixer, RingLeft, radio, settings, thread
<1>2. UNCHANGED <<ring, running, hw_rate, dsp, block>>
  BY <1>1 DEF RingLeft
<1>3. PlacesOK' /\ RingInv'
  BY <1>1, <1>2, RingIsLeft DEF PlacesOK, Places
<1>4. CallInv'
  BY <1>1, <1>2 DEF CallInv
<1>5. NumbersOK'
  BY <1>1, <1>2 DEF NumbersOK
<1>6. FrontInv' /\ BandInv'
  BY <1>1, <1>2 DEF FrontInv, BandInv
<1>7. ChainInv'
  BY <1>1, <1>2 DEF ChainInv, UpToDate
<1> QED
  BY <1>3, <1>4, <1>5, <1>6, <1>7

LEMMA MarkKeeps == ASSUME IInv, MarkDirty PROVE IInv'
<1> USE DEF IInv
<1>1. /\ ui = "mark" /\ ui' = "idle" /\ chain_dirty' = TRUE /\ late' = 0 /\ RingLeft
      /\ UNCHANGED <<lo, width, target, sample_rate, mode, hint, tap, nco, chain, request, restart>>
  BY DEF MarkDirty, RingLeft, radio, settings, thread
<1>2. UNCHANGED <<ring, running, hw_rate, dsp, block>>
  BY <1>1 DEF RingLeft
<1>3. PlacesOK' /\ RingInv'
  BY <1>1, <1>2, RingIsLeft DEF PlacesOK, Places
<1>4. CallInv'
  BY <1>1, <1>2 DEF CallInv
<1>5. NumbersOK'
  BY <1>1, <1>2 DEF NumbersOK
<1>6. FrontInv' /\ BandInv'
  BY <1>1, <1>2 DEF FrontInv, BandInv
<1>7. ChainInv'
  BY <1>1, <1>2 DEF ChainInv
<1> QED
  BY <1>3, <1>4, <1>5, <1>6, <1>7

-----------------------------------------------------------------------------
(* The DSP thread and the radio.                                           *)

LEMMA DspKeeps == ASSUME IInv, Dsp PROVE IInv'
<1> USE DEF IInv
<1>1. UNCHANGED <<ui, request, restart, lo, hw_rate, width, target, sample_rate, mode, hint, tap, nco, running>>
  BY DEF Dsp, Top, Rebuild, Read, Write, Demodulate, radio, settings, call
<1>2. dsp # "none" /\ dsp' # "none" /\ dsp' \in DspPlaces
  BY DEF Dsp, Top, Rebuild, Read, Write, Demodulate, DspPlaces
<1>3. running
  BY <1>2 DEF CallInv
<1>4. PlacesOK' /\ CallInv'
  BY <1>1, <1>2 DEF PlacesOK, CallInv
<1>5. NumbersOK' /\ FrontInv' /\ BandInv'
  BY <1>1 DEF NumbersOK, FrontInv, BandInv
<1>6. RingInv'
  <2>1. CASE Read /\ ring # <<>>
    <3>1. block' = Head(ring) /\ ring' = Tail(ring)
      BY <2>1 DEF Read
    <3>2. /\ Len(ring) \in Nat /\ Len(ring) > 0 /\ DOMAIN ring = 1 .. Len(ring)
          /\ ring \in Seq(Blocks)
      BY <2>1 DEF RingInv
    <3>3. /\ block' = ring[1] /\ 1 \in DOMAIN ring /\ ring' \in Seq(Blocks)
          /\ \A i \in DOMAIN ring' : i + 1 \in DOMAIN ring /\ ring'[i] = ring[i + 1]
      BY <3>1, <3>2
    <3> QED
      BY <1>1, <1>3, <3>3 DEF RingInv
  <2>2. CASE Read /\ ring = <<>>
    <3>1. UNCHANGED ring /\ dsp' = "top"
      BY <2>2 DEF Read
    <3> QED
      BY <1>1, <3>1 DEF RingInv
  <2>3. CASE Top \/ Rebuild \/ Demodulate
    <3>1. UNCHANGED ring /\ dsp' \in {"top", "ended", "rebuild", "read"}
      BY <2>3 DEF Top, Rebuild, Demodulate, radio
    <3> QED
      BY <1>1, <3>1 DEF RingInv
  <2>4. CASE Write
    <3>1. UNCHANGED <<ring, block>> /\ dsp = "write"
      BY <2>4 DEF Write, radio
    <3> QED
      BY <1>1, <3>1 DEF RingInv
  <2> QED
    BY <2>1, <2>2, <2>3, <2>4 DEF Dsp
<1>7. ChainInv'
  <2>1. CASE Top
    <3>1. /\ UNCHANGED <<chain, late>> /\ dsp = "top"
          /\ \/ dsp' = "ended" /\ UNCHANGED chain_dirty
             \/ chain_dirty /\ dsp' = "rebuild"
             \/ ~chain_dirty /\ dsp' = "read"
      BY <2>1 DEF Top
    <3>2. CASE dsp' = "ended" /\ UNCHANGED chain_dirty
      BY <1>1, <1>3, <3>1, <3>2 DEF ChainInv, UpToDate
    <3>3. CASE dsp' = "rebuild"
      BY <1>1, <3>1, <3>3 DEF ChainInv
    <3>4. CASE ~chain_dirty /\ dsp' = "read"
      BY <1>1, <1>3, <3>1, <3>4 DEF ChainInv, UpToDate
    <3> QED
      BY <3>1, <3>2, <3>3, <3>4
  <2>2. CASE Rebuild
    <3>1. UpToDate' /\ late' = late
      BY <1>1, <2>2 DEF Rebuild, UpToDate
    <3> QED
      BY <3>1 DEF ChainInv
  <2>3. CASE Read \/ Write
    <3>1. /\ UNCHANGED <<chain, chain_dirty, late>> /\ dsp \in {"read", "write"} /\ dsp' # "rebuild"
      BY <2>3 DEF Read, Write
    <3> QED
      BY <1>1, <1>3, <3>1 DEF ChainInv, UpToDate
  <2>4. CASE Demodulate
    <3>1. /\ UNCHANGED <<chain, chain_dirty>> /\ dsp = "demod" /\ dsp' = "top"
          /\ \/ late' = late
             \/ /\ ui = "idle" /\ mode # Spectrum /\ late' = late + 1
                /\ chain # [mode |-> mode, rate |-> block.rate]
      BY <2>4 DEF Demodulate
    <3>2. block.rate = sample_rate
      BY <1>3, <3>1 DEF RingInv, FrontInv
    <3>3. late' \in {0, 1}
      BY <3>1, <3>2 DEF ChainInv, UpToDate
    <3> QED
      BY <1>1, <1>3, <3>1, <3>3 DEF ChainInv, UpToDate
  <2> QED
    BY <2>1, <2>2, <2>3, <2>4 DEF Dsp
<1> QED
  BY <1>4, <1>5, <1>6, <1>7

LEMMA DeliverKeeps == ASSUME IInv, Deliver PROVE IInv'
<1> USE DEF IInv
<1> DEFINE b == [lo |-> lo, rate |-> hw_rate]
<1>1. /\ ring' = Append(ring, b)
      /\ UNCHANGED <<ui, request, restart, lo, hw_rate, width, target, sample_rate, mode, hint, tap, nco,
                     running, dsp, block, chain, chain_dirty, late>>
  BY DEF Deliver, settings, thread, call
<1>2. PlacesOK' /\ CallInv' /\ NumbersOK'
  BY <1>1 DEF PlacesOK, CallInv, NumbersOK
<1>3. FrontInv' /\ BandInv'
  BY <1>1 DEF FrontInv, BandInv
<1>4. b \in Blocks /\ b.rate = hw_rate
  BY DEF Blocks, NumbersOK
<1> HIDE DEF b
<1>5. RingInv'
  <2>1. /\ ring \in Seq(Blocks) /\ Len(ring) \in Nat /\ DOMAIN ring = 1 .. Len(ring)
    BY DEF RingInv
  <2>2. /\ ring' \in Seq(Blocks) /\ DOMAIN ring' = 1 .. (Len(ring) + 1)
        /\ \A i \in 1 .. (Len(ring) + 1) : (i \in 1 .. Len(ring) /\ ring'[i] = ring[i]) \/ ring'[i] = b
    BY <1>1, <1>4, <2>1
  <2> QED
    BY <1>1, <1>4, <2>1, <2>2 DEF RingInv
<1>6. ChainInv'
  BY <1>1 DEF ChainInv, UpToDate
<1> QED
  BY <1>2, <1>3, <1>5, <1>6

LEMMA NextStep == IInv /\ [Next]_vars => IInv'
<1> SUFFICES ASSUME IInv, [Next]_vars PROVE IInv'
  OBVIOUS
<1>1. CASE Start
  <2>1. /\ DoStart(sample_rate) /\ ~running /\ late' = 0 /\ UNCHANGED <<target, mode, hint>>
        /\ ui' = "idle" /\ request' = request /\ restart' = restart /\ ui = "idle"
    BY <1>1 DEF Start, call
  <2>2. sample_rate \in Nat \ {0} /\ request' \in Int /\ restart' = FALSE
    BY <2>1 DEF IInv, NumbersOK, CallInv
  <2> QED
    BY <2>1, <2>2, StartKeeps
<1>2. CASE Calls
  BY <1>1, <1>2, SettingsKeep, TuneKeeps, SelectKeeps, CallBegins DEF Calls
<1>3. CASE Returns
  BY <1>3, SignalKeeps, JoinKeeps, SetRateKeeps, SetMixerKeeps, MarkKeeps DEF Returns
<1>4. CASE UNCHANGED vars
  <2> USE <1>4 DEF vars, radio, settings, thread, call, IInv
  <2>1. PlacesOK' /\ NumbersOK' /\ CallInv'
    BY DEF PlacesOK, NumbersOK, CallInv
  <2>2. FrontInv' /\ BandInv' /\ RingInv' /\ ChainInv'
    BY DEF FrontInv, BandInv, RingInv, ChainInv, UpToDate
  <2> QED
    BY <2>1, <2>2
<1> QED
  BY <1>2, <1>3, <1>4, DspKeeps, DeliverKeeps DEF Next

\* What the calls, the DSP thread and the radio keep among them.
THEOREM InductiveInvariant == Spec => []IInv
BY InitIInv, NextStep, PTL DEF Spec

\* A receiver that runs has its target at 0 Hz of the mixer and within 40 %
\* of its rate of the oscillator, after any sequence of calls
\* (set_target_frequency(), start(), set_sampling_rate()).
THEOREM TargetStaysInTheBand == Spec => []TargetInTheBand
<1>1. IInv => TargetInTheBand
  BY DEF IInv, BandInv, InTheBand, TargetInTheBand
<1> QED
  BY <1>1, InductiveInvariant, PTL

\* No block but the one in hand goes through filters of another mode or rate
\* (chain_dirty_ in dsp_thread_main()).
THEOREM OneLateBlock == Spec => []LateByOneBlock
<1>1. IInv => LateByOneBlock
  BY DEF IInv, ChainInv, LateByOneBlock
<1> QED
  BY <1>1, InductiveInvariant, PTL

\* Rate, analog filter and tap of a running receiver belong together, for
\* every radio (apply_rx_bandwidth(), resize of the tap in start()).
THEOREM FrontEndIsConsistent == Spec => []FrontEndFollowsRate
<1>1. IInv => FrontEndFollowsRate
  <2> SUFFICES ASSUME IInv, ui = "idle", running
               PROVE  /\ sample_rate = hw_rate /\ tap \in {0, hw_rate}
                      /\ Usable(WidthRange) => width = Wanted(hint, hw_rate)
    BY DEF FrontEndFollowsRate, Wanted
  <2>1. ~restart
    BY DEF IInv, CallInv
  <2> QED
    BY <2>1 DEF IInv, FrontInv
<1> QED
  BY <1>1, InductiveInvariant, PTL

-----------------------------------------------------------------------------
(* The rates that an application asks the receiver for are chosen by the   *)
(* policy of module RatePolicy, for any radio, any wishes, and any         *)
(* tolerance.  The choice comes down to multiples: of the step of a radio, *)
(* and of a symbol rate.                                                   *)

LEMMA Division ==
  ASSUME NEW m \in Nat \ {0}, NEW a \in Int
  PROVE  /\ a \div m \in Int /\ a % m \in 0 .. (m - 1)
         /\ a = m * (a \div m) + (a % m)
OBVIOUS

LEMMA MultiplesApart ==
  ASSUME NEW m \in Nat \ {0}, NEW a \in Int, NEW b \in Int, a < b
  PROVE  m * a + m <= m * b
<1>1. m * b = m * a + m * (b - a)
  OBVIOUS
<1>2. m * (b - a) >= m * 1
  OBVIOUS
<1> QED
  BY <1>1, <1>2

LEMMA MultipleIsMultiple ==
  ASSUME NEW m \in Nat \ {0}, NEW k \in Int
  PROVE  m * k \in Int /\ (m * k) % m = 0
<1> DEFINE a == m * k
           q == a \div m
           r == a % m
<1>1. a \in Int
  OBVIOUS
<1>2. q \in Int /\ r \in 0 .. (m - 1) /\ a = m * q + r
  BY <1>1, Division
<1>3. a = m * k
  OBVIOUS
<1>4. m * q \in Int
  BY <1>2
<1> HIDE DEF a, q, r
<1>5. ~(q < k)
  <2> SUFFICES ASSUME q < k PROVE FALSE
    OBVIOUS
  <2>1. m * q + m <= m * k
    BY <1>2, MultiplesApart
  <2> QED
    BY <1>1, <1>2, <1>3, <1>4, <2>1
<1>6. ~(k < q)
  <2> SUFFICES ASSUME k < q PROVE FALSE
    OBVIOUS
  <2>1. m * k + m <= m * q
    BY <1>2, MultiplesApart
  <2> QED
    BY <1>1, <1>2, <1>3, <1>4, <2>1
<1>7. k = q
  BY <1>2, <1>5, <1>6
<1>8. r = 0
  BY <1>1, <1>2, <1>3, <1>4, <1>7
<1> QED
  BY <1>1, <1>8 DEF a, r

LEMMA CloseMultiples ==
  ASSUME NEW m \in Nat \ {0}, NEW a \in Int, NEW b \in Int,
         a % m = 0, b % m = 0, a <= b, b < a + m
  PROVE  a = b
<1> DEFINE p == a \div m
           q == b \div m
<1>1. p \in Int /\ q \in Int /\ a = m * p + (a % m) /\ b = m * q + (b % m)
  BY Division
<1> HIDE DEF p, q
<1>2. m * p \in Int /\ m * q \in Int /\ a = m * p /\ b = m * q
  BY <1>1
<1>3. p < q => m * p + m <= m * q
  BY <1>1, MultiplesApart
<1>4. q < p => m * q + m <= m * p
  BY <1>1, MultiplesApart
<1>5. p < q \/ q < p \/ p = q
  BY <1>1
<1> QED
  BY <1>2, <1>3, <1>4, <1>5

LEMMA SmallModulus ==
  ASSUME NEW m \in Nat \ {0}, NEW a \in 0 .. (m - 1)
  PROVE  a % m = a
OBVIOUS

LEMMA Floor ==
  ASSUME NEW m \in Nat \ {0}, NEW v \in Int
  PROVE  LET down == FloorMultiple(v, m)
         IN  /\ down \in Int /\ down % m = 0 /\ down <= v /\ v < down + m
             /\ \A w \in Int : w % m = 0 /\ w <= v => w <= down
<1> DEFINE q == v \div m
           down == q * m
<1>0. FloorMultiple(v, m) = down
  BY SpecialAssumption DEF FloorMultiple
<1>1. q \in Int /\ v % m \in 0 .. (m - 1) /\ v = m * q + (v % m)
  BY Division
<1> HIDE DEF q
<1>2. down = m * q
  BY <1>1
<1>3. down \in Int /\ down % m = 0
  BY <1>1, <1>2, MultipleIsMultiple
<1> HIDE DEF down
<1>4. down <= v /\ v < down + m
  BY <1>1, <1>2, <1>3
<1>5. ASSUME NEW w \in Int, w % m = 0, w <= v PROVE w <= down
  <2> DEFINE p == w \div m
  <2>1. p \in Int /\ w = m * p + (w % m)
    BY Division
  <2> HIDE DEF p
  <2>2. m * p \in Int /\ w = m * p
    BY <1>5, <2>1
  <2>3. ~(q < p)
    <3> SUFFICES ASSUME q < p PROVE FALSE
      OBVIOUS
    <3>1. m * q + m <= m * p
      BY <1>1, <2>1, MultiplesApart
    <3> QED
      BY <1>2, <1>3, <1>4, <1>5, <2>2, <3>1
  <2>4. p = q \/ p < q
    BY <1>1, <2>1, <2>3
  <2>5. p < q => m * p + m <= m * q
    BY <1>1, <2>1, MultiplesApart
  <2> QED
    BY <1>2, <1>3, <2>2, <2>4, <2>5
<1> QED
  BY <1>0, <1>3, <1>4, <1>5

LEMMA Ceiling ==
  ASSUME NEW m \in Nat \ {0}, NEW v \in Int
  PROVE  LET up == CeilMultiple(v, m)
         IN  /\ up \in Int /\ up % m = 0 /\ v <= up /\ up < v + m
             /\ \A w \in Int : w % m = 0 /\ v <= w => up <= w
<1> DEFINE q == (-v) \div m
           up == -(q * m)
<1>0. CeilMultiple(v, m) = up
  BY SpecialAssumption DEF CeilMultiple
<1>1. q \in Int /\ (-v) % m \in 0 .. (m - 1) /\ -v = m * q + ((-v) % m)
  BY Division
<1> HIDE DEF q
<1>2. m * q \in Int /\ up = -(m * q)
  BY <1>1
<1>3. up = m * (-q)
  BY <1>1, <1>2
<1>4. up \in Int /\ up % m = 0
  <2>1. -q \in Int
    BY <1>1
  <2> HIDE DEF up
  <2> QED
    BY <1>3, <2>1, MultipleIsMultiple
<1> HIDE DEF up
<1>5. v <= up /\ up < v + m
  BY <1>1, <1>2
<1>6. ASSUME NEW w \in Int, w % m = 0, v <= w PROVE up <= w
  <2> DEFINE p == w \div m
  <2>1. p \in Int /\ w = m * p + (w % m)
    BY Division
  <2> HIDE DEF p
  <2>2. m * p \in Int /\ w = m * p
    BY <1>6, <2>1
  <2>3. ~(p < -q)
    <3> SUFFICES ASSUME p < -q PROVE FALSE
      OBVIOUS
    <3>1. m * p + m <= m * (-q)
      BY <1>1, <2>1, MultiplesApart
    <3> QED
      BY <1>3, <1>4, <1>5, <1>6, <2>2, <3>1
  <2>4. p = -q \/ -q < p
    BY <1>1, <2>1, <2>3
  <2>5. -q < p => m * (-q) + m <= m * p
    BY <1>1, <2>1, MultiplesApart
  <2> QED
    BY <1>3, <1>4, <2>2, <2>4, <2>5
<1> QED
  BY <1>0, <1>4, <1>5, <1>6
-----------------------------------------------------------------------------
(* What a usable radio and an application say.                             *)

Wants ==
    [ideal : Whole, minimum : Whole, useful : Whole,
     multiple : Whole \cup {Denormal}]

OnGrid(v) == Positive(range.step) => (v - range.min) % range.step = 0

LEMMA OpinionType ==
  ASSUME NEW v \in Whole
  PROVE  /\ Opinion(v) \in Nat
         /\ Opinion(v) > 0 => v = Opinion(v)
<1>1. CASE v \in Int
  <2>1. v # NotReal /\ v # Denormal
    BY <1>1, SpecialAssumption
  <2> QED
    BY <1>1, <2>1 DEF Opinion, Positive, Finite
<1>2. CASE v = NotReal
  BY <1>2 DEF Opinion, Positive, Finite
<1> QED
  BY <1>1, <1>2 DEF Whole

LEMMA IdealType ==
  ASSUME want \in Wants
  PROVE  LET ideal == IdealRate(want)
             minimum == Opinion(want.minimum)
             useful == Opinion(want.useful)
         IN  /\ ideal \in Nat /\ minimum \in Nat /\ useful \in Nat
             /\ minimum > 0 => minimum <= ideal
             /\ useful > 0 /\ Sane => 0 < ideal /\ ideal <= useful
<1>1. /\ want.ideal \in Whole /\ want.minimum \in Whole
      /\ want.useful \in Whole
  BY DEF Wants
<1> DEFINE asked == Opinion(want.ideal)
           minimum == Opinion(want.minimum)
           useful == Opinion(want.useful)
<1>2. asked \in Nat /\ minimum \in Nat /\ useful \in Nat
  BY <1>1, OpinionType
<1> HIDE DEF asked, minimum, useful
<1> DEFINE sought == IF asked > 0 THEN asked ELSE IF minimum > 0 THEN minimum ELSE useful
           capped == IF useful > 0 /\ sought > useful THEN useful ELSE sought
<1>3. IdealRate(want) = IF minimum > 0 /\ capped < minimum THEN minimum ELSE capped
  BY DEF IdealRate, asked, minimum, useful
<1>4. Sane <=> (useful = 0 \/ useful >= minimum)
  BY DEF Sane, minimum, useful
<1> QED
  BY <1>2, <1>3, <1>4 DEF minimum, useful

LEMMA UsableType ==
  ASSUME range \in Published, Usable(range)
  PROVE  /\ range.min \in Nat /\ range.max \in Nat \ {0} /\ range.min <= range.max
         /\ Positive(range.step) => range.step \in Nat \ {0}
<1>1. /\ range.min \in Whole /\ range.max \in Whole
      /\ range.step \in Whole
  BY DEF Published
<1>2. range.min \in Int /\ range.max \in Int
  BY <1>1 DEF Usable, Finite, Whole
<1>3. ASSUME Positive(range.step) PROVE range.step \in Nat \ {0}
  <2>1. range.step \in Int /\ range.step # Denormal
    BY <1>1, <1>3, SpecialAssumption DEF Positive, Finite, Whole
  <2> QED
    BY <1>3, <2>1 DEF Positive
<1> QED
  BY <1>2, <1>3 DEF Usable

(* Moving down onto the steps of a radio stays in its range, and passes no *)
(* rate of the radio by.                                                   *)
LEMMA SnapDown ==
  ASSUME range \in Published, Usable(range),
         NEW v \in Int, range.min <= v
  PROVE  LET snapped == SnapToStep(v, range)
         IN  /\ snapped \in Int /\ range.min <= snapped /\ snapped <= v
             /\ OnGrid(snapped)
             /\ OnStepGrid(v, range) <=> OnGrid(v)
             /\ \A w \in Int : range.min <= w /\ OnGrid(w) /\ w <= v => w <= snapped
             /\ Positive(range.step) /\ snapped = range.min =>
                    v - range.min < range.step
<1>0. range.min \in Nat /\ (Positive(range.step) => range.step \in Nat \ {0})
  BY UsableType
<1>1. CASE ~Positive(range.step)
  BY <1>0, <1>1 DEF SnapToStep, OnStepGrid, OnGrid
<1>2. CASE Positive(range.step)
  <2> DEFINE s == range.step
             d == v - range.min
             down == FloorMultiple(d, s)
  <2>1. s \in Nat \ {0} /\ d \in Nat
    BY <1>0, <1>2
  <2>2. 0 % s = 0 /\ s % s = 0
    <3>1. 0 \in 0 .. (s - 1)
      BY <2>1
    <3>2. (s * 1) % s = 0
      BY <2>1, MultipleIsMultiple
    <3>3. s * 1 = s
      BY <2>1
    <3> QED
      BY <2>1, <3>1, <3>2, <3>3, SmallModulus
  <2>3. /\ down \in Int /\ down % s = 0 /\ down <= d
        /\ \A w \in Int : w % s = 0 /\ w <= d => w <= down
    <3> HIDE DEF s, d
    <3> QED
      BY <2>1, Floor
  <2>4. 0 <= down
    BY <2>1, <2>2, <2>3
  <2>5. CASE v = range.min
    <3>1. SnapToStep(v, range) = range.min
      BY <1>0, <1>2, <2>5 DEF SnapToStep
    <3>2. range.min - range.min = 0
      BY <1>0
    <3> QED
      BY <1>0, <1>2, <2>2, <2>5, <3>1, <3>2 DEF OnGrid, OnStepGrid
  <2>6. CASE v # range.min
    <3>1. SnapToStep(v, range) = range.min + down
      <4>1. s # Denormal
        BY <2>1, SpecialAssumption
      <4>2. down = (d \div s) * s
        BY <4>1 DEF FloorMultiple
      <4>3. ~(v <= range.min)
        BY <1>0, <2>6
      <4> QED
        BY <1>2, <4>2, <4>3 DEF SnapToStep
    <3> HIDE DEF down
    <3>2. (range.min + down) - range.min = down
      BY <1>0, <2>3
    <3>3. OnGrid(range.min + down)
      BY <2>3, <3>2 DEF OnGrid
    <3>4. range.min + down \in Int /\ range.min <= range.min + down /\ range.min + down <= v
      BY <1>0, <2>1, <2>3, <2>4
    <3>5. range.min + down = range.min => d < s
      BY <1>0, <2>1, <2>2, <2>3
    <3>6. ASSUME NEW w \in Int, range.min <= w, OnGrid(w), w <= v
          PROVE  w <= range.min + down
      <4> DEFINE e == w - range.min
      <4>1. e \in Int /\ e % s = 0 /\ e <= d /\ w = range.min + e
        BY <1>0, <1>2, <3>6 DEF OnGrid
      <4> HIDE DEF e, d, s
      <4>2. e <= down
        BY <2>3, <4>1
      <4> QED
        BY <1>0, <2>3, <4>1, <4>2
    <3>7. OnStepGrid(v, range) <=> OnGrid(v)
      <4>1. OnGrid(v) => v <= range.min + down
        BY <3>6
      <4> QED
        BY <1>0, <2>3, <3>1, <3>3, <3>4, <4>1 DEF OnStepGrid
    <3> QED
      BY <3>1, <3>3, <3>4, <3>5, <3>6, <3>7
  <2> QED
    BY <2>5, <2>6
<1> QED
  BY <1>1, <1>2
-----------------------------------------------------------------------------
(* The rate before a multiple is preferred.                                *)

Ideal == IdealRate(want)
Within == Bounded(Ideal, range.min, range.max)
Device == DeviceRate(Ideal, range)

LEMMA WithinType ==
  ASSUME range \in Published, Usable(range), want \in Wants
  PROVE  /\ Ideal \in Nat /\ Within \in Nat
         /\ range.min <= Within /\ Within <= range.max
         /\ Ideal < Within => Within = range.min
         /\ Within < Ideal => Within = range.max
BY UsableType, IdealType DEF Ideal, Within, Bounded

LEMMA DeviceType ==
  ASSUME range \in Published, Usable(range), want \in Wants
  PROVE  /\ Device \in Nat \ {0} /\ Device <= range.max
         /\ ~FallsToZero =>
               range.min <= Device /\ OnGrid(Device) /\ (Ideal > 0 => Device <= Within)
         /\ ~FallsToZero /\ Ideal > 0 =>
               \A w \in Int : range.min <= w /\ OnGrid(w) /\ w <= Within => w <= Device
         /\ ~Positive(range.step) /\ Ideal > 0 => Device = Within
<1> DEFINE snapped == SnapToStep(Within, range)
<1>1. /\ range.min \in Nat /\ range.max \in Nat \ {0} /\ range.min <= range.max
      /\ Positive(range.step) => range.step \in Nat \ {0}
  BY UsableType
<1>2. /\ Ideal \in Nat /\ Within \in Nat /\ range.min <= Within /\ Within <= range.max
      /\ (Ideal < Within => Within = range.min) /\ (Within < Ideal => Within = range.max)
  BY WithinType
<1>3. /\ snapped \in Int /\ range.min <= snapped /\ snapped <= Within /\ OnGrid(snapped)
      /\ \A w \in Int : range.min <= w /\ OnGrid(w) /\ w <= Within => w <= snapped
      /\ Positive(range.step) /\ snapped = range.min => Within - range.min < range.step
  <2> HIDE DEF Within
  <2> QED
    BY <1>2, SnapDown
<1>4. Device = IF snapped > 0 THEN snapped ELSE range.max
  BY DEF Device, Within, DeviceRate
<1>5. ~Positive(range.step) => snapped = Within
  BY DEF SnapToStep
<1>6. FallsToZero <=>
        /\ range.min = 0 /\ Positive(range.step)
        /\ Ideal < range.step \/ range.max < range.step
  BY DEF FallsToZero, Ideal
<1> HIDE DEF snapped
<1>7. CASE snapped > 0
  <2>1. Device = snapped
    BY <1>4, <1>7
  <2> QED
    BY <1>1, <1>2, <1>3, <1>5, <1>7, <2>1
<1>8. CASE ~(snapped > 0)
  <2>1. Device = range.max /\ snapped = 0 /\ range.min = 0
    BY <1>1, <1>3, <1>4, <1>8
  <2>2. CASE Positive(range.step)
    <3>1. FallsToZero
      <4>1. Within < range.step
        BY <1>1, <1>2, <1>3, <2>1, <2>2
      <4>2. Ideal <= Within \/ Within = range.max
        BY <1>2
      <4> QED
        BY <1>1, <1>2, <1>6, <2>1, <2>2, <4>1, <4>2
    <3> QED
      BY <1>1, <2>1, <2>2, <3>1
  <2>3. CASE ~Positive(range.step)
    <3>1. Within = 0 /\ Ideal = 0
      BY <1>1, <1>2, <1>5, <2>1, <2>3
    <3> QED
      BY <1>1, <2>1, <2>3, <3>1 DEF OnGrid
  <2> QED
    BY <2>2, <2>3
<1> QED
  BY <1>7, <1>8
-----------------------------------------------------------------------------
(* The multiple that is preferred, from below if one will do.              *)

Preferred == PreferMultiple(Device, want, range)
Down == FloorMultiple(Device, want.multiple)
Up == CeilMultiple(Device, want.multiple)

LEMMA MultipleType ==
  ASSUME want \in Wants, Opinion(want.multiple) # 0, want.multiple # Denormal
  PROVE  want.multiple \in Nat \ {0}
BY OpinionType, SpecialAssumption
   DEF Wants, Whole, Opinion, Positive, Finite

LEMMA PreferredType ==
  ASSUME range \in Published, Usable(range), want \in Wants
  PROVE  /\ Preferred \in Nat \ {0}
         /\ \/ Preferred = Device
            \/ /\ range.min <= Preferred /\ Preferred <= Device /\ OnGrid(Preferred)
            \/ /\ range.min <= Preferred /\ Preferred <= range.max /\ OnGrid(Preferred)
               /\ Opinion(want.useful) > 0 =>
                     Preferred <= Opinion(want.useful) + Tolerance
<1>1. /\ Device \in Nat \ {0} /\ range.min \in Nat
      /\ Opinion(want.useful) \in Nat
  BY DeviceType, UsableType, IdealType
<1>2. CASE Opinion(want.multiple) = 0
  BY <1>1, <1>2 DEF Preferred, PreferMultiple
<1>3. CASE want.multiple = Denormal
  <2>1. Down = NotReal /\ Up = NotReal
    BY <1>3 DEF Down, Up, FloorMultiple, CeilMultiple
  <2>2. ~Positive(Down) /\ ~Positive(Up)
    BY <2>1 DEF Positive, Finite
  <2> QED
    BY <1>1, <2>2 DEF Preferred, Down, Up, PreferMultiple, DownFits,
                      UpFits
<1>4. CASE Opinion(want.multiple) # 0 /\ want.multiple # Denormal
  <2>1. want.multiple \in Nat \ {0}
    BY <1>4, MultipleType
  <2>2. Down \in Int /\ Up \in Int
    <3> DEFINE m == want.multiple
    <3>1. m \in Nat \ {0} /\ Device \in Int
      BY <1>1, <2>1
    <3> HIDE DEF m
    <3>2. FloorMultiple(Device, m) \in Int
      BY <3>1, Floor
    <3>3. CeilMultiple(Device, m) \in Int
      BY <3>1, Ceiling
    <3> QED
      BY <3>2, <3>3 DEF Down, Up, m
  <2>3. Preferred = IF DownFits(Down, Device, want, range) THEN Down
                    ELSE IF UpFits(Up, Device, want, range) THEN Up ELSE Device
    BY <1>4 DEF Preferred, Down, Up, PreferMultiple
  <2>4. \A v \in Int : Positive(v) => v > 0
    BY SpecialAssumption DEF Positive
  <2>5. \A v \in Int : range.min <= v => (OnStepGrid(v, range) <=> OnGrid(v))
    BY SnapDown
  <2>6. ASSUME DownFits(Down, Device, want, range)
        PROVE  /\ Down \in Nat \ {0} /\ range.min <= Down /\ Down <= Device
               /\ OnGrid(Down)
    BY <1>1, <2>2, <2>4, <2>5, <2>6 DEF DownFits
  <2>7. ASSUME UpFits(Up, Device, want, range)
        PROVE  /\ Up \in Nat \ {0} /\ range.min <= Up /\ Up <= range.max
               /\ OnGrid(Up)
               /\ Opinion(want.useful) > 0 =>
                     Up <= Opinion(want.useful) + Tolerance
    BY <1>1, <2>2, <2>4, <2>5, <2>7, ToleranceAssumption DEF UpFits
  <2> QED
    BY <1>1, <2>3, <2>6, <2>7
<1> QED
  BY <1>2, <1>3, <1>4

LEMMA ChosenRate ==
  ASSUME range \in Published, want \in Wants,
         choice = ChooseRxRate(range, want)
  PROVE  /\ ~Usable(range) => choice.rate = Ideal
         /\ Usable(range) =>
               /\ choice.rate = Preferred
               /\ choice.outcome = RateOutcome(Preferred, Ideal, want)
BY DEF ChooseRxRate, Ideal, Preferred, Device

(* Guarantees 1, 2 and 5.                                                  *)
LEMMA StaysWithinTheLimits ==
  ASSUME range \in Published, want \in Wants,
         choice = ChooseRxRate(range, want)
  PROVE  WithinTheLimits
<1> DEFINE useful == Opinion(want.useful)
<1>1. /\ Ideal \in Nat /\ useful \in Nat
      /\ useful > 0 /\ Sane => 0 < Ideal /\ Ideal <= useful
  BY IdealType DEF Ideal
<1>2. CASE ~Usable(range)
  <2>1. choice.rate = Ideal
    BY <1>2, ChosenRate
  <2> QED
    BY <1>1, <1>2, <2>1, SpecialAssumption DEF WithinTheLimits, Finite, Ideal
<1>3. CASE Usable(range)
  <2>1. /\ choice.rate = Preferred /\ Preferred \in Nat \ {0}
        /\ \/ Preferred = Device
           \/ range.min <= Preferred /\ Preferred <= Device /\ OnGrid(Preferred)
           \/ /\ range.min <= Preferred /\ Preferred <= range.max /\ OnGrid(Preferred)
              /\ useful > 0 => Preferred <= useful + Tolerance
    BY <1>3, ChosenRate, PreferredType
  <2>2. range.min \in Nat /\ range.max \in Nat
    BY <1>3, UsableType
  <2>3. /\ Device \in Nat /\ Device <= range.max
        /\ ~FallsToZero =>
              range.min <= Device /\ OnGrid(Device) /\ (Ideal > 0 => Device <= Within)
    BY <1>3, DeviceType
  <2>4. Within \in Nat /\ (Ideal < Within => Within = range.min)
    BY <1>3, WithinType
  <2>5. Finite(choice.rate) /\ choice.rate # 0
    BY <2>1, SpecialAssumption DEF Finite
  <2>6. ASSUME ~FallsToZero PROVE choice.rate \in RadioRates
    <3>1. /\ Preferred \in 1 .. range.max /\ Preferred >= range.min /\ OnGrid(Preferred)
      BY <2>1, <2>2, <2>3, <2>6
    <3> QED
      BY <2>1, <3>1 DEF RadioRates, OnGrid
  <2>7. ASSUME ~FallsToZero, useful > 0, Sane, choice.rate > useful + Tolerance,
               NEW v \in RadioRates
        PROVE  v > useful
    <3>1. v \in Int /\ v >= range.min
      BY <2>2 DEF RadioRates
    <3>2. Device > useful
      BY <1>1, <2>1, <2>2, <2>3, <2>7, ToleranceAssumption
    <3>3. Within > useful /\ Ideal < Within
      BY <1>1, <2>3, <2>4, <2>7, <3>2
    <3> QED
      BY <1>1, <2>2, <2>4, <3>1, <3>3
  <2> QED
    BY <2>5, <2>6, <2>7 DEF WithinTheLimits
<1> QED
  BY <1>2, <1>3
-----------------------------------------------------------------------------
(* The rate before a multiple is preferred is the one that is nearest to   *)
(* the ideal, from below where a step leaves one there.                    *)
LEMMA DeviceIsNearest ==
  ASSUME range \in Published, Usable(range), want \in Wants,
         ~FallsToZero, Ideal > 0
  PROVE  Device \in RadioRates /\ NearestRate(Ideal) = Device
<1> DEFINE below == {v \in RadioRates : v <= Ideal}
           rates == IF Positive(range.step) /\ below # {} THEN below ELSE RadioRates
<1>1. range.min \in Nat /\ range.max \in Nat \ {0}
  BY UsableType
<1>2. /\ Ideal \in Nat /\ Within \in Nat /\ range.min <= Within /\ Within <= range.max
      /\ (Ideal < Within => Within = range.min) /\ (Within < Ideal => Within = range.max)
  BY WithinType
<1>3. /\ Device \in Nat \ {0} /\ Device <= range.max /\ range.min <= Device
      /\ OnGrid(Device) /\ Device <= Within
      /\ \A w \in Int : range.min <= w /\ OnGrid(w) /\ w <= Within => w <= Device
      /\ ~Positive(range.step) => Device = Within
  BY DeviceType
<1>4. \A v : v \in RadioRates <=> v \in 1 .. range.max /\ v >= range.min /\ OnGrid(v)
  BY DEF RadioRates, OnGrid
<1>5. Device \in RadioRates
  BY <1>1, <1>3, <1>4
<1>6. \A v : v \in below <=> v \in RadioRates /\ v <= Ideal
  OBVIOUS
<1>7. below # {} => Within <= Ideal
  <2> SUFFICES ASSUME NEW v \in below PROVE Within <= Ideal
    OBVIOUS
  <2>1. v \in Int /\ range.min <= v /\ v <= Ideal
    BY <1>1, <1>4, <1>6
  <2> HIDE DEF Ideal, Within, below
  <2> QED
    BY <1>1, <1>2, <2>1
<1>8. Device \in rates
  BY <1>2, <1>3, <1>5, <1>6, <1>7
<1>9. ASSUME NEW v \in rates
      PROVE  /\ Distance(Device, Ideal) <= Distance(v, Ideal)
             /\ Distance(v, Ideal) <= Distance(Device, Ideal) => v = Device
  <2>1. /\ v \in RadioRates
        /\ Positive(range.step) => v \in below \/ Device \notin below
    BY <1>5, <1>6
  <2>2. v \in Nat /\ v <= range.max /\ v >= range.min /\ (v <= Within => v <= Device)
    BY <1>1, <1>3, <1>4, <2>1
  <2>3. Positive(range.step) => v <= Ideal \/ Ideal < Device
    BY <1>2, <1>3, <1>5, <1>6, <2>1
  <2> HIDE DEF Ideal, Within, Device, below, rates
  <2> QED
    BY <1>1, <1>2, <1>3, <2>2, <2>3 DEF Distance
<1>10. Nearest(rates, Ideal) = {Device}
  <2>1. \A v : v \in Nearest(rates, Ideal) <=> v = Device
    BY <1>8, <1>9 DEF Nearest
  <2> QED
    BY <2>1
<1> QED
  BY <1>5, <1>10 DEF NearestRate

(* Which multiples an application may be given, and which are taken.       *)
LEMMA Fits ==
  ASSUME range \in Published, Usable(range), NEW v \in Int, NEW r \in Int
  PROVE  /\ DownFits(v, r, want, range) <=>
               /\ 0 < v /\ v <= r /\ v >= range.min /\ OnGrid(v)
               /\ v >= Opinion(want.minimum) - Tolerance
         /\ UpFits(v, r, want, range) <=>
               /\ 0 < v /\ v >= r /\ v >= range.min /\ v <= range.max /\ OnGrid(v)
               /\ v <= Tolerance + (IF Opinion(want.useful) > 0
                                    THEN Opinion(want.useful) ELSE range.max)
<1>1. range.min \in Nat
  BY UsableType
<1>2. v >= range.min => (OnStepGrid(v, range) <=> OnGrid(v))
  BY <1>1, SnapDown
<1>3. Positive(v) <=> 0 < v
  BY SpecialAssumption DEF Positive, Finite
<1> QED
  BY <1>1, <1>2, <1>3 DEF DownFits, UpFits

(* Guarantees 3 and 4, as far as they are kept.                            *)
LEMMA StaysNearest ==
  ASSUME range \in Published, want \in Wants,
         choice = ChooseRxRate(range, want)
  PROVE  NearestToIdeal
<1> DEFINE useful == Opinion(want.useful)
           minimum == Opinion(want.minimum)
           stepped == Positive(range.step)
           multiples == Considered(Device)
           below == {v \in multiples : v <= Device}
<1> SUFFICES ASSUME Usable(range), ~FallsToZero, Sane, Ideal > 0
             PROVE  /\ choice.rate \in
                          IF below # {} THEN Nearest(below, Device)
                          ELSE IF multiples # {} THEN Nearest(multiples, Device)
                          ELSE {Device}
                    /\ ~stepped =>
                          (choice.outcome = "BelowMinimum" <=> minimum > range.max + Tolerance)
  BY DeviceIsNearest DEF NearestToIdeal, Ideal
<1>1. range.min \in Nat /\ range.max \in Nat \ {0}
  BY UsableType
<1>2. /\ Ideal \in Nat /\ Within \in Nat /\ range.min <= Within /\ Within <= range.max
      /\ (Ideal < Within => Within = range.min) /\ (Within < Ideal => Within = range.max)
  BY WithinType
<1>3. /\ useful \in Nat /\ minimum \in Nat
      /\ minimum > 0 => minimum <= Ideal
      /\ useful > 0 => Ideal <= useful
  BY IdealType DEF Ideal
<1>4. /\ Device \in Nat \ {0} /\ Device <= range.max /\ range.min <= Device
      /\ Device <= Within /\ OnGrid(Device)
      /\ ~stepped => Device = Within
  BY DeviceType
<1>5. \A w \in Int : range.min <= w /\ OnGrid(w) /\ w <= Within => w <= Device
  BY DeviceType
<1>6. /\ choice.rate = Preferred
      /\ choice.outcome = RateOutcome(Preferred, Ideal, want)
  BY ChosenRate
<1>7. \A v : v \in RadioRates <=> v \in 1 .. range.max /\ v >= range.min /\ OnGrid(v)
  BY DEF RadioRates, OnGrid
<1>8. minimum > 0 => want.minimum = minimum
  BY OpinionType DEF Wants
<1>9. choice.outcome = "BelowMinimum" <=> minimum > 0 /\ Preferred < want.minimum - Tolerance
  BY <1>6 DEF RateOutcome
<1>10. CASE Opinion(want.multiple) = 0 \/ want.multiple = Denormal
  <2>1. multiples = {} /\ below = {}
    BY <1>10 DEF Considered
  <2>2. Preferred = Device
    <3>1. CASE Opinion(want.multiple) = 0
      BY <3>1 DEF Preferred, PreferMultiple
    <3>2. CASE want.multiple = Denormal
      <4>1. Down = NotReal /\ Up = NotReal
        BY <3>2 DEF Down, Up, FloorMultiple, CeilMultiple
      <4>2. ~Positive(Down) /\ ~Positive(Up)
        BY <4>1 DEF Positive, Finite
      <4> QED
        BY <4>2 DEF Preferred, Down, Up, PreferMultiple, DownFits, UpFits
    <3> QED
      BY <1>10, <3>1, <3>2
  <2>3. ~stepped => (minimum > 0 /\ Device < minimum - Tolerance <=> minimum > range.max + Tolerance)
    <3> HIDE DEF Within, Ideal, minimum, Device, stepped
    <3> QED
      BY <1>1, <1>2, <1>3, <1>4, ToleranceAssumption
  <2> QED
    BY <1>6, <1>8, <1>9, <2>1, <2>2, <2>3
<1>11. CASE Opinion(want.multiple) # 0 /\ want.multiple # Denormal
  <2> DEFINE m == want.multiple
  <2>1. m \in Nat \ {0}
    BY <1>11, MultipleType
  <2>2. /\ Down \in Int /\ Down % m = 0 /\ Down <= Device /\ Device < Down + m
        /\ \A w \in Int : w % m = 0 /\ w <= Device => w <= Down
    <3>1. Down = FloorMultiple(Device, m)
      BY DEF Down
    <3> HIDE DEF m, Device, Down
    <3> QED
      <4>1. Device \in Int
        BY <1>4
      <4> QED
        BY <2>1, <3>1, <4>1, Floor
  <2>3. /\ Up \in Int /\ Up % m = 0 /\ Device <= Up /\ Up < Device + m
        /\ \A w \in Int : w % m = 0 /\ Device <= w => Up <= w
    <3>1. Up = CeilMultiple(Device, m)
      BY DEF Up
    <3> HIDE DEF m, Device, Up
    <3> QED
      <4>1. Device \in Int
        BY <1>4
      <4> QED
        BY <2>1, <3>1, <4>1, Ceiling
  <2> DEFINE TakesDown == /\ 0 < Down /\ Down <= Device /\ Down >= range.min /\ OnGrid(Down)
                          /\ Down >= minimum - Tolerance
             TakesUp == /\ 0 < Up /\ Up >= Device /\ Up >= range.min /\ Up <= range.max
                        /\ OnGrid(Up)
                        /\ Up <= Tolerance + (IF useful > 0 THEN useful ELSE range.max)
  <2>4. Preferred = IF TakesDown THEN Down ELSE IF TakesUp THEN Up ELSE Device
    <3>1. /\ DownFits(Down, Device, want, range) <=> TakesDown
          /\ UpFits(Up, Device, want, range) <=> TakesUp
      BY <1>4, <2>2, <2>3, Fits
    <3>2. Preferred = IF DownFits(Down, Device, want, range) THEN Down
                      ELSE IF UpFits(Up, Device, want, range) THEN Up ELSE Device
      BY <1>11 DEF Preferred, Down, Up, PreferMultiple
    <3> QED
      BY <3>1, <3>2
  <2>5. \A v : v \in multiples <=>
          /\ v \in 1 .. range.max /\ v >= range.min /\ OnGrid(v) /\ v % m = 0
          /\ v >= minimum - Tolerance
          /\ useful > 0 => v <= useful + Tolerance
          /\ stepped => Distance(v, Device) < m
    BY <1>7, <1>11 DEF Considered, Candidates, Allowed
  <2>6. \A v : v \in below <=> v \in multiples /\ v <= Device
    OBVIOUS
  <2>7. ~stepped => \A v \in Int : OnGrid(v)
    BY DEF OnGrid
  <2> HIDE DEF m, Within, Ideal, useful, minimum, stepped, multiples, below, Down, Up, Device
  <2>8. ASSUME ~stepped
        PROVE  choice.outcome = "BelowMinimum" <=> minimum > range.max + Tolerance
    <3>1. minimum > 0 /\ Preferred < minimum - Tolerance <=> minimum > range.max + Tolerance
      BY <1>1, <1>2, <1>3, <1>4, <2>2, <2>3, <2>4, <2>8, ToleranceAssumption
    <3> QED
      BY <1>8, <1>9, <3>1
  \* With a step the multiples considered are the one below and the one above.
  <2>9. ASSUME stepped, NEW v \in multiples
        PROVE  (v <= Device => v = Down) /\ (Device < v => v = Up)
    <3>1. v \in Int /\ v % m = 0 /\ Distance(v, Device) < m
      BY <1>1, <2>5, <2>9
    <3>2. v <= Device => v <= Down /\ Down < v + m
      BY <1>4, <2>1, <2>2, <3>1 DEF Distance
    <3>3. Device < v => Up <= v /\ v < Up + m
      BY <1>4, <2>1, <2>3, <3>1 DEF Distance
    <3> QED
      BY <2>1, <2>2, <2>3, <3>1, <3>2, <3>3, CloseMultiples
  <2>10. ASSUME below # {} PROVE Preferred \in Nearest(below, Device)
    <3>1. PICK v : v \in below
      BY <2>10
    <3>2. /\ v \in Int /\ v <= Device /\ v <= Down /\ v >= range.min
          /\ v >= minimum - Tolerance /\ 0 < v
          /\ useful > 0 => v <= useful + Tolerance
      BY <1>1, <2>2, <2>5, <2>6, <3>1
    <3>3. OnGrid(Down) /\ (stepped => v = Down)
      BY <2>2, <2>5, <2>6, <2>7, <2>9, <3>1, <3>2
    <3>4. TakesDown
      BY <1>1, <1>3, <1>4, <2>2, <3>2, <3>3, ToleranceAssumption
    <3>5. useful > 0 => Down <= useful + Tolerance
      BY <1>1, <1>2, <1>3, <1>4, <2>2, <3>2, ToleranceAssumption
    <3>6. Down \in below
      <4>1. CASE stepped
        BY <3>1, <3>3, <4>1
      <4>2. CASE ~stepped
        BY <1>1, <1>4, <2>2, <2>5, <2>6, <3>4, <3>5, <4>2
      <4> QED
        BY <4>1, <4>2
    <3>7. ASSUME NEW w \in below
          PROVE  Distance(Down, Device) <= Distance(w, Device)
      <4>1. w \in Int /\ w <= Device /\ w <= Down
        BY <1>1, <2>2, <2>5, <2>6
      <4> QED
        BY <1>4, <2>2, <4>1 DEF Distance
    <3> QED
      BY <2>4, <3>4, <3>6, <3>7 DEF Nearest
  <2>11. ASSUME below = {}, multiples # {} PROVE Preferred \in Nearest(multiples, Device)
    <3>1. PICK v : v \in multiples
      BY <2>11
    <3>2. /\ v \in Int /\ Device < v /\ Up <= v /\ v <= range.max
          /\ v >= minimum - Tolerance
          /\ useful > 0 => v <= useful + Tolerance
      BY <1>1, <1>4, <2>3, <2>5, <2>6, <2>11, <3>1
    <3>3. OnGrid(Up) /\ (stepped => v = Up)
      BY <2>3, <2>5, <2>7, <2>9, <3>1, <3>2
    <3>4. TakesUp
      BY <1>1, <1>3, <1>4, <2>3, <3>2, <3>3, ToleranceAssumption
    <3>5. Up \in multiples
      <4>1. CASE stepped
        BY <3>1, <3>3, <4>1
      <4>2. CASE ~stepped
        <5>1. Up \in 1 .. range.max /\ Up >= range.min
          BY <1>1, <1>4, <2>3, <3>4
        <5>2. useful > 0 => Up <= useful + Tolerance
          BY <1>3, <2>3, <3>2, ToleranceAssumption
        <5>3. Up >= minimum - Tolerance
          BY <1>1, <1>2, <1>3, <1>4, <2>3, <3>2, <4>2, ToleranceAssumption
        <5> QED
          BY <2>3, <2>5, <3>3, <4>2, <5>1, <5>2, <5>3
      <4> QED
        BY <4>1, <4>2
    <3>6. ~TakesDown
      <4> SUFFICES ASSUME TakesDown PROVE Down \in below
        BY <2>11
      <4>1. useful > 0 => Down <= useful + Tolerance
        BY <1>1, <1>2, <1>3, <1>4, <2>2, <3>2, ToleranceAssumption
      <4>2. CASE ~stepped
        BY <1>1, <1>4, <2>2, <2>5, <2>6, <4>1, <4>2
      <4>3. CASE stepped
        <5>1. Distance(Down, Device) < m
          BY <1>4, <2>1, <2>2 DEF Distance
        <5> QED
          BY <1>1, <1>4, <2>2, <2>5, <2>6, <4>1, <5>1
      <4> QED
        BY <4>2, <4>3
    <3>7. ASSUME NEW w \in multiples
          PROVE  Distance(Up, Device) <= Distance(w, Device)
      <4>1. w \in Int /\ Device <= w /\ Up <= w
        BY <1>1, <1>4, <2>3, <2>5, <2>6, <2>11
      <4> QED
        BY <1>4, <2>3, <4>1 DEF Distance
    <3> QED
      BY <2>4, <3>4, <3>5, <3>6, <3>7 DEF Nearest
  <2>12. ASSUME below = {}, multiples = {} PROVE Preferred = Device
    <3>1. ASSUME TakesDown, Down # Device PROVE FALSE
      <4>1. Distance(Down, Device) < m
        BY <1>4, <2>1, <2>2 DEF Distance
      <4>2. useful > 0 /\ Down > useful + Tolerance
        BY <1>1, <1>3, <1>4, <2>2, <2>5, <2>12, <3>1, <4>1, ToleranceAssumption
      <4> QED
        BY <1>1, <1>2, <1>3, <1>4, <2>2, <3>1, <4>2, ToleranceAssumption
    <3>2. ASSUME TakesUp, Up # Device PROVE FALSE
      <4>1. Distance(Up, Device) < m
        BY <1>4, <2>1, <2>3 DEF Distance
      <4>2. Up < minimum - Tolerance
        BY <1>1, <1>3, <1>4, <2>3, <2>5, <2>12, <3>2, <4>1, ToleranceAssumption
      <4>3. Up <= Within
        BY <1>1, <1>2, <1>3, <2>3, <3>2, <4>2, ToleranceAssumption
      <4>4. Up <= Device
        BY <1>5, <2>3, <3>2, <4>3
      <4> QED
        BY <1>4, <2>3, <3>2, <4>4
    <3> QED
      BY <2>4, <3>1, <3>2
  <2> QED
    BY <1>6, <2>8, <2>10, <2>11, <2>12
<1> QED
  BY <1>10, <1>11

-----------------------------------------------------------------------------
(* The policy.                                                             *)

RateInv ==
    /\ range \in Published
    /\ want \in Wants
    /\ choice = ChooseRxRate(range, want)

\* Whatever radio comes and whatever an application wants of the rate, it is
\* given one that keeps of the guarantees of rate_policy.hpp what
\* KeepsItsPromises says: 1, 2 and 5, and 3 and 4 in full without a step, with
\* one beside the rate and from below.  Left out are the ceiling of FallsToZero,
\* bounds that contradict each other, 3 and 4 where no rate is asked for, and
\* multiples below the application's minimum.
THEOREM RatesKeepPromises == PolicySpec => []KeepsItsPromises
<1>1. PolicyInit => RateInv
  BY DEF PolicyInit, RateInv, NoRadio, NoPreference, Published,
         Whole, Wants
<1>2. RateInv /\ [PolicyNext]_policyVars => RateInv'
  <2> SUFFICES ASSUME RateInv, [PolicyNext]_policyVars PROVE RateInv'
    OBVIOUS
  <2>1. CASE Attach
    <3>1. NoRadio \in Published
      BY DEF NoRadio, Published, Whole
    <3> QED
      BY <2>1, <3>1, InputsAssumption DEF RateInv, Attach, WellFormed
  <2>2. CASE Prefer
    <3>1. Preferences \subseteq Wants
      BY InputsAssumption DEF Preferences, WellFormed, Wants
    <3> QED
      BY <2>2, <3>1 DEF RateInv, Prefer
  <2>3. CASE UNCHANGED policyVars
    BY <2>3 DEF RateInv, policyVars
  <2> QED
    BY <2>1, <2>2, <2>3 DEF PolicyNext
<1>3. RateInv => KeepsItsPromises
  BY StaysWithinTheLimits, StaysNearest DEF RateInv, KeepsItsPromises
<1> QED
  BY <1>1, <1>2, <1>3, PTL DEF PolicySpec
=============================================================================
