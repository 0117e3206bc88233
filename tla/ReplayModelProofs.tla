-------------------------- MODULE ReplayModelProofs --------------------------
(***************************************************************************)
(* Proofs about ReplayModel, for files of any length and blocks of any     *)
(* size: the shape of its state whatever the caller does, and the order of *)
(* the samples for a caller that seeks only while stopped.                 *)
(***************************************************************************)
EXTENDS ReplayModel, TLAPS

-----------------------------------------------------------------------------
(* Chunks.                                                                 *)

LEMMA TotalIsNat == ASSUME total \in Lengths \cup {0} PROVE total \in Nat
BY LengthsAssumption

LEMMA NoneIsAChunk == ASSUME total \in Nat PROVE None \in Chunks /\ Size(None) = 0
BY DEF None, Chunks, Size

LEMMA ChunkType ==
  ASSUME total \in Nat, NEW c \in Chunks
  PROVE  /\ c.from \in 0 .. total /\ c.to \in 0 .. total /\ c.old \in BOOLEAN
         /\ c = [from |-> c.from, to |-> c.to, old |-> c.old]
         /\ Size(c) \in Nat /\ Size(c) = c.to - c.from
         /\ Size(c) = 0 <=> c = None
         /\ c # None => Size(c) <= Block
<1>1. /\ c.from \in 0 .. total /\ c.to \in 0 .. total /\ c.old \in BOOLEAN
      /\ c = [from |-> c.from, to |-> c.to, old |-> c.old]
      /\ c = None \/ (c.from < c.to /\ Size(c) <= Block)
  BY DEF Chunks
<1>2. CASE c = None
  BY <1>1, <1>2, NoneIsAChunk DEF None, Size
<1>3. CASE c.from < c.to /\ Size(c) <= Block
  <2>1. c.to - c.from \in Nat /\ c.to - c.from # 0
    BY <1>1, <1>3
  <2> QED
    BY <1>1, <1>3, <2>1, NoneIsAChunk DEF Size
<1> QED
  BY <1>1, <1>2, <1>3

(* What the sink did not take of a chunk is a chunk, from where it stopped.*)
LEMMA RestType ==
  ASSUME total \in Nat, NEW c \in Chunks, NEW k \in Nat, k <= Size(c)
  PROVE  /\ Rest(c, k) \in Chunks
         /\ Rest(c, k) = None <=> k = Size(c)
         /\ Rest(c, k) # None =>
              Rest(c, k).from = c.from + k /\ Rest(c, k).to = c.to /\ Rest(c, k).old = c.old
<1>1. /\ c.from \in 0 .. total /\ c.to \in 0 .. total /\ c.old \in BOOLEAN
      /\ c = [from |-> c.from, to |-> c.to, old |-> c.old]
      /\ Size(c) \in Nat /\ Size(c) = c.to - c.from
      /\ c # None => Size(c) <= Block
  BY ChunkType
<1>2. CASE k = Size(c)
  BY <1>2, NoneIsAChunk DEF Rest
<1>3. CASE k # Size(c)
  <2> DEFINE r == [from |-> c.from + k, to |-> c.to, old |-> c.old]
  <2>1. Rest(c, k) = r
    BY <1>1, <1>3 DEF Rest
  <2>2. c # None
    BY <1>3, NoneIsAChunk
  <2>3. c.from + k \in 0 .. total /\ c.from + k < c.to /\ c.to - (c.from + k) <= Size(c)
    BY <1>1, <1>3
  <2>4. Size(c) <= Block /\ Block \in Nat
    BY <1>1, <2>2, BlockAssumption
  <2>5. r \in Chunks
    BY <1>1, <2>3, <2>4 DEF Chunks, Size
  <2>6. r # None
    BY <2>3, <1>1 DEF None
  <2> QED
    BY <1>3, <2>1, <2>5, <2>6
<1> QED
  BY <1>2, <1>3

LEMMA OldType ==
  ASSUME total \in Nat, NEW c \in Chunks
  PROVE  Old(c) \in Chunks /\ (Old(c) = None <=> c = None)
<1>1. /\ c.from \in 0 .. total /\ c.to \in 0 .. total
      /\ c = [from |-> c.from, to |-> c.to, old |-> c.old]
      /\ Size(c) = c.to - c.from /\ (Size(c) = 0 <=> c = None)
  BY ChunkType
<1>2. CASE c = None
  BY <1>1, <1>2, NoneIsAChunk DEF Old
<1>3. CASE c # None
  <2> DEFINE r == [from |-> c.from, to |-> c.to, old |-> TRUE]
  <2>1. Old(c) = r
    BY <1>1, <1>3 DEF Old
  <2>2. c.from < c.to /\ Size(c) <= Block
    BY <1>3 DEF Chunks
  <2>3. r \in Chunks /\ r # None
    BY <1>1, <2>2 DEF Chunks, Size, None
  <2> QED
    BY <1>3, <2>1, <2>3
<1> QED
  BY <1>2, <1>3

-----------------------------------------------------------------------------
(* The shape of the state.  A block is in hand only between its read and   *)
(* its push, so no file is opened over one; and a seek asks for a sample   *)
(* that the file has.                                                      *)

FlagsOK ==
    /\ opened \in BOOLEAN /\ finished \in BOOLEAN /\ loop \in BOOLEAN
    /\ running \in BOOLEAN /\ stop \in BOOLEAN /\ idle_ack \in BOOLEAN /\ flush_pending \in BOOLEAN

PlacesOK ==
    /\ state \in {"Stopped", "Playing", "Paused"}
    /\ ui \in {"idle", "joining", "starting", "resuming", "pausing", "settling",
               "sought", "positioned", "flushing"}
    /\ call \in {"none", "stop", "close", "open", "play", "pause", "seek"}
    /\ order \in {"kept", "stale", "lost"}
    /\ dsp \in {"none", "top", "parked", "awake", "flush", "drain", "read", "eof", "rewound",
                "finished", "failed", "store", "push", "ending", "gone"}

CountsOK ==
    /\ total \in Lengths \cup {0} /\ pos \in 0 .. total /\ position \in 0 .. total
    /\ due \in 0 .. total /\ target \in Nat
    /\ Seeking => target <= total

ChunksOK ==
    /\ pending \in Chunks /\ block \in Chunks
    /\ block # None => dsp \in {"store", "push"}

TInv == FlagsOK /\ PlacesOK /\ CountsOK /\ ChunksOK

LEMMA HandKeeps ==
  ASSUME CountsOK, order \in {"kept", "stale", "lost"},
         NEW c \in Chunks, NEW k \in Nat, k <= Size(c), Hand(c, k)
  PROVE  due' \in 0 .. total /\ order' \in {"kept", "stale", "lost"}
<1>1. total \in Nat
  BY TotalIsNat DEF CountsOK
<1>2. c.from \in 0 .. total /\ c.to \in 0 .. total /\ Size(c) = c.to - c.from
  BY <1>1, ChunkType
<1>3. CASE UNCHANGED history
  BY <1>3 DEF history, CountsOK
<1>4. CASE due' = c.from + k /\
           order' = IF order # "kept" \/ (c.from = due /\ ~c.old) THEN order
                    ELSE IF c.old THEN "stale" ELSE "lost"
  BY <1>1, <1>2, <1>4
<1> QED
  BY <1>3, <1>4 DEF Hand

LEMMA FlagsStep == ASSUME TInv, [Next]_vars PROVE FlagsOK'
<1> USE DEF TInv, FlagsOK, reader, status, control, samples, caller, history, DspGoes
<1>1. CASE \/ \E c \in {"stop", "close", "open"} : CallStop(c)
           \/ CallPlay \/ CallResume \/ CallPause \/ SetLoop
           \/ \E p \in 0 .. total : CallSeek(p)
  BY ZenonT(40), <1>1 DEF CallStop, CallPlay, CallResume, CallPause, SetLoop, CallSeek
<1>2. CASE UiStep
  BY ZenonT(40), <1>2 DEF UiStep, Stopped, NothingToPlay, Start, Resume, Pause, WaitForIdle,
     SeekPosition, SeekUnfinished, SeekFlush
<1>3. CASE \/ Top \/ Park \/ Awake \/ Flush \/ NothingDue \/ Owed \/ ReadFails
           \/ Rewind \/ Rewound \/ Finish \/ EndsItself \/ StorePosition \/ Gone
  BY ZenonT(40), <1>3 DEF Top, Park, Awake, Flush, NothingDue, Owed, Read, ReadFails, Rewind, Rewound,
     Finish, EndsItself, StorePosition, Gone
<1>4. CASE Taken \/ Drain(0) \/ Push(0)
  BY <1>4 DEF Taken, Drain, Push
<1>5. CASE UNCHANGED vars
  BY <1>5 DEF vars
<1> QED
  BY <1>1, <1>2, <1>3, <1>4, <1>5 DEF Next, Calls, DspStep

(* A chunk is handed over, in part or whole: the only steps at the sink.   *)
LEMMA HandOver ==
  ASSUME TInv, Taken \/ Drain(0) \/ Push(0)
  PROVE  \E k \in 0 .. Block : Drain(k) \/ Push(k)
BY BlockAssumption DEF Taken

LEMMA PlacesStep == ASSUME TInv, [Next]_vars PROVE PlacesOK'
<1> USE DEF TInv, PlacesOK, reader, status, control, samples, caller, history, DspGoes
<1>1. CASE \/ \E c \in {"stop", "close", "open"} : CallStop(c)
           \/ CallPlay \/ CallResume \/ CallPause \/ SetLoop
           \/ \E p \in 0 .. total : CallSeek(p)
  BY <1>1 DEF CallStop, CallPlay, CallResume, CallPause, SetLoop, CallSeek
<1>2. CASE UiStep
  BY <1>2 DEF UiStep, Stopped, NothingToPlay, Start, Resume, Pause, WaitForIdle,
     SeekPosition, SeekUnfinished, SeekFlush
<1>3. CASE \/ Top \/ Park \/ Awake \/ Flush \/ NothingDue \/ Owed \/ ReadFails
           \/ Rewind \/ Rewound \/ Finish \/ EndsItself \/ StorePosition \/ Gone
  BY <1>3 DEF Top, Park, Awake, Flush, NothingDue, Owed, Read, ReadFails, Rewind, Rewound,
     Finish, EndsItself, StorePosition, Gone
<1>4. CASE Taken \/ Drain(0) \/ Push(0)
  <2>1. PICK k \in 0 .. Block : Drain(k) \/ Push(k)
    BY <1>4, HandOver
  <2>2. k \in Nat
    BY BlockAssumption
  <2>3. CASE Drain(k)
    <3>1. order' \in {"kept", "stale", "lost"}
      BY <2>2, <2>3, HandKeeps DEF Drain, ChunksOK
    <3> QED
      BY <2>3, <3>1 DEF Drain
  <2>4. CASE Push(k)
    <3>1. order' \in {"kept", "stale", "lost"}
      BY <2>2, <2>4, HandKeeps DEF Push, ChunksOK
    <3> QED
      BY <2>4, <3>1 DEF Push
  <2> QED
    BY <2>1, <2>3, <2>4
<1>5. CASE UNCHANGED vars
  BY <1>5 DEF vars
<1> QED
  BY <1>1, <1>2, <1>3, <1>4, <1>5 DEF Next, Calls, DspStep

LEMMA CountsStep == ASSUME TInv, [Next]_vars PROVE CountsOK'
<1> USE DEF TInv, CountsOK, reader, status, control, samples, caller, history, DspGoes, Seeking
<1>0. total \in Nat
  BY TotalIsNat
<1>1. CASE \/ \E c \in {"stop", "close", "open"} : CallStop(c)
           \/ CallPlay \/ CallResume \/ CallPause \/ SetLoop
           \/ \E p \in 0 .. total : CallSeek(p)
  BY <1>0, <1>1 DEF CallStop, CallPlay, CallResume, CallPause, SetLoop, CallSeek
<1>2. CASE Stopped
  <2>1. total' \in Lengths \cup {0} /\ position' = 0 /\ pos' = 0 /\ due' = 0 /\ target' = target
        /\ ~Seeking'
    BY <1>2 DEF Stopped
  <2>2. total' \in Nat
    BY <2>1, LengthsAssumption
  <2> QED
    BY <2>1, <2>2
<1>3. CASE NothingToPlay \/ Start \/ Resume \/ Pause \/ WaitForIdle
           \/ SeekPosition \/ SeekUnfinished \/ SeekFlush
  BY <1>0, <1>3 DEF NothingToPlay, Start, Resume, Pause, WaitForIdle,
     SeekPosition, SeekUnfinished, SeekFlush
<1>4. CASE Top \/ Park \/ Awake \/ Flush \/ NothingDue \/ ReadFails
           \/ Rewind \/ Rewound \/ Finish \/ EndsItself \/ Gone
  BY <1>0, <1>4 DEF Top, Park, Awake, Flush, NothingDue, ReadFails, Rewind, Rewound,
     Finish, EndsItself, Gone
<1>5. CASE Owed
  <2>1. PICK want \in 1 .. Block : Read(want)
    BY <1>5 DEF Owed
  <2>2. pos' \in 0 .. total
    BY <1>0, <2>1, BlockAssumption DEF Read
  <2> QED
    BY <2>1, <2>2 DEF Read
<1>6. CASE StorePosition
  <2>1. block.to \in 0 .. total
    BY <1>0, ChunkType DEF ChunksOK
  <2> QED
    BY <1>6, <2>1 DEF StorePosition
<1>7. CASE Taken \/ Drain(0) \/ Push(0)
  <2>1. PICK k \in 0 .. Block : Drain(k) \/ Push(k)
    BY <1>7, HandOver
  <2>2. k \in Nat
    BY BlockAssumption
  <2>3. CASE Drain(k)
    <3>1. due' \in 0 .. total
      BY <2>2, <2>3, HandKeeps DEF Drain, ChunksOK, PlacesOK
    <3> QED
      BY <2>3, <3>1 DEF Drain
  <2>4. CASE Push(k)
    <3>1. due' \in 0 .. total
      BY <2>2, <2>4, HandKeeps DEF Push, ChunksOK, PlacesOK
    <3> QED
      BY <2>4, <3>1 DEF Push
  <2> QED
    BY <2>1, <2>3, <2>4
<1>8. CASE UNCHANGED vars
  BY <1>8 DEF vars
<1> QED
  BY <1>1, <1>2, <1>3, <1>4, <1>5, <1>6, <1>7, <1>8 DEF Next, Calls, UiStep, DspStep

(* A block as it is read.                                                  *)
LEMMA ReadType ==
  ASSUME TInv, NEW want \in 1 .. Block, Read(want)
  PROVE  LET got == IF want < total - pos THEN want ELSE total - pos
         IN /\ got \in Nat /\ got <= Block /\ pos + got <= total /\ (got = 0 => pos = total)
            /\ dsp = "read" /\ pos' = pos + got
            /\ UNCHANGED <<opened, total, status, control, pending, caller, history>>
            /\ got = 0 => dsp' = "eof" /\ block' = block
            /\ got # 0 => /\ dsp' = "store" /\ block' \in Chunks
                          /\ block' = [from |-> pos, to |-> pos + got, old |-> FALSE]
<1> DEFINE got == IF want < total - pos THEN want ELSE total - pos
           b == [from |-> pos, to |-> pos + got, old |-> FALSE]
<1>1. total \in Nat /\ pos \in 0 .. total /\ want \in Nat /\ want <= Block /\ Block \in Nat
  BY TotalIsNat, BlockAssumption DEF TInv, CountsOK
<1>2. got \in Nat /\ got <= Block /\ pos + got <= total /\ (got = 0 => pos = total)
  BY <1>1
<1>3. /\ dsp = "read" /\ pos' = pos + got
      /\ UNCHANGED <<opened, total, status, control, pending, caller, history>>
      /\ got = 0 => dsp' = "eof" /\ block' = block
      /\ got # 0 => dsp' = "store" /\ block' = b
  BY DEF Read, DspGoes
<1> HIDE DEF got
<1>4. got # 0 => b \in Chunks
  BY <1>1, <1>2 DEF Chunks, Size
<1> QED
  BY <1>2, <1>3, <1>4 DEF got

LEMMA ChunksStep == ASSUME TInv, [Next]_vars PROVE ChunksOK'
<1> USE DEF reader, status, control, samples, caller, history, DspGoes
<1>0. total \in Nat /\ None \in Chunks /\ ChunksOK
  BY TotalIsNat, NoneIsAChunk DEF TInv, CountsOK
<1>1. total' = total => Chunks' = Chunks
  BY DEF Chunks
<1>2. CASE \/ \E c \in {"stop", "close", "open"} : CallStop(c)
           \/ CallPlay \/ CallResume \/ CallPause \/ SetLoop
  BY <1>0, <1>1, <1>2 DEF CallStop, CallPlay, CallResume, CallPause, SetLoop, ChunksOK
<1>3. CASE \E p \in 0 .. total : CallSeek(p)
  <2>1. pending' = Old(pending) /\ block' = Old(block) /\ UNCHANGED <<total, dsp>>
    BY <1>3 DEF CallSeek
  <2> QED
    BY <1>0, <1>1, <2>1, OldType DEF ChunksOK
<1>4. CASE Stopped
  <2>1. pending' = None /\ block' = None
    BY <1>0, <1>4 DEF Stopped, Joinable, ChunksOK
  <2>2. total' \in Nat
    <3>1. total' = total \/ total' = 0 \/ total' \in Lengths
      BY <1>4 DEF Stopped
    <3>2. total \in Nat
      BY <1>0
    <3>3. CASE total' \in Lengths
      BY <3>3, LengthsAssumption
    <3>4. CASE total' = total \/ total' = 0
      BY <3>2, <3>4
    <3> QED
      BY <3>1, <3>3, <3>4
  <2>3. None \in Chunks'
    BY <2>2 DEF Chunks, None
  <2> QED
    BY <2>1, <2>3 DEF ChunksOK
<1>5. CASE NothingToPlay \/ Start
  BY <1>0, <1>1, <1>5 DEF NothingToPlay, Start, Joinable, ChunksOK
<1>6. CASE Resume \/ Pause \/ WaitForIdle \/ SeekPosition \/ SeekUnfinished \/ SeekFlush
  BY <1>0, <1>1, <1>6 DEF Resume, Pause, WaitForIdle, SeekPosition, SeekUnfinished, SeekFlush, ChunksOK
<1>7. CASE \/ Top \/ Park \/ Awake \/ Flush \/ NothingDue \/ ReadFails
           \/ Rewind \/ Rewound \/ Finish \/ EndsItself \/ StorePosition \/ Gone
  BY <1>0, <1>1, <1>7 DEF Top, Park, Awake, Flush, NothingDue, ReadFails, Rewind, Rewound,
     Finish, EndsItself, StorePosition, Gone, ChunksOK
<1>8. CASE Owed
  BY <1>0, <1>1, <1>8, ReadType DEF Owed, ChunksOK
<1>9. CASE Taken \/ Drain(0) \/ Push(0)
  <2>1. PICK k \in 0 .. Block : Drain(k) \/ Push(k)
    BY <1>9, HandOver
  <2>2. k \in Nat
    BY BlockAssumption
  <2>3. CASE Drain(k)
    BY <1>0, <1>1, <2>2, <2>3, RestType DEF Drain, ChunksOK
  <2>4. CASE Push(k)
    BY <1>0, <1>1, <2>2, <2>4, RestType DEF Push, ChunksOK
  <2> QED
    BY <2>1, <2>3, <2>4
<1>10. CASE UNCHANGED vars
  BY <1>0, <1>1, <1>10 DEF vars, ChunksOK
<1> QED
  BY <1>2, <1>3, <1>4, <1>5, <1>6, <1>7, <1>8, <1>9, <1>10 DEF Next, Calls, UiStep, DspStep

LEMMA InitTInv == ASSUME Init PROVE TInv
<1>1. FlagsOK /\ PlacesOK
  BY DEF Init, FlagsOK, PlacesOK
<1>2. total \in Nat /\ CountsOK
  BY DEF Init, CountsOK, Seeking
<1>3. ChunksOK
  BY <1>2, NoneIsAChunk DEF Init, ChunksOK
<1> QED
  BY <1>1, <1>2, <1>3 DEF TInv

(* Every variable keeps its shape, and a chunk is an interval of the file  *)
(* that is open, wherever the caller seeks.                                *)
THEOREM TypeCorrect == Spec => []TypeOK
<1>1. Init => TInv
  BY InitTInv
<1>2. TInv /\ [Next]_vars => TInv'
  BY FlagsStep, PlacesStep, CountsStep, ChunksStep DEF TInv
<1>3. TInv => TypeOK
  BY DEF TInv, FlagsOK, PlacesOK, CountsOK, ChunksOK, TypeOK
<1> QED
  BY <1>1, <1>2, <1>3, PTL DEF Spec

-----------------------------------------------------------------------------
(* The order of the samples, for a caller that seeks only while stopped.   *)
(* Then no pass is under way during a seek; during one, what is in hand,   *)
(* then what the sink refused, then the rest of the file are one stretch,  *)
(* from the sample that is due.                                            *)

SeeksWhenStopped == SeekIn \subseteq {"Stopped"}

Live == dsp \notin {"none", "ending", "gone"}

\* Only a thread that has ended leaves the model stopped.
StoppedInv ==
    /\ state = "Stopped" => ~Live
    /\ Seeking => state = "Stopped"

\* The chunk that the sink is offered next, before the file goes on.
Coming == IF block # None THEN block ELSE pending

OrderInv == Live =>
    /\ dsp \in {"store", "push"} => block # None
    /\ dsp \in {"read", "eof", "rewound", "finished", "failed", "store", "push"} => pending = None
    /\ dsp = "eof" => pos = total
    /\ flush_pending => dsp \in {"top", "parked", "awake", "flush"} /\ pending = None
    /\ IF Coming = None THEN due = pos
       ELSE Coming.from = due /\ Coming.to = pos /\ ~Coming.old

IInv == TInv /\ StoppedInv /\ OrderInv /\ InOrder

LEMMA StoppedStep ==
  ASSUME SeeksWhenStopped, TInv, StoppedInv, [Next]_vars PROVE StoppedInv'
<1> USE DEF TInv, PlacesOK, StoppedInv, Live, Seeking, SeeksWhenStopped,
        reader, status, control, samples, caller, history, DspGoes
<1>1. CASE \/ \E c \in {"stop", "close", "open"} : CallStop(c)
           \/ CallPlay \/ CallResume \/ CallPause \/ SetLoop
           \/ \E p \in 0 .. total : CallSeek(p)
  BY <1>1 DEF CallStop, CallPlay, CallResume, CallPause, SetLoop, CallSeek
<1>2. CASE UiStep
  BY <1>2 DEF UiStep, Stopped, NothingToPlay, Start, Resume, Pause, WaitForIdle,
     SeekPosition, SeekUnfinished, SeekFlush
<1>3. CASE \/ Top \/ Park \/ Awake \/ Flush \/ NothingDue \/ Owed \/ ReadFails
           \/ Rewind \/ Rewound \/ Finish \/ EndsItself \/ StorePosition \/ Gone
  BY <1>3 DEF Top, Park, Awake, Flush, NothingDue, Owed, Read, ReadFails, Rewind, Rewound,
     Finish, EndsItself, StorePosition, Gone
<1>4. CASE Taken \/ Drain(0) \/ Push(0)
  BY <1>4 DEF Taken, Drain, Push
<1>5. CASE UNCHANGED vars
  BY <1>5 DEF vars
<1> QED
  BY <1>1, <1>2, <1>3, <1>4, <1>5 DEF Next, Calls, DspStep

\* The sink takes the next samples.
LEMMA HandInOrder ==
  ASSUME TInv, StoppedInv, InOrder, Live,
         NEW c \in Chunks, c # None => c.from = due /\ ~c.old,
         NEW k \in Nat, k <= Size(c), Hand(c, k)
  PROVE  /\ InOrder' /\ due' = due + k /\ due \in Nat
         /\ c # None => due' = c.from + k /\ (k = Size(c) => due' = c.to)
<1>1. total \in Nat /\ due \in Nat
  BY TotalIsNat DEF TInv, CountsOK
<1>2. c.from \in 0 .. total /\ c.to \in 0 .. total /\ Size(c) = c.to - c.from
      /\ (c = None => Size(c) = 0)
  BY <1>1, ChunkType
<1>3. CASE k = 0
  BY <1>1, <1>2, <1>3 DEF Hand, history, InOrder
<1>4. CASE k # 0
  <2>1. c # None
    BY <1>2, <1>4
  <2>2. due' = c.from + k /\ order' = order
    BY <1>4, <2>1 DEF Hand, InOrder
  <2> QED
    BY <1>1, <1>2, <2>1, <2>2 DEF InOrder
<1> QED
  BY <1>3, <1>4

LEMMA OrderStep ==
  ASSUME SeeksWhenStopped, IInv, [Next]_vars PROVE OrderInv' /\ InOrder'
<1> USE DEF reader, status, control, samples, caller, history, DspGoes, IInv, Live
<1>0. total \in Nat /\ None \in Chunks /\ pos \in 0 .. total /\ due \in 0 .. total
      /\ pending \in Chunks /\ block \in Chunks
  BY TotalIsNat, NoneIsAChunk DEF TInv, CountsOK, ChunksOK
<1>1. CASE \/ \E c \in {"stop", "close", "open"} : CallStop(c)
           \/ CallPlay \/ CallResume \/ CallPause \/ SetLoop
  BY <1>1 DEF CallStop, CallPlay, CallResume, CallPause, SetLoop, OrderInv, InOrder, Coming
<1>2. CASE \E p \in 0 .. total : CallSeek(p)
  BY <1>2 DEF CallSeek, SeeksWhenStopped, StoppedInv, OrderInv, InOrder
<1>3. CASE Stopped \/ NothingToPlay
  BY <1>3 DEF Stopped, NothingToPlay, OrderInv, InOrder
<1>4. CASE Start
  <2>1. block = None
    BY <1>4 DEF Start, Joinable, TInv, ChunksOK
  <2> QED
    BY <1>4, <2>1 DEF Start, OrderInv, InOrder, Coming
<1>5. CASE Resume \/ Pause \/ WaitForIdle \/ SeekPosition \/ SeekUnfinished
  BY <1>5 DEF Resume, Pause, WaitForIdle, SeekPosition, SeekUnfinished, OrderInv, InOrder, Coming
<1>6. CASE SeekFlush
  BY <1>6 DEF SeekFlush, StoppedInv, Seeking, OrderInv, InOrder
<1>7. CASE Top \/ Park \/ Awake \/ EndsItself \/ NothingDue \/ ReadFails \/ Finish
  BY <1>7 DEF Top, Park, Awake, EndsItself, NothingDue, ReadFails, Finish, OrderInv, InOrder, Coming
<1>8. CASE Flush
  BY <1>8 DEF Flush, OrderInv, InOrder, Coming
<1>9. CASE Owed
  <2>1. PICK want \in 1 .. Block : Read(want)
    BY <1>9 DEF Owed
  <2> DEFINE got == IF want < total - pos THEN want ELSE total - pos
             b == [from |-> pos, to |-> pos + got, old |-> FALSE]
  <2>2. /\ got \in Nat /\ (got = 0 => pos = total) /\ dsp = "read" /\ pos' = pos + got
        /\ UNCHANGED <<opened, total, status, control, pending, caller, history>>
        /\ got = 0 => dsp' = "eof" /\ block' = block
        /\ got # 0 => dsp' = "store" /\ block' = b
    BY <2>1, ReadType
  <2>3. block = None /\ pending = None /\ due = pos /\ ~flush_pending
    BY <2>2 DEF OrderInv, Coming, TInv, ChunksOK
  <2> HIDE DEF got
  <2>4. got # 0 => b # None
    BY <1>0, <2>2 DEF None
  <2>5. CASE got = 0
    BY <1>0, <2>2, <2>3, <2>5 DEF OrderInv, InOrder, Coming
  <2>6. CASE got # 0
    <3>1. Coming' = b
      BY <2>2, <2>4, <2>6 DEF Coming
    <3> QED
      BY <1>0, <2>2, <2>3, <2>4, <2>6, <3>1 DEF OrderInv, InOrder
  <2> QED
    BY <2>5, <2>6
<1>10. CASE Rewind
  <2>1. block = None /\ pending = None /\ pos = total /\ due = pos /\ ~flush_pending
    BY <1>10 DEF Rewind, OrderInv, Coming, TInv, ChunksOK
  <2> QED
    BY <1>10, <2>1 DEF Rewind, OrderInv, InOrder, Coming
<1>11. CASE Rewound \/ StorePosition \/ Gone
  BY <1>11 DEF Rewound, StorePosition, Gone, OrderInv, InOrder, Coming
<1>12. CASE Taken \/ Drain(0) \/ Push(0)
  <2>1. PICK k \in 0 .. Block : Drain(k) \/ Push(k)
    BY <1>12, HandOver
  <2>2. k \in Nat
    BY BlockAssumption
  <2>3. CASE Drain(k)
    <3>1. dsp = "drain" /\ block = None /\ ~flush_pending /\ Coming = pending
      BY <2>3 DEF Drain, OrderInv, Coming, TInv, ChunksOK
    <3>2. /\ k <= Size(pending) /\ Hand(pending, k) /\ pending' = Rest(pending, k)
          /\ dsp' = (IF k = Size(pending) THEN "read" ELSE "top")
          /\ UNCHANGED <<reader, status, control, block, caller>>
      BY <2>3 DEF Drain
    <3>3. pending # None => pending.from = due /\ pending.to = pos /\ ~pending.old
      BY <3>1 DEF OrderInv
    <3>4. /\ InOrder' /\ due' = due + k
          /\ pending # None => due' = pending.from + k /\ (k = Size(pending) => due' = pending.to)
      BY <1>0, <2>2, <3>1, <3>2, <3>3, HandInOrder
    <3>5. CASE k = Size(pending)
      <4>1. pending' = None /\ dsp' = "read"
        BY <3>2, <3>5 DEF Rest
      <4>2. due' = pos
        <5>1. CASE pending = None
          BY <1>0, <3>1, <3>4, <3>5, <5>1, NoneIsAChunk DEF OrderInv
        <5>2. CASE pending # None
          BY <3>3, <3>4, <3>5, <5>2
        <5> QED
          BY <5>1, <5>2
      <4> QED
        BY <3>1, <3>2, <3>4, <4>1, <4>2 DEF OrderInv, Coming
    <3>6. CASE k # Size(pending)
      <4>1. pending # None
        BY <1>0, <2>2, <3>2, <3>6, NoneIsAChunk
      <4>2. /\ pending' # None /\ pending'.from = pending.from + k /\ pending'.to = pending.to
            /\ pending'.old = pending.old
        BY <1>0, <2>2, <3>2, <3>6, RestType
      <4>3. Coming' = pending' /\ dsp' = "top"
        BY <3>1, <3>2, <3>6 DEF Coming
      <4> QED
        BY <3>1, <3>2, <3>3, <3>4, <4>1, <4>2, <4>3 DEF OrderInv
    <3> QED
      BY <3>5, <3>6
  <2>4. CASE Push(k)
    <3>1. dsp = "push" /\ block # None /\ pending = None /\ ~flush_pending /\ Coming = block
      BY <2>4 DEF Push, OrderInv, Coming
    <3>2. /\ k <= Size(block) /\ Hand(block, k) /\ pending' = Rest(block, k) /\ block' = None
          /\ dsp' = "top" /\ UNCHANGED <<reader, status, control, caller>>
      BY <2>4 DEF Push
    <3>3. block.from = due /\ block.to = pos /\ ~block.old
      BY <3>1 DEF OrderInv
    <3>4. InOrder' /\ due' = block.from + k /\ (k = Size(block) => due' = block.to)
      BY <1>0, <2>2, <3>1, <3>2, <3>3, HandInOrder
    <3>5. Coming' = pending'
      BY <3>2 DEF Coming
    <3>6. CASE k = Size(block)
      BY <3>1, <3>2, <3>3, <3>4, <3>5, <3>6 DEF OrderInv, Rest
    <3>7. CASE k # Size(block)
      <4>1. /\ pending' # None /\ pending'.from = block.from + k /\ pending'.to = block.to
            /\ pending'.old = block.old
        BY <1>0, <2>2, <3>2, <3>7, RestType
      <4> QED
        BY <3>1, <3>2, <3>3, <3>4, <3>5, <4>1 DEF OrderInv
    <3> QED
      BY <3>6, <3>7
  <2> QED
    BY <2>1, <2>3, <2>4
<1>13. CASE UNCHANGED vars
  BY <1>13 DEF vars, OrderInv, InOrder, Coming
<1> QED
  BY <1>1, <1>2, <1>3, <1>4, <1>5, <1>6, <1>7, <1>8, <1>9, <1>10, <1>11, <1>12, <1>13
     DEF Next, Calls, UiStep, DspStep

(* "So samples never leave the file in the wrong order" (dsp_thread_main): *)
(* a caller that seeks only while stopped hears every sample once and in   *)
(* order, whatever the file, the block and what the sink refuses, through  *)
(* pauses, rewinds and restarts.                                           *)
THEOREM SamplesInOrder == ASSUME SeekIn \subseteq {"Stopped"} PROVE Spec => []InOrder
<1>1. Init => IInv
  BY InitTInv DEF Init, IInv, StoppedInv, Live, Seeking, OrderInv, InOrder
<1>2. IInv /\ [Next]_vars => IInv'
  <2>1. TInv /\ [Next]_vars => TInv'
    BY FlagsStep, PlacesStep, CountsStep, ChunksStep DEF TInv
  <2> QED
    BY <2>1, StoppedStep, OrderStep DEF IInv, SeeksWhenStopped
<1>3. IInv => InOrder
  BY DEF IInv
<1> QED
  BY <1>1, <1>2, <1>3, PTL DEF Spec
=============================================================================
