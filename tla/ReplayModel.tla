----------------------------- MODULE ReplayModel -----------------------------
(***************************************************************************)
(* radio::ReplayModel (src/src/radio/replay_model.cpp): a capture file     *)
(* played into a sample sink by a DSP thread, under transport calls from   *)
(* the UI thread.  A sample is its index in the file; what the DSP thread  *)
(* holds (a block read, the remainder the sink refused) is an interval of  *)
(* indices.  Resampling and the pacing clock are abstracted: a pass owes   *)
(* any number of samples up to a block, or none.  A sink is wired.  The    *)
(* half second after which wait_for_idle() stops waiting never passes.     *)
(*                                                                         *)
(* TopDeafWhenParked, DrainAndReadOn and FinishQuietly are faulty variants *)
(* of the definitions they precede.  No specification uses them: each is a *)
(* mistake that one of the properties has to catch.                        *)
(***************************************************************************)
EXTENDS Integers

CONSTANTS
    Lengths,  \* sizes of the files there are to open, in samples
    Block,    \* kBlockSamples
    SeekIn    \* the states in which the caller seeks

ASSUME LengthsAssumption == Lengths \subseteq Nat /\ Lengths # {}
ASSUME BlockAssumption == Block \in Nat \ {0}
ASSUME SeekInAssumption == SeekIn \subseteq {"Stopped", "Playing", "Paused"}

VARIABLES
    opened, total, pos,           \* reader_: is_open, total_samples, position
    state, position, finished, loop,
    running, stop,                \* thread_running_, stop_
    idle_ack, flush_pending,
    pending, block,               \* the refused remainder; the block in hand
    ui, call, target,             \* the UI thread: where it is, what it was asked
    dsp,                          \* the DSP thread: where it is
    due, order                    \* history: see below

(***************************************************************************)
(* History: "due" is the sample the listener has to hear next, by the last *)
(* play, seek or rewind and what the sink has taken since; "order" says    *)
(* what first went wrong: "stale", samples read before a seek were sent    *)
(* after it had returned; "lost", samples were passed over.                *)
(***************************************************************************)
reader == <<opened, total, pos>>
status == <<state, position, finished, loop>>
control == <<running, stop, idle_ack, flush_pending>>
samples == <<pending, block>>
caller == <<ui, call, target>>
history == <<due, order>>
vars == <<reader, status, control, samples, caller, dsp, history>>

None == [from |-> 0, to |-> 0, old |-> FALSE]
Size(c) == c.to - c.from
Joinable == dsp \in {"none", "gone"}

Init ==
    /\ opened = FALSE /\ total = 0 /\ pos = 0
    /\ state = "Stopped" /\ position = 0 /\ finished = FALSE /\ loop = FALSE
    /\ running = FALSE /\ stop = FALSE /\ idle_ack = FALSE /\ flush_pending = FALSE
    /\ pending = None /\ block = None
    /\ ui = "idle" /\ call = "none" /\ target = 0 /\ dsp = "none"
    /\ due = 0 /\ order = "kept"

-----------------------------------------------------------------------------
(* The UI thread                                                           *)

\* stop(), which open() and close() call first: the thread is told, then joined.
CallStop(c) ==
    /\ ui = "idle" /\ call' = c /\ stop' = TRUE /\ ui' = "joining"
    /\ UNCHANGED <<reader, status, running, idle_ack, flush_pending, samples, target, dsp, history>>

\* The rest of them, with no other thread left.  Opening a file may fail.
Stopped ==
    /\ ui = "joining" /\ Joinable /\ ui' = "idle" /\ dsp' = "none" /\ running' = FALSE
    /\ state' = "Stopped" /\ pending' = None /\ finished' = FALSE
    /\ position' = 0 /\ pos' = 0 /\ due' = 0
    /\ \/ call = "stop" /\ UNCHANGED <<opened, total>>
       \/ call \in {"close", "open"} /\ opened' = FALSE /\ total' = 0
       \/ call = "open" /\ opened' = TRUE /\ total' \in Lengths
    /\ UNCHANGED <<loop, stop, idle_ack, flush_pending, block, call, target, order>>

CallPlay ==
    /\ ui = "idle" /\ state = "Stopped" /\ call' = "play" /\ ui' = "starting"
    /\ UNCHANGED <<reader, status, control, samples, target, dsp, history>>

NothingToPlay ==
    /\ ui = "starting" /\ Joinable /\ (~opened \/ total = 0)
    /\ ui' = "idle" /\ dsp' = "none" /\ running' = FALSE
    /\ UNCHANGED <<reader, status, stop, idle_ack, flush_pending, samples, call, target, history>>

\* play() when stopped.  From the end of the file it starts over.
Start ==
    /\ ui = "starting" /\ Joinable /\ opened /\ total > 0
    /\ IF finished \/ pos = total THEN pos' = 0 /\ position' = 0
                                  ELSE UNCHANGED <<pos, position>>
    /\ due' = pos' /\ finished' = FALSE /\ pending' = None
    /\ stop' = FALSE /\ idle_ack' = FALSE /\ state' = "Playing" /\ running' = TRUE
    /\ ui' = "idle" /\ dsp' = "top"
    /\ UNCHANGED <<opened, total, loop, flush_pending, block, call, target, order>>

\* play() when paused: the acknowledgement is cleared, then the thread released.
CallResume ==
    /\ ui = "idle" /\ state = "Paused" /\ call' = "play" /\ idle_ack' = FALSE /\ ui' = "resuming"
    /\ UNCHANGED <<reader, status, running, stop, flush_pending, samples, target, dsp, history>>

Resume ==
    /\ ui = "resuming" /\ state' = "Playing" /\ ui' = "idle"
    /\ UNCHANGED <<reader, position, finished, loop, control, samples, call, target, dsp, history>>

CallPause ==
    /\ ui = "idle" /\ state = "Playing" /\ call' = "pause" /\ ui' = "pausing"
    /\ UNCHANGED <<reader, status, control, samples, target, dsp, history>>

Pause ==
    /\ ui = "pausing" /\ state' = "Paused" /\ ui' = "settling"
    /\ UNCHANGED <<reader, position, finished, loop, control, samples, call, target, dsp, history>>

WaitForIdle ==
    /\ ui = "settling" /\ (idle_ack \/ ~running) /\ ui' = "idle"
    /\ UNCHANGED <<reader, status, control, samples, call, target, dsp, history>>

\* seek_samples(): the reader under its lock, then three stores of their own.
Old(c) == IF Size(c) = 0 THEN None ELSE [c EXCEPT !.old = TRUE]

CallSeek(p) ==
    /\ ui = "idle" /\ opened /\ state \in SeekIn /\ call' = "seek"
    /\ pos' = p /\ target' = p /\ due' = p /\ ui' = "sought"
    /\ pending' = Old(pending) /\ block' = Old(block)
    /\ UNCHANGED <<opened, total, status, control, dsp, order>>

SeekPosition ==
    /\ ui = "sought" /\ position' = target /\ ui' = "positioned"
    /\ UNCHANGED <<reader, state, finished, loop, control, samples, call, target, dsp, history>>

SeekUnfinished ==
    /\ ui = "positioned" /\ finished' = FALSE /\ ui' = "flushing"
    /\ UNCHANGED <<reader, state, position, loop, control, samples, call, target, dsp, history>>

SeekFlush ==
    /\ ui = "flushing" /\ ui' = "idle"
    /\ IF running THEN flush_pending' = TRUE /\ UNCHANGED pending
                  ELSE pending' = None /\ UNCHANGED flush_pending
    /\ UNCHANGED <<reader, status, running, stop, idle_ack, block, call, target, dsp, history>>

SetLoop ==
    /\ ui = "idle" /\ loop' = ~loop
    /\ UNCHANGED <<reader, state, position, finished, control, samples, caller, dsp, history>>

-----------------------------------------------------------------------------
(* The DSP thread: one pass of dsp_thread_main                             *)

DspGoes(from, to) == dsp = from /\ dsp' = to

TopDeafWhenParked ==
    /\ \/ stop /\ state = "Playing" /\ DspGoes("top", "ending")
       \/ state # "Playing" /\ DspGoes("top", "parked")
       \/ ~stop /\ state = "Playing" /\ DspGoes("top", "awake")
    /\ UNCHANGED <<reader, status, control, samples, caller, history>>

Top ==
    /\ \/ stop /\ DspGoes("top", "ending")
       \/ ~stop /\ state # "Playing" /\ DspGoes("top", "parked")
       \/ ~stop /\ state = "Playing" /\ DspGoes("top", "awake")
    /\ UNCHANGED <<reader, status, control, samples, caller, history>>

Park ==
    /\ DspGoes("parked", "top") /\ idle_ack' = TRUE
    /\ UNCHANGED <<reader, status, running, stop, flush_pending, samples, caller, history>>

Awake ==
    /\ DspGoes("awake", "flush") /\ idle_ack' = FALSE
    /\ UNCHANGED <<reader, status, running, stop, flush_pending, samples, caller, history>>

Flush ==
    /\ DspGoes("flush", "drain") /\ flush_pending' = FALSE
    /\ pending' = IF flush_pending THEN None ELSE pending
    /\ UNCHANGED <<reader, status, running, stop, idle_ack, block, caller, history>>

\* The sink takes the first k samples of a chunk.
Seeking == ui \in {"sought", "positioned", "flushing"}
Hand(c, k) ==
    IF k = 0 \/ (c.old /\ Seeking) THEN UNCHANGED history
    ELSE /\ due' = c.from + k
         /\ order' = IF order # "kept" \/ (c.from = due /\ ~c.old) THEN order
                     ELSE IF c.old THEN "stale" ELSE "lost"

Rest(c, k) == IF k = Size(c) THEN None ELSE [c EXCEPT !.from = @ + k]

DrainAndReadOn(k) ==
    /\ DspGoes("drain", "read") /\ k <= Size(pending) /\ Hand(pending, k)
    /\ pending' = Rest(pending, k)
    /\ UNCHANGED <<reader, status, control, block, caller>>

\* What the sink refused last time goes first; until it is gone nothing is read.
Drain(k) ==
    /\ k <= Size(pending) /\ Hand(pending, k) /\ pending' = Rest(pending, k)
    /\ DspGoes("drain", IF k = Size(pending) THEN "read" ELSE "top")
    /\ UNCHANGED <<reader, status, control, block, caller>>

NothingDue ==
    /\ DspGoes("read", "top")
    /\ UNCHANGED <<reader, status, control, samples, caller, history>>

Read(want) ==
    LET got == IF want < total - pos THEN want ELSE total - pos
    IN  /\ pos' = pos + got
        /\ IF got = 0 THEN DspGoes("read", "eof") /\ UNCHANGED block
                      ELSE DspGoes("read", "store") /\ block' = [from |-> pos, to |-> pos + got, old |-> FALSE]
        /\ UNCHANGED <<opened, total, status, control, pending, caller, history>>

ReadFails ==
    /\ DspGoes("read", "failed")
    /\ UNCHANGED <<reader, status, control, samples, caller, history>>

\* The seek to the start may fail as a read may, and ends the thread too.
Rewind ==
    /\ loop
    /\ \/ /\ DspGoes("eof", "rewound") /\ pos' = 0
          /\ due' = IF due = total THEN 0 ELSE due
       \/ DspGoes("eof", "failed") /\ UNCHANGED <<pos, due>>
    /\ UNCHANGED <<opened, total, status, control, samples, caller, order>>

Rewound ==
    /\ DspGoes("rewound", "top") /\ position' = 0
    /\ UNCHANGED <<reader, state, finished, loop, control, samples, caller, history>>

Finish ==
    /\ ~loop /\ DspGoes("eof", "finished") /\ finished' = TRUE
    /\ UNCHANGED <<reader, state, position, loop, control, samples, caller, history>>

FinishQuietly ==
    /\ dsp \in {"finished", "failed"} /\ dsp' = "ending"
    /\ UNCHANGED <<reader, status, control, samples, caller, history>>

EndsItself ==
    /\ dsp \in {"finished", "failed"} /\ dsp' = "ending" /\ state' = "Stopped"
    /\ UNCHANGED <<reader, position, finished, loop, control, samples, caller, history>>

StorePosition ==
    /\ DspGoes("store", "push") /\ position' = block.to
    /\ UNCHANGED <<reader, state, finished, loop, control, samples, caller, history>>

Push(k) ==
    /\ DspGoes("push", "top") /\ k <= Size(block) /\ Hand(block, k)
    /\ pending' = Rest(block, k) /\ block' = None
    /\ UNCHANGED <<reader, status, control, caller>>

Gone ==
    /\ DspGoes("ending", "gone") /\ idle_ack' = TRUE /\ running' = FALSE
    /\ UNCHANGED <<reader, status, stop, flush_pending, samples, caller, history>>

-----------------------------------------------------------------------------
Calls ==
    \/ \E c \in {"stop", "close", "open"} : CallStop(c)
    \/ CallPlay \/ CallResume \/ CallPause
    \/ \E p \in 0 .. total : CallSeek(p)
    \/ SetLoop

UiStep ==
    \/ Stopped \/ NothingToPlay \/ Start \/ Resume \/ Pause \/ WaitForIdle
    \/ SeekPosition \/ SeekUnfinished \/ SeekFlush

Taken == \E k \in 1 .. Block : Drain(k) \/ Push(k)
Owed == \E want \in 1 .. Block : Read(want)

DspStep ==
    \/ Top \/ Park \/ Awake \/ Flush
    \/ Drain(0) \/ Push(0) \/ Taken
    \/ NothingDue \/ Owed \/ ReadFails \/ Rewind \/ Rewound \/ Finish \/ EndsItself
    \/ StorePosition \/ Gone

Next == Calls \/ UiStep \/ DspStep

Spec == Init /\ [][Next]_vars

(***************************************************************************)
(* Both threads run.  The transmitter drains the sink, and the clock goes  *)
(* on, so a thread that offers samples or asks for more again and again is *)
(* not refused for ever.                                                   *)
(***************************************************************************)
FairSpec ==
    Spec /\ WF_vars(UiStep) /\ WF_vars(DspStep) /\ SF_vars(Taken) /\ SF_vars(Owed)

-----------------------------------------------------------------------------
(* Properties                                                              *)

\* Every variable keeps its shape, and a chunk is an interval of the file.
Chunks == {c \in [from : 0 .. total, to : 0 .. total, old : BOOLEAN] :
             c = None \/ (c.from < c.to /\ Size(c) <= Block)}
TypeOK ==
    /\ opened \in BOOLEAN /\ total \in Lengths \cup {0} /\ pos \in 0 .. total
    /\ state \in {"Stopped", "Playing", "Paused"} /\ position \in 0 .. total
    /\ finished \in BOOLEAN /\ loop \in BOOLEAN /\ running \in BOOLEAN /\ stop \in BOOLEAN
    /\ idle_ack \in BOOLEAN /\ flush_pending \in BOOLEAN
    /\ pending \in Chunks /\ block \in Chunks
    /\ ui \in {"idle", "joining", "starting", "resuming", "pausing", "settling",
               "sought", "positioned", "flushing"}
    /\ call \in {"none", "stop", "close", "open", "play", "pause", "seek"}
    /\ target \in Nat /\ due \in 0 .. total /\ order \in {"kept", "stale", "lost"}
    /\ dsp \in {"none", "top", "parked", "awake", "flush", "drain", "read", "eof", "rewound",
                "finished", "failed", "store", "push", "ending", "gone"}

(***************************************************************************)
(* With seeks made while stopped only: through refusals by the sink,       *)
(* pauses, rewinds and restarts, the sink gets the file's samples in       *)
(* order, none twice and none passed over ("so samples never leave the     *)
(* file in the wrong order", dsp_thread_main).                             *)
(***************************************************************************)
InOrder == order = "kept"

\* Every call returns.
CallsReturn == ui # "idle" ~> ui = "idle"

(***************************************************************************)
(* A file that is left to play, and does not loop, comes to its end and    *)
(* says so: `state() == Stopped` is what ends a track (PlaylistView).      *)
(***************************************************************************)
LeftToPlay == <>[](ui = "idle" /\ ~loop)
PlaybackEnds == [](state # "Paused") /\ LeftToPlay => <>[](state # "Playing")

(***************************************************************************)
(* "Starts playing, or resumes from a pause" (play): after a pause too, a  *)
(* model that says Playing plays on to the end.                            *)
(***************************************************************************)
ResumedPlaybackEnds == LeftToPlay => <>[](state # "Playing")

\* "nothing further from the old position should go out" (seek_samples), once
\* the call has returned.
SeekIsClean == order # "stale"

(***************************************************************************)
(* "pause() and stop() both return only once the DSP thread has actually   *)
(* come to rest" (replay_model.hpp): no block is in hand then.             *)
(***************************************************************************)
PauseSettles ==
    (call = "pause" /\ ui = "idle" /\ state = "Paused") =>
        dsp \in {"top", "parked", "ending", "gone", "none"}
=============================================================================
