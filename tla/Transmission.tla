---------------------------- MODULE Transmission ----------------------------
(***************************************************************************)
(* A burst on its way to the antenna.  The browser's Morse request         *)
(* (remote/morse_tx.cpp) is keyed by the UI thread's tick, which sets the  *)
(* source of radio::TransmitterModel (transmitter_model.cpp) and starts    *)
(* it; its DSP thread pulls the burst into the radio's transmit ring       *)
(* (module RingBuffer), and the device's transmit thread                   *)
(* (radio/usrp_radio.cpp) sends what it finds there.  The applications'    *)
(* burst senders go the same way with their on_frame_sync() as the tick.   *)
(*                                                                         *)
(* Only raw mode is modelled: it is the only one with a burst in it.  The  *)
(* samples of a burst are numbered, and the two bursts after one another   *)
(* told apart; levels and rates are left out, and so are the zeros that    *)
(* fill a block the ring had too little for: they put silence before,      *)
(* after and, where the DSP thread is late, in between the samples of a    *)
(* burst.                                                                  *)
(*                                                                         *)
(* Length is the size of every burst, Block of the DSP thread's blocks and *)
(* TxBlock of the device's.  Neither bounds anything the code does not.    *)
(*                                                                         *)
(* RingKept, ForgetsTheStopped and ClearWhilePulled are faulty variants of *)
(* the definitions they precede; no specification uses them.               *)
(***************************************************************************)
EXTENDS RingBuffer

CONSTANTS Length, Block, TxBlock

ASSUME LengthAssumption == Length \in Nat \ {0}
ASSUME BlockAssumption == Block \in 1..capacity
ASSUME TxBlockAssumption == TxBlock \in Nat \ {0}

VARIABLES
    pending, active,       \* the Morse state: asked for, on the air
    iq, pos,               \* its samples (how many) and the next one to give
    source,                \* iq_source_ is set
    running, stop,         \* TransmitterModel
    dsp, output,           \* its DSP thread: where it is, the block in hand
    tx_running, tx_stop,   \* UsrpRadio
    tx, block,             \* its transmit thread: where it is, the block read
    ui, call,              \* the UI thread: where it is, and in which call
    burst, handed, torn,   \* history: which burst this is, how much of it was
    short, ended           \* given to send(), whether in order, whether send()
                           \* took less, and how the last burst ended

morse == <<pending, active, iq, pos>>
model == <<source, running, stop, dsp, output>>
radio == <<tx_running, tx_stop, tx, block>>
caller == <<ui, call>>
history == <<burst, handed, torn, short, ended>>
vars == <<ring, morse, model, radio, caller, history>>

\* A sample knows its burst: 1..Length for one, the next Length for the other.
Samples == 1 .. (2 * Length)
Sample(k) == burst * Length + k

TypeOK ==
    /\ buffer \in [0..capacity -> Samples \cup {0}]
    /\ write \in 0..capacity /\ read \in 0..capacity
    /\ pending \in BOOLEAN /\ active \in BOOLEAN
    /\ iq \in {0, Length} /\ pos \in 0..Length
    /\ source \in BOOLEAN /\ running \in BOOLEAN /\ stop \in BOOLEAN
    /\ dsp \in {"none", "top", "pull", "write", "gone", "lost"} /\ Len(output) <= Block
    /\ tx_running \in BOOLEAN /\ tx_stop \in BOOLEAN
    /\ tx \in {"none", "top", "read", "send", "end", "gone"} /\ Len(block) <= TxBlock
    /\ ui \in {"idle", "join_dsp", "stop_tx", "join_tx", "joined", "dead"}
    /\ call \in {"none", "finished", "stopped", "other", "reconnect"}
    /\ burst \in {0, 1} /\ handed \in 0..Length /\ torn \in BOOLEAN /\ short \in BOOLEAN
    /\ ended \in {"never", "whole", "cut", "stopped", "failed"}

Init ==
    /\ InitRing
    /\ pending = FALSE /\ active = FALSE /\ iq = 0 /\ pos = 0
    /\ source = FALSE /\ running = FALSE /\ stop = FALSE /\ dsp = "none" /\ output = <<>>
    /\ tx_running = FALSE /\ tx_stop = FALSE /\ tx = "none" /\ block = <<>>
    /\ ui = "idle" /\ call = "none"
    /\ burst = 0 /\ handed = 0 /\ torn = FALSE /\ short = FALSE /\ ended = "never"

----------------------------------------------------------------------------
\* The connection thread and the UI thread.

\* morse_tx_request() takes a request only while nothing is on the air.
Request ==
    /\ ui # "dead" /\ ~active /\ ~pending /\ ~running
    /\ pending' = TRUE
    /\ UNCHANGED <<ring, active, iq, pos, model, radio, caller, history>>

RingKept == UNCHANGED ring

\* start_tx() empties the ring; nobody is at it.
StartTx == ClearRing

(***************************************************************************)
(* The tick keys what was asked for: the source, then                      *)
(* TransmitterModel::start(), whose start_tx() may be refused.             *)
(***************************************************************************)
TickBegins ==
    /\ ui = "idle" /\ ~active /\ pending /\ ~running
    /\ pending' = FALSE /\ pos' = 0
    /\ \/ iq' = 0 /\ source' = FALSE
          /\ UNCHANGED <<ring, active, running, stop, dsp, output, radio, history>>
       \/ /\ iq' = Length /\ source' = TRUE /\ active' = TRUE
          /\ StartTx
          /\ tx_stop' = FALSE /\ tx_running' = TRUE /\ tx' = "top"
          /\ stop' = FALSE /\ running' = TRUE /\ dsp' = "top" /\ output' = <<>>
          /\ burst' = 1 - burst /\ handed' = 0 /\ short' = FALSE /\ ended' = "never"
          /\ UNCHANGED <<block, torn>>
    /\ UNCHANGED caller

\* TransmitterModel::stop() begins: its own thread first, then the radio's.
Stop(why) ==
    /\ ui = "idle" /\ call' = why
    /\ \/ running /\ stop' = TRUE /\ ui' = "join_dsp"
       \/ ~running /\ UNCHANGED stop /\ ui' = "stop_tx"

ForgetsTheStopped ==
    /\ active /\ running /\ pos >= iq /\ Stop("finished")
    /\ UNCHANGED <<ring, morse, source, running, dsp, output, radio, history>>

ClearWhilePulled ==
    /\ active
    /\ \/ running /\ pos >= iq /\ Stop("finished")
       \/ ~running /\ Stop("stopped")
    /\ iq' = 0 /\ UNCHANGED <<pending, active, pos>>
    /\ UNCHANGED <<ring, source, running, dsp, output, radio, history>>

\* The tick takes a burst off the air: it was pulled to its end, or stopped.
TickEnds ==
    /\ active
    /\ \/ running /\ pos >= iq /\ Stop("finished")
       \/ ~running /\ Stop("stopped")
    /\ UNCHANGED <<ring, morse, source, running, dsp, output, radio, history>>

\* Somebody else stops the transmitter: the root menu, an application.
OtherStops ==
    /\ Stop("other")
    /\ UNCHANGED <<ring, morse, source, running, dsp, output, radio, history>>

\* Radio Setup's Reconnect: close(), which stops the radio and not the model.
Reconnect ==
    /\ ui = "idle" /\ ui' = "stop_tx" /\ call' = "reconnect"
    /\ UNCHANGED <<ring, morse, model, radio, history>>

JoinDsp ==
    /\ ui = "join_dsp" /\ dsp = "gone"
    /\ dsp' = "none" /\ output' = <<>> /\ running' = FALSE /\ ui' = "stop_tx"
    /\ UNCHANGED <<ring, morse, source, stop, radio, call, history>>

\* stop_tx(): a thread that has ended by itself is only joined.
StopTx ==
    /\ ui = "stop_tx"
    /\ \/ tx = "none" /\ ui' = "joined" /\ UNCHANGED tx_stop
       \/ tx # "none" /\ tx_stop' = (tx_stop \/ tx_running) /\ ui' = "join_tx"
    /\ UNCHANGED <<ring, morse, model, tx_running, tx, block, call, history>>

JoinTx ==
    /\ ui = "join_tx" /\ tx = "gone"
    /\ tx' = "none" /\ tx_running' = FALSE /\ ui' = "joined"
    /\ UNCHANGED <<ring, morse, model, tx_stop, block, call, history>>

\* The tick lets the source and the samples go.
BurstOver ==
    /\ ui = "joined" /\ call \in {"finished", "stopped"}
    /\ source' = FALSE /\ active' = FALSE /\ iq' = 0 /\ pos' = 0
    /\ ended' = (IF ended = "failed" THEN ended
                 ELSE IF call = "stopped" THEN "stopped"
                 ELSE IF handed = Length /\ ~short THEN "whole" ELSE "cut")
    /\ ui' = "idle" /\ call' = "none"
    /\ UNCHANGED <<ring, pending, running, stop, dsp, output, radio, burst, handed, torn, short>>

StopOver ==
    /\ ui = "joined" /\ call = "other"
    /\ ui' = "idle" /\ call' = "none"
    /\ UNCHANGED <<ring, morse, model, radio, history>>

(***************************************************************************)
(* ... and open(), which makes a new ring and frees the old one.  A DSP    *)
(* thread still has the old one in hand: what it does is undefined.        *)
(***************************************************************************)
Reopen ==
    /\ ui = "joined" /\ call = "reconnect"
    /\ \/ dsp = "none" /\ ui' = "idle" /\ call' = "none" /\ StartTx /\ UNCHANGED dsp
       \/ dsp # "none" /\ ui' = "dead" /\ dsp' = "lost" /\ UNCHANGED <<ring, call>>
    /\ UNCHANGED <<morse, source, running, stop, output, radio, history>>

----------------------------------------------------------------------------
\* The DSP thread, TransmitterModel::dsp_thread_main().

DspHead ==
    /\ dsp = "top"
    /\ \/ stop /\ dsp' = "gone"
       \/ ~stop /\ space >= Smaller(2 * Block, capacity \div 2) /\ dsp' = "pull"
    /\ UNCHANGED <<ring, morse, source, running, stop, output, radio, caller, history>>

\* The source is asked for a block; an empty one is not written.
Pull ==
    /\ dsp = "pull"
    /\ LET got == IF source THEN Smaller(Smaller(Block, space), iq - pos) ELSE 0
       IN /\ output' = [k \in 1..got |-> Sample(pos + k)]
          /\ pos' = pos + got
          /\ dsp' = IF got = 0 THEN "top" ELSE "write"
    /\ UNCHANGED <<ring, pending, active, iq, source, running, stop, radio, caller, history>>

Write ==
    /\ dsp = "write"
    /\ \/ BeginWrite(output) /\ UNCHANGED dsp
       \/ CopyIn /\ UNCHANGED dsp
       \/ EndWrite /\ dsp' = "top"
    /\ UNCHANGED <<morse, source, running, stop, output, radio, caller, history>>

----------------------------------------------------------------------------
\* The device's transmit thread, UsrpRadio::tx_thread_main().

TxHead ==
    /\ tx = "top"
    /\ \/ tx_stop /\ tx' = "end" /\ UNCHANGED ring
       \/ ~tx_stop /\ tx' = "read" /\ BeginRead(TxBlock)
    /\ UNCHANGED <<morse, model, tx_running, tx_stop, block, caller, history>>

Read ==
    /\ tx = "read"
    /\ \/ CopyOut /\ UNCHANGED <<tx, block>>
       \/ EndRead /\ tx' = "send" /\ block' = reader.data
    /\ UNCHANGED <<morse, model, tx_running, tx_stop, caller, history>>

(***************************************************************************)
(* A block is given to send().  Of its samples n go out: when the half     *)
(* second is over send() returns with fewer than it was given, and the     *)
(* loop reads the next block over the rest.  Or send() throws, and the     *)
(* thread gives up.                                                        *)
(***************************************************************************)
Send ==
    /\ tx = "send"
    /\ \/ \E n \in 0..Len(block) :
            /\ tx' = "top"
            /\ torn' = (torn \/ \E k \in DOMAIN block : block[k] # Sample(handed + k))
            /\ handed' = Smaller(Length, handed + Len(block))
            /\ short' = (short \/ n < Len(block))
            /\ UNCHANGED ended
       \/ tx' = "end" /\ ended' = "failed" /\ UNCHANGED <<torn, handed, short>>
    /\ UNCHANGED <<ring, morse, model, tx_running, tx_stop, block, caller, burst>>

EndTx ==
    /\ tx = "end" /\ tx' = "gone" /\ tx_running' = FALSE
    /\ UNCHANGED <<ring, morse, model, tx_stop, block, caller, history>>

----------------------------------------------------------------------------
Dsp == DspHead \/ Pull \/ Write
Tx == TxHead \/ Read \/ Send \/ EndTx
Tick == TickBegins \/ TickEnds
Return == JoinDsp \/ StopTx \/ JoinTx \/ BurstOver \/ StopOver \/ Reopen

Next == Dsp \/ Tx \/ Tick \/ Return \/ Request \/ OtherStops \/ Reconnect

Spec == Init /\ [][Next]_vars

(***************************************************************************)
(* Both threads run, a call once made goes on, and AppBridge::refresh()    *)
(* ticks on every frame.                                                   *)
(***************************************************************************)
FairSpec ==
    /\ Spec
    /\ WF_vars(Dsp) /\ WF_vars(Tx)
    /\ SF_vars(Tick) /\ WF_vars(Return)

----------------------------------------------------------------------------
\* The ring, seen from its two threads, is a queue (src/src/dsp/ring_buffer.hpp).
Queue == INSTANCE Fifo WITH
    Items <- Samples, Room <- capacity, queue <- Content, got <- block
ImplementsFifo == Queue!Spec

(***************************************************************************)
(* What is given to send() is the burst that is on the air, from its first *)
(* sample, with nothing missing, doubled or left over from the one before: *)
(* the ring is never too full for a block that was pulled, and never holds *)
(* anything when the next burst begins.  What goes out is that but for     *)
(* what send() did not take when its half second was over: the end of a    *)
(* block, which is not sent again (short).                                 *)
(***************************************************************************)
SentInOrder == ~torn

(***************************************************************************)
(* "iq is stable while active" (morse_tx.cpp): the samples are not let go  *)
(* while the DSP thread may be in the source that reads them.              *)
(***************************************************************************)
SamplesOutliveTheSource == source /\ dsp \notin {"none", "gone", "lost"} => iq = Length

(***************************************************************************)
(* A burst does not stay on the air: the tick sees its end or that it was  *)
(* stopped.  Only a radio that gave up keeps it: nothing drains the ring,  *)
(* the source is never pulled to its end, and nobody looks at tx_running.  *)
(***************************************************************************)
BurstEnds == active ~> (~active \/ ui = "dead" \/ tx = "gone")

(***************************************************************************)
(* "The queued waveform auto-stops when it finishes"                       *)
(* (src/src/remote/morse_tx.hpp): a burst that the tick takes off the air  *)
(* as finished has been sent to its last sample.  It may be cut at its     *)
(* end, which is still in the ring, and where a send was short.            *)
(***************************************************************************)
FinishedIsSent == ended # "cut"

=============================================================================
