----------------------------- MODULE RingBuffer -----------------------------
(***************************************************************************)
(* dsp::RingBuffer (src/src/dsp/ring_buffer.hpp), the queue between two    *)
(* threads: one writes, one reads, neither locks.  Each call is three      *)
(* steps: load both indices, copy, store one's own index; the other thread *)
(* may take any of its steps in between.  A copy is one step, since the    *)
(* other thread's copy is what it could meet.                              *)
(*                                                                         *)
(* The module has the ring's state and operations; whoever has the ring    *)
(* (module Transmission) decides who calls them.                           *)
(*                                                                         *)
(* StoreBeforeCopy is a faulty variant of the definition it precedes; no   *)
(* specification uses it.                                                  *)
(***************************************************************************)
EXTENDS Integers, Sequences

CONSTANT
    Slots  \* buffer_.size(), which the constructor rounds up to a power of two

ASSUME SlotsAssumption == Slots \in Nat /\ \E k \in 1..Slots : Slots = 2 ^ k

VARIABLES
    buffer, write, read,  \* buffer_, write_, read_
    writer,               \* the producer's call: where it is and what it holds
    reader                \* the consumer's

ring == <<buffer, write, read, writer, reader>>

\* One slot stays empty, to tell full from empty; % Slots is the index mask.
capacity == Slots - 1

Idle == [at |-> "idle", from |-> 0, data |-> <<>>]
Smaller(m, n) == IF m < n THEN m ELSE n
Used(w, r) == (w - r) % Slots
size == Used(write, read)
space == capacity - size

InitRing ==
    /\ buffer = [k \in 0 .. (Slots - 1) |-> 0]
    /\ write = 0 /\ read = 0
    /\ writer = Idle /\ reader = Idle

StoreBeforeCopy(data) ==
    /\ writer.at = "idle"
    /\ LET taken == SubSeq(data, 1, Smaller(Len(data), capacity - Used(write, read)))
       IN /\ writer' = [at |-> "copy", from |-> write, data |-> taken]
          /\ write' = (write + Len(taken)) % Slots
    /\ UNCHANGED <<buffer, read, reader>>

\* write(): the room there is now is all that is used, and there is never less.
BeginWrite(data) ==
    /\ writer.at = "idle"
    /\ writer' = [at |-> "copy", from |-> write,
                  data |-> SubSeq(data, 1, Smaller(Len(data), capacity - Used(write, read)))]
    /\ UNCHANGED <<buffer, write, read, reader>>

CopyIn ==
    /\ writer.at = "copy" /\ writer' = [writer EXCEPT !.at = "store"]
    /\ buffer' = [k \in 0 .. (Slots - 1) |->
                    LET i == (k - writer.from) % Slots
                    IN IF i < Len(writer.data) THEN writer.data[i + 1] ELSE buffer[k]]
    /\ UNCHANGED <<write, read, reader>>

EndWrite ==
    /\ writer.at = "store" /\ writer' = Idle
    /\ write' = (writer.from + Len(writer.data)) % Slots
    /\ UNCHANGED <<buffer, read, reader>>

\* read(): what is there now, up to count, and more may be coming.
BeginRead(count) ==
    /\ reader.at = "idle"
    /\ reader' = [at |-> "copy", from |-> read,
                  data |-> [k \in 1 .. Smaller(count, Used(write, read)) |-> 0]]
    /\ UNCHANGED <<buffer, write, read, writer>>

CopyOut ==
    /\ reader.at = "copy"
    /\ reader' = [reader EXCEPT !.at = "store",
                    !.data = [k \in DOMAIN reader.data |-> buffer[(reader.from + k - 1) % Slots]]]
    /\ UNCHANGED <<buffer, write, read, writer>>

EndRead ==
    /\ reader.at = "store" /\ reader' = Idle
    /\ read' = (reader.from + Len(reader.data)) % Slots
    /\ UNCHANGED <<buffer, write, writer>>

\* clear(), which the header calls safe only while the producer is stopped.
ClearRing ==
    /\ read' = write /\ writer' = Idle /\ reader' = Idle
    /\ UNCHANGED <<buffer, write>>

\* What the consumer has still to read.
Content == [k \in 1..size |-> buffer[(read + k - 1) % Slots]]

=============================================================================
