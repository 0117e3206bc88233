------------------------- MODULE TransmissionProofs -------------------------
(***************************************************************************)
(* Proofs about Transmission and the ring it uses, for every size of ring, *)
(* burst and blocks: the ring is a queue, and what goes out is the burst.  *)
(***************************************************************************)
EXTENDS Transmission, TLAPS

-----------------------------------------------------------------------------
(* Positions in the ring.                                                  *)

LEMMA SlotsPositive == Slots \in Nat /\ Slots >= 2 /\ capacity \in Nat /\ capacity = Slots - 1
BY SlotsAssumption, BlockAssumption DEF capacity

LEMMA Wraps ==
  ASSUME NEW p \in Int, -Slots <= p, p < 2 * Slots
  PROVE  p % Slots = IF p < 0 THEN p + Slots ELSE IF p < Slots THEN p ELSE p - Slots
BY SlotsPositive

LEMMA UsedIs ==
  ASSUME NEW w \in 0 .. capacity, NEW r \in 0 .. capacity
  PROVE  /\ Used(w, r) = IF w >= r THEN w - r ELSE w - r + Slots
         /\ Used(w, r) \in 0 .. capacity
<1>1. Used(w, r) = IF w >= r THEN w - r ELSE w - r + Slots
  BY SlotsPositive, Wraps DEF Used
<1> QED
  BY <1>1, SlotsPositive

(* The n-th position after p.                                              *)
LEMMA Advance ==
  ASSUME NEW p \in 0 .. capacity, NEW n \in 0 .. Slots
  PROVE  /\ (p + n) % Slots = IF p + n < Slots THEN p + n ELSE p + n - Slots
         /\ (p + n) % Slots \in 0 .. capacity
<1>1. (p + n) % Slots = IF p + n < Slots THEN p + n ELSE p + n - Slots
  BY SlotsPositive, Wraps
<1> QED
  BY <1>1, SlotsPositive

(* Storing an index after n samples makes n more, or n fewer, to read.     *)
LEMMA StoreWrite ==
  ASSUME NEW w \in 0 .. capacity, NEW r \in 0 .. capacity,
         NEW n \in 0 .. (capacity - Used(w, r))
  PROVE  Used((w + n) % Slots, r) = Used(w, r) + n
<1> DEFINE u == Used(w, r)
           v == (w + n) % Slots
<1>1. u = (IF w >= r THEN w - r ELSE w - r + Slots) /\ u \in 0 .. capacity
  BY UsedIs
<1>2. n \in 0 .. Slots /\ n <= capacity - u
  BY <1>1, SlotsPositive
<1>3. v = (IF w + n < Slots THEN w + n ELSE w + n - Slots) /\ v \in 0 .. capacity
  BY <1>2, Advance
<1>4. Used(v, r) = IF v >= r THEN v - r ELSE v - r + Slots
  BY <1>3, UsedIs
<1> HIDE DEF u, v
<1>5. Used(v, r) = u + n
  BY <1>1, <1>2, <1>3, <1>4, SlotsPositive
<1> QED
  BY <1>5 DEF u, v

LEMMA StoreRead ==
  ASSUME NEW w \in 0 .. capacity, NEW r \in 0 .. capacity, NEW n \in 0 .. Used(w, r)
  PROVE  Used(w, (r + n) % Slots) = Used(w, r) - n
<1> DEFINE u == Used(w, r)
           v == (r + n) % Slots
<1>1. u = (IF w >= r THEN w - r ELSE w - r + Slots) /\ u \in 0 .. capacity
  BY UsedIs
<1>2. n \in 0 .. Slots /\ n <= u
  BY <1>1, SlotsPositive
<1>3. v = (IF r + n < Slots THEN r + n ELSE r + n - Slots) /\ v \in 0 .. capacity
  BY <1>2, Advance
<1>4. Used(w, v) = IF w >= v THEN w - v ELSE w - v + Slots
  BY <1>3, UsedIs
<1> HIDE DEF u, v
<1>5. Used(w, v) = u - n
  BY <1>1, <1>2, <1>3, <1>4, SlotsPositive
<1> QED
  BY <1>5 DEF u, v

(* What is written next comes after what is there to read ...              *)
LEMMA WrittenNext ==
  ASSUME NEW w \in 0 .. capacity, NEW r \in 0 .. capacity, NEW n \in 0 .. Slots,
         Used(w, r) + n <= Slots
  PROVE  (r + (Used(w, r) + n)) % Slots = (w + n) % Slots
<1> DEFINE u == Used(w, r)
           v == (w + n) % Slots
           x == (r + (u + n)) % Slots
<1>1. u = (IF w >= r THEN w - r ELSE w - r + Slots) /\ u \in 0 .. capacity
  BY UsedIs
<1>2. v = IF w + n < Slots THEN w + n ELSE w + n - Slots
  BY Advance
<1>3. u + n \in 0 .. Slots
  BY <1>1, SlotsPositive
<1>4. x = IF r + (u + n) < Slots THEN r + (u + n) ELSE r + (u + n) - Slots
  BY <1>3, Advance
<1> HIDE DEF u, v, x
<1>5. x = v
  BY <1>1, <1>2, <1>3, <1>4, SlotsPositive
<1> QED
  BY <1>5 DEF u, v, x

(* ... and the slot a copy puts its n-th sample in is this far from its    *)
(* start, while those to be read are farther.                              *)
LEMMA OwnSlot ==
  ASSUME NEW w \in 0 .. capacity, NEW n \in 0 .. capacity
  PROVE  (((w + n) % Slots) - w) % Slots = n
<1> DEFINE v == (w + n) % Slots
<1>1. v = IF w + n < Slots THEN w + n ELSE w + n - Slots
  BY SlotsPositive, Advance
<1>2. v - w \in Int /\ -Slots <= v - w /\ v - w < 2 * Slots
  BY <1>1, SlotsPositive
<1>3. (v - w) % Slots = IF v - w < 0 THEN v - w + Slots ELSE IF v - w < Slots THEN v - w ELSE v - w - Slots
  BY <1>2, Wraps
<1> HIDE DEF v
<1>4. (v - w) % Slots = n
  BY <1>1, <1>3, SlotsPositive
<1> QED
  BY <1>4 DEF v

LEMMA OtherSlot ==
  ASSUME NEW w \in 0 .. capacity, NEW r \in 0 .. capacity, NEW n \in 0 .. capacity,
         n < Used(w, r)
  PROVE  (((r + n) % Slots) - w) % Slots = Slots - Used(w, r) + n
<1> DEFINE u == Used(w, r)
           v == (r + n) % Slots
<1>1. u = (IF w >= r THEN w - r ELSE w - r + Slots) /\ u \in 0 .. capacity /\ n < u
  BY UsedIs
<1>2. v = IF r + n < Slots THEN r + n ELSE r + n - Slots
  BY SlotsPositive, Advance
<1>3. v - w \in Int /\ -Slots <= v - w /\ v - w < 2 * Slots
  BY <1>2, SlotsPositive
<1>4. (v - w) % Slots = IF v - w < 0 THEN v - w + Slots ELSE IF v - w < Slots THEN v - w ELSE v - w - Slots
  BY <1>3, Wraps
<1> HIDE DEF u, v
<1>5. (v - w) % Slots = Slots - u + n
  BY <1>1, <1>2, <1>4, SlotsPositive
<1> QED
  BY <1>5 DEF u, v

-----------------------------------------------------------------------------
(* The ring.  A write in progress has room for what it holds, from the     *)
(* write index on, and has stored it there when it is about to move the    *)
(* index; a read in progress is about samples that are there to read.      *)

Calls == {"idle", "copy", "store"}

RingType ==
    /\ buffer \in [0 .. capacity -> Samples \cup {0}]
    /\ write \in 0 .. capacity /\ read \in 0 .. capacity
    /\ writer \in [at : Calls, from : 0 .. capacity, data : Seq(Samples)]
    /\ reader \in [at : Calls, from : 0 .. capacity, data : Seq(Samples \cup {0})]

WriterInv == writer.at # "idle" =>
    /\ writer.from = write /\ Len(writer.data) <= space
    /\ writer.at = "store" =>
         \A k \in 1 .. Len(writer.data) : buffer[(write + (k - 1)) % Slots] = writer.data[k]

ReaderInv == reader.at # "idle" =>
    /\ reader.from = read /\ Len(reader.data) <= size
    /\ reader.at = "store" =>
         \A k \in 1 .. Len(reader.data) : reader.data[k] = buffer[(read + (k - 1)) % Slots]

RingInv == RingType /\ WriterInv /\ ReaderInv

\* The k-th sample there is to read, and that a step leaves those as they are.
There(k) == buffer[(read + (k - 1)) % Slots]
Kept == \A k \in 1 .. size : There(k)' = There(k)

LEMMA SizeType == ASSUME RingType PROVE size \in 0 .. capacity /\ space = capacity - size
BY UsedIs DEF RingType, size, space

LEMMA SlotType ==
  ASSUME NEW p \in 0 .. capacity, NEW k \in 1 .. Slots
  PROVE  (p + (k - 1)) % Slots \in 0 .. capacity
<1>1. k - 1 \in 0 .. Slots
  BY SlotsPositive
<1> QED
  BY <1>1, Advance

LEMMA InitRingKeeps == ASSUME InitRing PROVE RingInv /\ writer = Idle /\ reader = Idle
<1>1. write \in 0 .. capacity /\ read \in 0 .. capacity /\ 0 .. (Slots - 1) = 0 .. capacity
  BY SlotsPositive DEF InitRing
<1>2. buffer \in [0 .. capacity -> Samples \cup {0}]
  BY <1>1 DEF InitRing
<1>3. /\ writer \in [at : Calls, from : 0 .. capacity, data : Seq(Samples)]
      /\ reader \in [at : Calls, from : 0 .. capacity, data : Seq(Samples \cup {0})]
  BY SlotsPositive DEF InitRing, Idle, Calls
<1> QED
  BY <1>1, <1>2, <1>3 DEF InitRing, Idle, RingInv, RingType, WriterInv, ReaderInv

LEMMA BeginWriteKeeps ==
  ASSUME RingInv, NEW data \in Seq(Samples), Len(data) <= space, BeginWrite(data)
  PROVE  RingInv' /\ writer'.at = "copy" /\ writer'.data = data
         /\ UNCHANGED <<buffer, write, read, reader>>
<1>1. Len(data) \in Nat /\ space = capacity - Used(write, read) /\ space \in Nat
  BY SizeType, SlotsPositive DEF RingInv, space, size
<1>2. Smaller(Len(data), capacity - Used(write, read)) = Len(data)
  BY <1>1 DEF Smaller
<1>3. SubSeq(data, 1, Len(data)) = data
  OBVIOUS
<1>4. writer' = [at |-> "copy", from |-> write, data |-> data]
  BY <1>2, <1>3 DEF BeginWrite
<1>5. UNCHANGED <<buffer, write, read, reader>>
  BY DEF BeginWrite
<1>6. RingType'
  BY <1>4, <1>5 DEF RingInv, RingType, Calls
<1>7. WriterInv' /\ ReaderInv'
  BY <1>4, <1>5 DEF RingInv, WriterInv, ReaderInv, size, space
<1> QED
  BY <1>4, <1>5, <1>6, <1>7 DEF RingInv

LEMMA CopyInKeeps ==
  ASSUME RingInv, CopyIn
  PROVE  RingInv' /\ Kept /\ writer'.at = "store" /\ writer'.data = writer.data
         /\ UNCHANGED <<write, read, reader>>
<1> DEFINE n == Len(writer.data)
<1>1. writer.from = write /\ n \in Nat /\ n <= capacity - size /\ size \in 0 .. capacity
      /\ size = Used(write, read)
  BY SizeType DEF RingInv, RingType, WriterInv, CopyIn, size
<1>2. writer' = [writer EXCEPT !.at = "store"]
      /\ writer'.at = "store" /\ writer'.data = writer.data /\ writer'.from = write
  BY <1>1 DEF CopyIn, RingInv, RingType
<1>3. \A i \in 0 .. capacity :
        buffer'[i] = IF (i - write) % Slots < n THEN writer.data[((i - write) % Slots) + 1]
                     ELSE buffer[i]
  BY <1>1, SlotsPositive DEF CopyIn
<1>4. \A k \in 1 .. n : buffer'[(write + (k - 1)) % Slots] = writer.data[k]
  <2> TAKE k \in 1 .. n
  <2>1. k - 1 \in 0 .. capacity /\ k \in 1 .. Slots
    BY <1>1, SlotsPositive
  <2>2. (((write + (k - 1)) % Slots) - write) % Slots = k - 1
    BY <2>1, OwnSlot DEF RingInv, RingType
  <2>3. (write + (k - 1)) % Slots \in 0 .. capacity
    BY <2>1, SlotType DEF RingInv, RingType
  <2> QED
    BY <1>1, <1>3, <2>1, <2>2, <2>3
<1>5. Kept
  <2> SUFFICES ASSUME NEW k \in 1 .. size
               PROVE  buffer'[(read + (k - 1)) % Slots] = buffer[(read + (k - 1)) % Slots]
    BY DEF Kept, There, CopyIn
  <2>1. k - 1 \in 0 .. capacity /\ k - 1 < Used(write, read) /\ k \in 1 .. Slots
    BY <1>1, SlotsPositive
  <2>2. (((read + (k - 1)) % Slots) - write) % Slots = Slots - Used(write, read) + (k - 1)
    BY <2>1, OtherSlot DEF RingInv, RingType
  <2>3. Slots - Used(write, read) + (k - 1) >= n
    BY <1>1, <2>1, SlotsPositive
  <2>4. (read + (k - 1)) % Slots \in 0 .. capacity
    BY <2>1, SlotType DEF RingInv, RingType
  <2> DEFINE p == (read + (k - 1)) % Slots
  <2>5. buffer'[p] = IF (p - write) % Slots < n THEN writer.data[((p - write) % Slots) + 1]
                     ELSE buffer[p]
    BY <1>3, <2>4
  <2>6. ~((p - write) % Slots < n)
    BY <1>1, <2>1, <2>2, <2>3, SlotsPositive
  <2> QED
    BY <2>5, <2>6
<1>6. RingType'
  <2>1. buffer' \in [0 .. capacity -> Samples \cup {0}]
    <3>1. buffer' = [i \in 0 .. capacity |-> IF (i - write) % Slots < n THEN writer.data[((i - write) % Slots) + 1]
                                             ELSE buffer[i]]
      BY <1>1, SlotsPositive DEF CopyIn
    <3>2. ASSUME NEW i \in 0 .. capacity PROVE buffer'[i] \in Samples \cup {0}
      <4>1. (i - write) % Slots \in 0 .. capacity
        BY SlotsPositive, Wraps DEF RingInv, RingType
      <4>2. CASE (i - write) % Slots < n
        <5>1. ((i - write) % Slots) + 1 \in 1 .. n
          BY <1>1, <4>1, <4>2, SlotsPositive
        <5>2. writer.data[((i - write) % Slots) + 1] \in Samples
          BY <5>1 DEF RingInv, RingType
        <5> QED
          BY <1>3, <4>2, <5>2
      <4>3. CASE ~((i - write) % Slots < n)
        BY <1>3, <4>3 DEF RingInv, RingType
      <4> QED
        BY <4>2, <4>3
    <3> QED
      BY <3>1, <3>2
  <2> QED
    BY <1>2, <2>1 DEF CopyIn, RingInv, RingType, Calls
<1>7. WriterInv'
  BY <1>1, <1>2, <1>4 DEF CopyIn, WriterInv, space, size
<1>8. ReaderInv'
  <2>1. ASSUME reader.at = "store", NEW k \in 1 .. Len(reader.data)
        PROVE  reader.data[k] = buffer'[(read + (k - 1)) % Slots]
    <3>1. k \in 1 .. size
      BY <1>1, <2>1 DEF RingInv, RingType, ReaderInv
    <3> QED
      BY <1>5, <2>1, <3>1 DEF RingInv, ReaderInv, Kept, There, CopyIn
  <2> QED
    BY <2>1 DEF CopyIn, RingInv, ReaderInv, size
<1> QED
  BY <1>2, <1>5, <1>6, <1>7, <1>8 DEF RingInv, CopyIn

LEMMA EndWriteKeeps ==
  ASSUME RingInv, EndWrite
  PROVE  LET n == Len(writer.data)
         IN /\ RingInv' /\ writer' = Idle
            /\ n \in 0 .. (capacity - size) /\ size' = size + n
            /\ Kept /\ \A k \in 1 .. n : There(size + k) = writer.data[k]
            /\ UNCHANGED <<buffer, read, reader>>
<1> DEFINE n == Len(writer.data)
<1>1. writer.at = "store" /\ writer.from = write /\ n \in 0 .. (capacity - size)
      /\ size \in 0 .. capacity /\ size = Used(write, read)
      /\ write \in 0 .. capacity /\ read \in 0 .. capacity
  BY SMTT(30), SizeType, SlotsPositive DEF RingInv, RingType, WriterInv, EndWrite, size
<1>2. writer' = Idle /\ write' = (write + n) % Slots /\ UNCHANGED <<buffer, read, reader>>
  BY <1>1 DEF EndWrite
<1>3. size' = size + n
  BY <1>1, <1>2, StoreWrite DEF size
<1>4. write' \in 0 .. capacity
  <2>1. n \in 0 .. Slots
    BY <1>1, SlotsPositive
  <2> QED
    BY <1>1, <1>2, <2>1, Advance
<1>5. Kept
  BY <1>2 DEF Kept, There
<1>6. ASSUME NEW k \in 1 .. n PROVE There(size + k) = writer.data[k]
  <2>1. k - 1 \in 0 .. Slots /\ Used(write, read) + (k - 1) <= Slots
    BY <1>1, SlotsPositive
  <2>2. (read + (Used(write, read) + (k - 1))) % Slots = (write + (k - 1)) % Slots
    BY <1>1, <2>1, WrittenNext
  <2>3. (read + ((size + k) - 1)) % Slots = (write + (k - 1)) % Slots
    BY <1>1, <2>2, SlotsPositive
  <2>4. buffer[(write + (k - 1)) % Slots] = writer.data[k]
    BY <1>1 DEF RingInv, WriterInv
  <2> QED
    BY <2>3, <2>4 DEF There
<1>7. RingType'
  BY <1>2, <1>4, SlotsPositive DEF RingInv, RingType, Idle, Calls
<1>8. WriterInv'
  BY <1>2 DEF WriterInv, Idle
<1>9. ReaderInv'
  <2>1. reader.at # "idle" => Len(reader.data) <= size'
    <3>1. Len(reader.data) \in Nat
      BY DEF RingInv, RingType
    <3>2. n \in Nat /\ size \in Nat
      BY <1>1, SlotsPositive
    <3>3. reader.at # "idle" => Len(reader.data) <= size
      BY DEF RingInv, ReaderInv
    <3> QED
      BY <1>3, <3>1, <3>2, <3>3
  <2> QED
    BY <1>2, <2>1 DEF RingInv, ReaderInv
<1> QED
  BY <1>1, <1>2, <1>3, <1>5, <1>6, <1>7, <1>8, <1>9 DEF RingInv

LEMMA BeginReadKeeps ==
  ASSUME RingInv, NEW count \in Nat, BeginRead(count)
  PROVE  RingInv' /\ Len(reader'.data) \in 0 .. count /\ reader'.at = "copy"
         /\ UNCHANGED <<buffer, write, read, writer>>
<1> DEFINE n == Smaller(count, Used(write, read))
<1>1. n \in 0 .. count /\ n <= size
  BY SizeType, SlotsPositive DEF RingInv, Smaller, size
<1>2. reader' = [at |-> "copy", from |-> read, data |-> [k \in 1 .. n |-> 0]]
      /\ UNCHANGED <<buffer, write, read, writer>>
  BY DEF BeginRead
<1>3. [k \in 1 .. n |-> 0] \in Seq(Samples \cup {0}) /\ Len([k \in 1 .. n |-> 0]) = n
  BY <1>1
<1> HIDE DEF n
<1>4. RingType'
  BY <1>2, <1>3 DEF RingInv, RingType, Calls
<1>5. WriterInv' /\ ReaderInv'
  BY <1>1, <1>2, <1>3 DEF RingInv, WriterInv, ReaderInv, size, space
<1> QED
  BY <1>1, <1>2, <1>3, <1>4, <1>5 DEF RingInv

LEMMA CopyOutKeeps ==
  ASSUME RingInv, CopyOut
  PROVE  RingInv' /\ Len(reader'.data) = Len(reader.data) /\ reader'.at = "store"
         /\ UNCHANGED <<buffer, write, read, writer>>
<1> DEFINE n == Len(reader.data)
           d == [k \in DOMAIN reader.data |-> buffer[(reader.from + k - 1) % Slots]]
<1>1. n \in 0 .. size /\ reader.from = read /\ DOMAIN reader.data = 1 .. n
      /\ size \in 0 .. capacity /\ read \in 0 .. capacity
  BY SizeType, SlotsPositive DEF RingInv, RingType, ReaderInv, CopyOut
<1>2. reader' = [at |-> "store", from |-> read, data |-> d]
      /\ UNCHANGED <<buffer, write, read, writer>>
  BY <1>1 DEF CopyOut, RingInv, RingType
<1>3. ASSUME NEW k \in 1 .. n
      PROVE  d[k] = buffer[(read + (k - 1)) % Slots] /\ d[k] \in Samples \cup {0}
  <2>1. reader.from + k - 1 = read + (k - 1) /\ k \in 1 .. Slots
    BY <1>1, SlotsPositive
  <2>2. (read + (k - 1)) % Slots \in 0 .. capacity
    BY <1>1, <2>1, SlotType
  <2> QED
    BY <1>1, <2>1, <2>2 DEF RingInv, RingType
<1>4. d = [k \in 1 .. n |-> d[k]]
  BY <1>1
<1> HIDE DEF d
<1>5. d \in Seq(Samples \cup {0}) /\ Len(d) = n
  BY <1>1, <1>3, <1>4
<1>6. RingType'
  BY <1>1, <1>2, <1>5 DEF RingInv, RingType, Calls
<1>7. WriterInv' /\ ReaderInv'
  BY <1>1, <1>2, <1>3, <1>5 DEF RingInv, WriterInv, ReaderInv, size, space
<1> QED
  BY <1>2, <1>5, <1>6, <1>7 DEF RingInv

LEMMA EndReadKeeps ==
  ASSUME RingInv, EndRead
  PROVE  LET n == Len(reader.data)
         IN /\ RingInv' /\ reader' = Idle
            /\ n \in 0 .. size /\ size' = size - n
            /\ \A k \in 1 .. n : reader.data[k] = There(k)
            /\ \A k \in 1 .. size' : There(k)' = There(n + k)
            /\ UNCHANGED <<buffer, write, writer>>
<1> DEFINE n == Len(reader.data)
<1>1. reader.at = "store" /\ reader.from = read /\ n \in 0 .. size
      /\ size \in 0 .. capacity /\ size = Used(write, read)
      /\ write \in 0 .. capacity /\ read \in 0 .. capacity
  BY SMTT(30), SizeType, SlotsPositive DEF RingInv, RingType, ReaderInv, EndRead, size
<1>2. reader' = Idle /\ read' = (read + n) % Slots /\ UNCHANGED <<buffer, write, writer>>
  BY <1>1 DEF EndRead
<1>3. size' = size - n
  BY <1>1, <1>2, StoreRead DEF size
<1>4. n \in 0 .. Slots /\ read' = (IF read + n < Slots THEN read + n ELSE read + n - Slots)
      /\ read' \in 0 .. capacity
  <2>1. n \in 0 .. Slots
    BY <1>1, SlotsPositive
  <2> QED
    BY <1>1, <1>2, <2>1, Advance
<1>5. ASSUME NEW k \in 1 .. size' PROVE There(k)' = There(n + k)
  <2>1. k - 1 \in 0 .. Slots /\ n + k - 1 \in 0 .. Slots
    BY <1>1, <1>3, SlotsPositive
  <2>2. (read' + (k - 1)) % Slots = IF read' + (k - 1) < Slots THEN read' + (k - 1)
                                     ELSE read' + (k - 1) - Slots
    BY <1>4, <2>1, Advance
  <2>3. (read + (n + k - 1)) % Slots = IF read + (n + k - 1) < Slots THEN read + (n + k - 1)
                                        ELSE read + (n + k - 1) - Slots
    BY <1>1, <2>1, Advance
  <2>4. (read' + (k - 1)) % Slots = (read + (n + k - 1)) % Slots
    <3> DEFINE v == (read' + (k - 1)) % Slots
               x == (read + (n + k - 1)) % Slots
    <3>1. v = IF read' + (k - 1) < Slots THEN read' + (k - 1) ELSE read' + (k - 1) - Slots
      BY <2>2
    <3>2. x = IF read + (n + k - 1) < Slots THEN read + (n + k - 1)
              ELSE read + (n + k - 1) - Slots
      BY <2>3
    <3>3. k \in Nat /\ k <= size - n /\ size - n \in Nat
      BY <1>1, <1>3, SlotsPositive
    <3> HIDE DEF v, x, n
    <3>4. v = x
      BY <1>1, <1>4, <3>1, <3>2, <3>3, SlotsPositive
    <3> QED
      BY <3>4 DEF v, x, n
  <2> QED
    BY <1>2, <2>4 DEF There
<1>6. \A k \in 1 .. n : reader.data[k] = There(k)
  BY <1>1 DEF RingInv, ReaderInv, There
<1>7. RingType'
  BY <1>2, <1>4, SlotsPositive DEF RingInv, RingType, Idle, Calls
<1>8. ReaderInv'
  BY <1>2 DEF ReaderInv, Idle
<1>9. WriterInv'
  <2>1. space' = space + n
    BY SMTT(30), <1>1, <1>3, SlotsPositive DEF space
  <2>2. space \in Nat /\ Len(writer.data) \in Nat
    BY SizeType, SlotsPositive DEF RingInv, RingType
  <2> QED
    BY <1>1, <1>2, <2>1, <2>2 DEF RingInv, WriterInv
<1> QED
  BY <1>1, <1>2, <1>3, <1>5, <1>6, <1>7, <1>8, <1>9 DEF RingInv

LEMMA ClearRingKeeps ==
  ASSUME RingInv, ClearRing
  PROVE  RingInv' /\ writer' = Idle /\ reader' = Idle /\ size' = 0
<1>1. writer' = Idle /\ reader' = Idle /\ read' = write /\ UNCHANGED <<buffer, write>>
  BY DEF ClearRing
<1>2. size' = 0
  BY <1>1, UsedIs, SlotsPositive DEF RingInv, RingType, size
<1>3. RingType'
  BY <1>1, SlotsPositive DEF RingInv, RingType, Idle, Calls
<1> QED
  BY <1>1, <1>2, <1>3 DEF RingInv, WriterInv, ReaderInv, Idle

-----------------------------------------------------------------------------
(* The threads and the burst.                                              *)

TypeInv ==
    /\ pending \in BOOLEAN /\ active \in BOOLEAN /\ source \in BOOLEAN
    /\ running \in BOOLEAN /\ stop \in BOOLEAN /\ tx_running \in BOOLEAN /\ tx_stop \in BOOLEAN
    /\ dsp \in {"none", "top", "pull", "write", "gone", "lost"}
    /\ tx \in {"none", "top", "read", "send", "end", "gone"}
    /\ ui \in {"idle", "join_dsp", "stop_tx", "join_tx", "joined", "dead"}
    /\ call \in {"none", "finished", "stopped", "other", "reconnect"}
    /\ ended \in {"never", "whole", "cut", "stopped", "failed"}
    /\ torn \in BOOLEAN /\ short \in BOOLEAN

NumberInv ==
    /\ iq \in {0, Length} /\ pos \in 0 .. Length /\ pos <= iq
    /\ burst \in {0, 1} /\ handed \in 0 .. Length

BlockInv ==
    /\ output \in Seq(Samples) /\ Len(output) <= Block
    /\ block \in Seq(Samples \cup {0}) /\ Len(block) <= TxBlock
    /\ reader.at # "idle" => Len(reader.data) <= TxBlock

\* A call stops the model's thread before the radio's, and whoever starts the
\* two finds neither; each thread is alone in its half of the ring.
ThreadInv ==
    /\ running <=> (dsp # "none")
    /\ tx # "none" => running \/ ui \in {"stop_tx", "join_tx"}
    /\ ui \in {"joined", "dead"} => tx = "none"
    /\ ui \in {"stop_tx", "join_tx", "joined"} /\ call # "reconnect" => dsp = "none"
    /\ ui = "join_dsp" => call # "reconnect"
    /\ ui = "dead" <=> (dsp = "lost")
    /\ writer.at # "idle" => dsp \in {"write", "lost"}
    /\ reader.at # "idle" => tx = "read"

\* The samples are there exactly while they are the source, and on the air.
SourceInv == (active <=> source) /\ (source <=> (iq = Length))

\* A block that was pulled has its place in the ring.
RoomInv ==
    dsp = "write" => IF writer.at = "idle" THEN Len(output) <= space ELSE writer.data = output

\* While the radio sends, the block in its hand, the ring and the block in the
\* DSP thread's hand are one stretch of the burst, from where send() has got to.
Sent == handed + (IF tx = "send" THEN Len(block) ELSE 0)
InHand == IF dsp = "write" THEN Len(output) ELSE 0

OrderInv == tx \in {"top", "read", "send"} =>
    /\ tx = "send" => \A k \in 1 .. Len(block) : block[k] = Sample(handed + k)
    /\ \A k \in 1 .. size : There(k) = Sample(Sent + k)
    /\ dsp = "write" => \A k \in 1 .. Len(output) : output[k] = Sample(Sent + size + k)
    /\ Sent + size <= Length
    /\ dsp \in {"top", "pull", "write"} => pos = Sent + size + InHand

IInv ==
    /\ TypeInv /\ NumberInv /\ BlockInv /\ RingInv /\ ThreadInv /\ SourceInv /\ RoomInv
    /\ OrderInv /\ SentInOrder

LEMMA SampleType ==
  ASSUME burst \in {0, 1}, NEW k \in 1 .. Length PROVE Sample(k) \in Samples
<1>1. CASE burst = 0
  BY <1>1, LengthAssumption DEF Sample, Samples
<1>2. CASE burst = 1
  BY <1>2, LengthAssumption DEF Sample, Samples
<1> QED
  BY <1>1, <1>2

LEMMA RingUnchanged ==
  ASSUME RingInv, UNCHANGED ring
  PROVE  /\ RingInv' /\ size' = size /\ space' = space
         /\ \A k : There(k)' = There(k)
         /\ writer' = writer /\ reader' = reader
BY DEF ring, RingInv, RingType, WriterInv, ReaderInv, size, space, There

\* Steps that leave the ring alone and the radio's thread as far as it was keep
\* what the burst's samples say, unless the DSP thread goes on.
LEMMA OrderUnchanged ==
  ASSUME RingInv, OrderInv, UNCHANGED <<ring, tx, block, burst, handed, torn>>, SentInOrder,
         \/ dsp' \in {"none", "gone", "lost"}
         \/ UNCHANGED <<dsp, pos, output>>
         \/ dsp # "write" /\ dsp' = "pull" /\ UNCHANGED <<pos, output>> /\ dsp \in {"top", "pull"}
  PROVE  OrderInv' /\ SentInOrder'
<1>1. size' = size /\ \A k : There(k)' = There(k)
  BY RingUnchanged
<1> QED
  BY <1>1 DEF OrderInv, Sent, InHand, Sample, SentInOrder

-----------------------------------------------------------------------------
(* The steps of the connection, and of the user interface.                 *)

LEMMA RequestKeeps == ASSUME IInv, Request PROVE IInv'
<1> USE DEF IInv, morse, model, radio, caller, history
<1>1. RingInv' /\ size' = size /\ space' = space /\ writer' = writer /\ reader' = reader
  BY RingUnchanged DEF Request
<1>2. TypeInv'
  BY DEF Request, TypeInv
<1>3. SourceInv'
  BY DEF Request, SourceInv
<1>4. NumberInv' /\ BlockInv' /\ RoomInv'
  BY <1>1 DEF Request, NumberInv, BlockInv, RoomInv
<1>5. ThreadInv'
  BY <1>1 DEF Request, TypeInv, ThreadInv
<1>6. OrderInv' /\ SentInOrder'
  BY OrderUnchanged DEF Request
<1> QED
  BY <1>1, <1>2, <1>3, <1>4, <1>5, <1>6

LEMMA TickEndsKeeps == ASSUME IInv, TickEnds PROVE IInv'
<1> USE DEF IInv, morse, model, radio, caller, history
<1>1. RingInv' /\ size' = size /\ space' = space /\ writer' = writer /\ reader' = reader
  BY RingUnchanged DEF TickEnds, Stop
<1>2. TypeInv'
  <2>1. stop' \in BOOLEAN
    BY DEF TickEnds, Stop, TypeInv
  <2> QED
    BY <2>1 DEF TickEnds, Stop, TypeInv
<1>3. SourceInv'
  BY DEF TickEnds, Stop, SourceInv
<1>4. NumberInv' /\ BlockInv' /\ RoomInv'
  BY <1>1 DEF TickEnds, Stop, NumberInv, BlockInv, RoomInv
<1>5. ThreadInv'
  BY <1>1 DEF TickEnds, Stop, TypeInv, ThreadInv
<1>6. OrderInv' /\ SentInOrder'
  BY OrderUnchanged DEF TickEnds, Stop
<1> QED
  BY <1>1, <1>2, <1>3, <1>4, <1>5, <1>6

LEMMA OtherStopsKeeps == ASSUME IInv, OtherStops PROVE IInv'
<1> USE DEF IInv, morse, model, radio, caller, history
<1>1. RingInv' /\ size' = size /\ space' = space /\ writer' = writer /\ reader' = reader
  BY RingUnchanged DEF OtherStops, Stop
<1>2. TypeInv'
  <2>1. stop' \in BOOLEAN
    BY DEF OtherStops, Stop, TypeInv
  <2> QED
    BY <2>1 DEF OtherStops, Stop, TypeInv
<1>3. SourceInv'
  BY DEF OtherStops, Stop, SourceInv
<1>4. NumberInv' /\ BlockInv' /\ RoomInv'
  BY <1>1 DEF OtherStops, Stop, NumberInv, BlockInv, RoomInv
<1>5. ThreadInv'
  BY <1>1 DEF OtherStops, Stop, TypeInv, ThreadInv
<1>6. OrderInv' /\ SentInOrder'
  BY OrderUnchanged DEF OtherStops, Stop
<1> QED
  BY <1>1, <1>2, <1>3, <1>4, <1>5, <1>6

LEMMA ReconnectKeeps == ASSUME IInv, Reconnect PROVE IInv'
<1> USE DEF IInv, morse, model, radio, caller, history
<1>1. RingInv' /\ size' = size /\ space' = space /\ writer' = writer /\ reader' = reader
  BY RingUnchanged DEF Reconnect
<1>2. TypeInv'
  BY DEF Reconnect, TypeInv
<1>3. SourceInv'
  BY DEF Reconnect, SourceInv
<1>4. NumberInv' /\ BlockInv' /\ RoomInv'
  BY <1>1 DEF Reconnect, NumberInv, BlockInv, RoomInv
<1>5. ThreadInv'
  BY <1>1 DEF Reconnect, TypeInv, ThreadInv
<1>6. OrderInv' /\ SentInOrder'
  BY OrderUnchanged DEF Reconnect
<1> QED
  BY <1>1, <1>2, <1>3, <1>4, <1>5, <1>6

LEMMA JoinDspKeeps == ASSUME IInv, JoinDsp PROVE IInv'
<1> USE DEF IInv, morse, model, radio, caller, history
<1>1. RingInv' /\ size' = size /\ space' = space /\ writer' = writer /\ reader' = reader
  BY RingUnchanged DEF JoinDsp
<1>2. TypeInv'
  <2>1. running' \in BOOLEAN
    BY DEF JoinDsp, TypeInv
  <2> QED
    BY <2>1 DEF JoinDsp, TypeInv
<1>3. SourceInv'
  BY DEF JoinDsp, SourceInv
<1>4. NumberInv' /\ BlockInv' /\ RoomInv'
  <2>1. <<>> \in Seq(Samples) /\ Len(<<>>) <= Block
    BY SlotsPositive, BlockAssumption
  <2> QED
    BY <1>1, <2>1 DEF JoinDsp, NumberInv, BlockInv, RoomInv
<1>5. ThreadInv'
  BY <1>1 DEF JoinDsp, TypeInv, ThreadInv
<1>6. OrderInv' /\ SentInOrder'
  BY OrderUnchanged DEF JoinDsp
<1> QED
  BY <1>1, <1>2, <1>3, <1>4, <1>5, <1>6

LEMMA StopTxKeeps == ASSUME IInv, StopTx PROVE IInv'
<1> USE DEF IInv, morse, model, radio, caller, history
<1>1. RingInv' /\ size' = size /\ space' = space /\ writer' = writer /\ reader' = reader
  BY RingUnchanged DEF StopTx
<1>2. TypeInv'
  <2>1. tx_stop' \in BOOLEAN
    BY DEF StopTx, TypeInv
  <2> QED
    BY <2>1 DEF StopTx, TypeInv
<1>3. SourceInv'
  BY DEF StopTx, SourceInv
<1>4. NumberInv' /\ BlockInv' /\ RoomInv'
  BY <1>1 DEF StopTx, NumberInv, BlockInv, RoomInv
<1>5. ThreadInv'
  BY <1>1 DEF StopTx, TypeInv, ThreadInv
<1>6. OrderInv' /\ SentInOrder'
  BY OrderUnchanged DEF StopTx
<1> QED
  BY <1>1, <1>2, <1>3, <1>4, <1>5, <1>6

LEMMA JoinTxKeeps == ASSUME IInv, JoinTx PROVE IInv'
<1> USE DEF IInv, morse, model, radio, caller, history
<1>1. RingInv' /\ size' = size /\ space' = space /\ writer' = writer /\ reader' = reader
  BY RingUnchanged DEF JoinTx
<1>2. TypeInv'
  <2>1. tx_running' \in BOOLEAN
    BY DEF JoinTx, TypeInv
  <2> QED
    BY <2>1 DEF JoinTx, TypeInv
<1>3. SourceInv'
  BY DEF JoinTx, SourceInv
<1>4. NumberInv' /\ BlockInv' /\ RoomInv'
  BY <1>1 DEF JoinTx, NumberInv, BlockInv, RoomInv
<1>5. ThreadInv'
  BY <1>1 DEF JoinTx, TypeInv, ThreadInv
<1>6. OrderInv' /\ SentInOrder'
  BY DEF JoinTx, OrderInv, SentInOrder
<1> QED
  BY <1>1, <1>2, <1>3, <1>4, <1>5, <1>6

LEMMA BurstOverKeeps == ASSUME IInv, BurstOver PROVE IInv'
<1> USE DEF IInv, morse, model, radio, caller, history
<1>1. RingInv' /\ size' = size /\ space' = space /\ writer' = writer /\ reader' = reader
  BY RingUnchanged DEF BurstOver
<1>2. TypeInv'
  BY ZenonT(40) DEF BurstOver, TypeInv
<1>3. SourceInv'
  BY LengthAssumption DEF BurstOver, SourceInv
<1>4. NumberInv' /\ BlockInv' /\ RoomInv'
  <2>1. dsp = "none"
    BY DEF BurstOver, ThreadInv
  <2> QED
    BY <1>1, <2>1, LengthAssumption DEF BurstOver, NumberInv, BlockInv, RoomInv
<1>5. ThreadInv'
  BY <1>1 DEF BurstOver, TypeInv, ThreadInv
<1>6. OrderInv' /\ SentInOrder'
  BY DEF BurstOver, ThreadInv, OrderInv, SentInOrder
<1> QED
  BY <1>1, <1>2, <1>3, <1>4, <1>5, <1>6

LEMMA StopOverKeeps == ASSUME IInv, StopOver PROVE IInv'
<1> USE DEF IInv, morse, model, radio, caller, history
<1>1. RingInv' /\ size' = size /\ space' = space /\ writer' = writer /\ reader' = reader
  BY RingUnchanged DEF StopOver
<1>2. TypeInv'
  BY DEF StopOver, TypeInv
<1>3. SourceInv'
  BY DEF StopOver, SourceInv
<1>4. NumberInv' /\ BlockInv' /\ RoomInv'
  BY <1>1 DEF StopOver, NumberInv, BlockInv, RoomInv
<1>5. ThreadInv'
  BY <1>1 DEF StopOver, TypeInv, ThreadInv
<1>6. OrderInv' /\ SentInOrder'
  BY OrderUnchanged DEF StopOver
<1> QED
  BY <1>1, <1>2, <1>3, <1>4, <1>5, <1>6

-----------------------------------------------------------------------------
(* The steps of the two threads that leave the ring alone.                 *)

LEMMA DspHeadKeeps == ASSUME IInv, DspHead PROVE IInv'
<1> USE DEF IInv, morse, model, radio, caller, history
<1>1. RingInv' /\ size' = size /\ space' = space /\ writer' = writer /\ reader' = reader
  BY RingUnchanged DEF DspHead
<1>2. TypeInv'
  BY DEF DspHead, TypeInv
<1>3. SourceInv'
  BY DEF DspHead, SourceInv
<1>4. NumberInv' /\ BlockInv' /\ RoomInv'
  BY <1>1 DEF DspHead, NumberInv, BlockInv, RoomInv
<1>5. ThreadInv'
  BY <1>1 DEF DspHead, TypeInv, ThreadInv
<1>6. OrderInv' /\ SentInOrder'
  BY OrderUnchanged DEF DspHead
<1> QED
  BY <1>1, <1>2, <1>3, <1>4, <1>5, <1>6

LEMMA EndTxKeeps == ASSUME IInv, EndTx PROVE IInv'
<1> USE DEF IInv, morse, model, radio, caller, history
<1>1. RingInv' /\ size' = size /\ space' = space /\ writer' = writer /\ reader' = reader
  BY RingUnchanged DEF EndTx
<1>2. TypeInv'
  <2>1. tx_running' \in BOOLEAN
    BY DEF EndTx, TypeInv
  <2> QED
    BY <2>1 DEF EndTx, TypeInv
<1>3. SourceInv'
  BY DEF EndTx, SourceInv
<1>4. NumberInv' /\ BlockInv' /\ RoomInv'
  BY <1>1 DEF EndTx, NumberInv, BlockInv, RoomInv
<1>5. ThreadInv'
  BY <1>1 DEF EndTx, TypeInv, ThreadInv
<1>6. OrderInv' /\ SentInOrder'
  BY DEF EndTx, OrderInv, SentInOrder
<1> QED
  BY <1>1, <1>2, <1>3, <1>4, <1>5, <1>6

LEMMA SendKeeps == ASSUME IInv, Send PROVE IInv'
<1> USE DEF IInv, morse, model, radio, caller, history
<1>1. RingInv' /\ size' = size /\ space' = space /\ writer' = writer /\ reader' = reader
  BY RingUnchanged DEF Send
<1>2. \A k : There(k)' = There(k)
  BY RingUnchanged DEF Send
<1>3. TypeInv' /\ SourceInv'
  <2>1. torn' \in BOOLEAN /\ short' \in BOOLEAN
    BY DEF Send, TypeInv
  <2>2. SourceInv'
    BY DEF Send, SourceInv
  <2> QED
    BY <2>1, <2>2 DEF Send, TypeInv
<1>4. handed' \in 0 .. Length
  <2>1. Len(block) \in Nat
    BY DEF BlockInv
  <2>2. handed' = handed \/ handed' = Smaller(Length, handed + Len(block))
    BY DEF Send
  <2> QED
    BY <2>1, <2>2, LengthAssumption DEF NumberInv, Smaller
<1>5. NumberInv' /\ BlockInv' /\ RoomInv'
  BY <1>1, <1>4 DEF Send, NumberInv, BlockInv, RoomInv
<1>6. ThreadInv'
  BY <1>1 DEF Send, TypeInv, ThreadInv
<1>7. CASE tx' = "end"
  <2>1. torn' = torn
    BY <1>7 DEF Send
  <2>2. SentInOrder'
    BY <2>1 DEF SentInOrder
  <2>3. OrderInv'
    BY <1>7 DEF OrderInv
  <2> QED
    BY <1>1, <1>3, <1>5, <1>6, <2>2, <2>3
<1>8. CASE tx' = "top"
  <2>1. /\ tx = "send" /\ Len(block) \in Nat /\ size \in Nat /\ handed \in Nat
        /\ DOMAIN block = 1 .. Len(block)
    BY SizeType, SlotsPositive DEF Send, BlockInv, NumberInv, RingInv
  <2>2. Sent = handed + Len(block) /\ Sent + size <= Length
    BY <2>1 DEF Sent, OrderInv
  <2>3. handed' = handed + Len(block)
    BY <1>8, <2>1, <2>2, LengthAssumption DEF Send, Smaller
  <2>4. SentInOrder'
    <3>1. torn' = (torn \/ \E k \in DOMAIN block : block[k] # Sample(handed + k))
      BY <1>8 DEF Send
    <3>2. ~\E k \in DOMAIN block : block[k] # Sample(handed + k)
      BY <2>1 DEF OrderInv
    <3> QED
      BY <3>1, <3>2 DEF SentInOrder
  <2>5. Sent' = Sent
    BY <1>8, <2>2, <2>3 DEF Sent
  <2>6. OrderInv'
    BY <1>1, <1>2, <1>8, <2>1, <2>5 DEF Send, OrderInv, InHand, Sample
  <2> QED
    BY <1>1, <1>3, <1>5, <1>6, <2>4, <2>6
<1> QED
  BY <1>1, <1>3, <1>5, <1>6, <1>7, <1>8 DEF Send

LEMMA PullKeeps == ASSUME IInv, Pull PROVE IInv'
<1> USE DEF IInv, morse, model, radio, caller, history
<1> DEFINE got == IF source THEN Smaller(Smaller(Block, space), iq - pos) ELSE 0
<1>1. /\ RingInv' /\ size' = size /\ space' = space /\ writer' = writer /\ reader' = reader
      /\ \A k : There(k)' = There(k)
  BY RingUnchanged DEF Pull
<1>2. /\ dsp = "pull" /\ output' = [k \in 1 .. got |-> Sample(pos + k)] /\ pos' = pos + got
      /\ dsp' = IF got = 0 THEN "top" ELSE "write"
  BY DEF Pull
<1>3. space \in Nat /\ size \in Nat /\ pos \in Nat /\ iq \in Nat /\ Length \in Nat /\ Block \in Nat
  <2>1. size \in 0 .. capacity /\ space = capacity - size /\ capacity \in Nat
    BY SizeType, SlotsPositive DEF RingInv
  <2>2. Length \in Nat /\ Block \in Nat
    BY SlotsPositive, BlockAssumption, LengthAssumption
  <2>3. pos \in Nat /\ iq \in Nat
    BY <2>2 DEF NumberInv
  <2> QED
    BY <2>1, <2>2, <2>3
<1>4. got \in Nat /\ got <= Block /\ got <= space /\ pos + got <= iq /\ iq <= Length
  BY <1>3 DEF NumberInv, Smaller
<1> HIDE DEF got
<1>5. \A k \in 1 .. got : pos + k \in 1 .. Length
  BY <1>3, <1>4
<1>6. output' \in Seq(Samples) /\ Len(output') = got
  <2>1. \A k \in 1 .. got : Sample(pos + k) \in Samples
    BY <1>5, SampleType DEF NumberInv
  <2> QED
    BY <1>2, <1>4, <2>1
<1>7. TypeInv' /\ SourceInv'
  BY <1>2 DEF Pull, TypeInv, SourceInv
<1>8. NumberInv'
  BY <1>2, <1>3, <1>4 DEF Pull, NumberInv
<1>9. BlockInv' /\ RoomInv'
  BY <1>1, <1>2, <1>4, <1>6 DEF Pull, BlockInv, RoomInv, ThreadInv
<1>10. ThreadInv'
  BY <1>1, <1>2 DEF Pull, TypeInv, ThreadInv
<1>11. OrderInv' /\ SentInOrder'
  <2>1. Sent' = Sent /\ UNCHANGED <<tx, block, handed, burst, torn>>
    BY DEF Pull, Sent
  <2>2. tx \in {"top", "read", "send"} => pos = Sent + size /\ Sent \in Nat
    BY <1>2, <1>3 DEF OrderInv, InHand, Sent, NumberInv, BlockInv
  <2>3. InHand' = got
    BY <1>2, <1>4, <1>6 DEF InHand
  <2>4. \A k \in 1 .. got : output'[k] = Sample(pos + k)
    BY <1>2
  <2> QED
    BY <1>1, <1>2, <1>3, <1>4, <1>6, <2>1, <2>2, <2>3, <2>4 DEF OrderInv, SentInOrder, NumberInv, Sample
<1> QED
  BY <1>1, <1>7, <1>8, <1>9, <1>10, <1>11

-----------------------------------------------------------------------------
(* The steps at the ring.                                                  *)

LEMMA WriteKeeps == ASSUME IInv, Write PROVE IInv'
<1> USE DEF IInv, morse, model, radio, caller, history
<1>1. dsp = "write" /\ UNCHANGED <<morse, source, running, stop, output, radio, caller, history>>
  BY DEF Write
<1>2. TypeInv' /\ NumberInv' /\ SourceInv' /\ SentInOrder' /\ Sent' = Sent
  <2>1. dsp' \in {"write", "top"}
    BY DEF Write
  <2> QED
    BY <1>1, <2>1 DEF TypeInv, NumberInv, SourceInv, SentInOrder, Sent
<1>3. CASE BeginWrite(output) /\ UNCHANGED dsp
  <2>1. /\ RingInv' /\ writer'.at = "copy" /\ writer'.data = output
        /\ UNCHANGED <<buffer, write, read, reader>>
    BY <1>1, <1>3, BeginWriteKeeps DEF BeginWrite, BlockInv, RoomInv
  <2>2. size' = size /\ \A k : There(k)' = There(k)
    BY <2>1 DEF size, There
  <2>3. BlockInv' /\ RoomInv' /\ ThreadInv'
    BY <1>1, <1>3, <2>1 DEF BlockInv, RoomInv, ThreadInv
  <2>4. OrderInv'
    BY <1>1, <1>2, <1>3, <2>2 DEF OrderInv, InHand, Sample
  <2> QED
    BY <1>2, <2>1, <2>3, <2>4
<1>4. CASE CopyIn /\ UNCHANGED dsp
  <2>1. /\ RingInv' /\ Kept /\ writer'.at = "store" /\ writer'.data = writer.data
        /\ UNCHANGED <<write, read, reader>>
    BY <1>4, CopyInKeeps
  <2>2. size' = size
    BY <2>1 DEF size
  <2>3. BlockInv' /\ RoomInv' /\ ThreadInv'
    BY <1>1, <1>4, <2>1 DEF CopyIn, BlockInv, RoomInv, ThreadInv
  <2>4. OrderInv'
    BY <1>1, <1>2, <1>4, <2>1, <2>2 DEF OrderInv, InHand, Sample, Kept
  <2> QED
    BY <1>2, <2>1, <2>3, <2>4
<1>5. CASE EndWrite /\ dsp' = "top"
  <2>1. writer.data = output
    BY <1>1, <1>5 DEF RoomInv, EndWrite
  <2>2. /\ RingInv' /\ writer' = Idle /\ reader' = reader
        /\ Len(output) \in 0 .. (capacity - size) /\ size' = size + Len(output)
        /\ Kept /\ (\A k \in 1 .. Len(output) : There(size + k) = output[k])
        /\ UNCHANGED <<buffer, read>>
    BY <1>5, <2>1, EndWriteKeeps
  <2>3. BlockInv' /\ RoomInv' /\ ThreadInv'
    BY <1>1, <1>5, <2>2 DEF BlockInv, RoomInv, ThreadInv, Idle
  <2>4. OrderInv'
    <3>1. size \in Nat /\ Len(output) \in Nat /\ Sent \in Nat
      BY SizeType, SlotsPositive DEF RingInv, BlockInv, NumberInv, Sent
    <3>2. \A k : There(k)' = There(k)
      BY <2>2 DEF There
    <3>3. ASSUME tx \in {"top", "read", "send"}, NEW k \in 1 .. size'
          PROVE  There(k)' = Sample(Sent + k)'
      <4>1. CASE k <= size
        <5>1. k \in 1 .. size
          BY <2>2, <3>1, <3>3, <4>1
        <5>2. There(k) = Sample(Sent + k)
          BY <1>1, <3>3, <5>1 DEF OrderInv
        <5> QED
          BY <1>1, <1>2, <3>2, <5>2 DEF Sample, history
      <4>2. CASE k > size
        <5>1. k - size \in 1 .. Len(output) /\ size + (k - size) = k
              /\ Sent + size + (k - size) = Sent + k
          BY <2>2, <3>1, <3>3, <4>2
        <5>2. There(k) = Sample(Sent + k)
          BY <1>1, <2>2, <3>3, <5>1 DEF OrderInv
        <5> QED
          BY <1>1, <3>2, <5>2, <1>2 DEF Sample
      <4> QED
        BY <3>1, <2>2, <4>1, <4>2
    <3>4. InHand' = 0 /\ InHand = Len(output)
      BY <1>1, <1>5 DEF InHand
    <3>5. tx \in {"top", "read", "send"} => pos = Sent + size + Len(output) /\ pos <= Length
      BY <1>1, <3>4 DEF OrderInv, NumberInv
    <3> QED
      BY <1>1, <1>2, <1>5, <2>2, <3>1, <3>3, <3>4, <3>5 DEF OrderInv, Sample, NumberInv
  <2> QED
    BY <1>2, <2>2, <2>3, <2>4
<1> QED
  BY <1>3, <1>4, <1>5 DEF Write

LEMMA TxHeadKeeps == ASSUME IInv, TxHead PROVE IInv'
<1> USE DEF IInv, morse, model, radio, caller, history
<1>1. tx = "top" /\ UNCHANGED <<morse, model, tx_running, tx_stop, block, caller, history>>
  BY DEF TxHead
<1>2. TypeInv' /\ NumberInv' /\ SourceInv' /\ SentInOrder'
  <2>1. tx' \in {"end", "read"}
    BY DEF TxHead
  <2> QED
    BY <1>1, <2>1 DEF TypeInv, NumberInv, SourceInv, SentInOrder
<1>3. CASE tx' = "end" /\ UNCHANGED ring
  <2>1. RingInv' /\ size' = size /\ space' = space /\ writer' = writer /\ reader' = reader
    BY <1>3, RingUnchanged
  <2>2. BlockInv' /\ RoomInv' /\ ThreadInv'
    BY <1>1, <1>3, <2>1 DEF BlockInv, RoomInv, ThreadInv
  <2>3. OrderInv'
    BY <1>3 DEF OrderInv
  <2> QED
    BY <1>2, <2>1, <2>2, <2>3
<1>4. CASE tx' = "read" /\ BeginRead(TxBlock)
  <2>1. TxBlock \in Nat
    BY TxBlockAssumption
  <2>2. /\ RingInv' /\ Len(reader'.data) \in 0 .. TxBlock /\ reader'.at = "copy"
        /\ UNCHANGED <<buffer, write, read, writer>>
    BY <1>4, <2>1, BeginReadKeeps
  <2>3. size' = size /\ space' = space /\ \A k : There(k)' = There(k)
    BY <2>2 DEF size, space, There
  <2>4. BlockInv' /\ RoomInv' /\ ThreadInv'
    BY <1>1, <1>4, <2>2, <2>3 DEF BlockInv, RoomInv, ThreadInv
  <2>5. Sent' = Sent
    BY <1>1, <1>4 DEF Sent
  <2>6. OrderInv'
    BY <1>1, <1>4, <2>3, <2>5 DEF OrderInv, InHand, Sample
  <2> QED
    BY <1>2, <2>2, <2>4, <2>6
<1> QED
  BY <1>3, <1>4 DEF TxHead

LEMMA ReadKeeps == ASSUME IInv, Read PROVE IInv'
<1> USE DEF IInv, morse, model, radio, caller, history
<1>1. tx = "read" /\ UNCHANGED <<morse, model, tx_running, tx_stop, caller, history>>
  BY DEF Read
<1>2. TypeInv' /\ NumberInv' /\ SourceInv' /\ SentInOrder'
  <2>1. tx' \in {"read", "send"}
    BY DEF Read
  <2> QED
    BY <1>1, <2>1 DEF TypeInv, NumberInv, SourceInv, SentInOrder
<1>3. CASE CopyOut /\ UNCHANGED <<tx, block>>
  <2>1. /\ RingInv' /\ Len(reader'.data) = Len(reader.data) /\ reader'.at = "store"
        /\ UNCHANGED <<buffer, write, read, writer>>
    BY <1>3, CopyOutKeeps
  <2>2. size' = size /\ space' = space /\ \A k : There(k)' = There(k)
    BY <2>1 DEF size, space, There
  <2>3. BlockInv' /\ RoomInv' /\ ThreadInv'
    BY <1>1, <1>3, <2>1, <2>2 DEF CopyOut, BlockInv, RoomInv, ThreadInv
  <2>4. OrderInv'
    BY <1>1, <1>3, <2>2 DEF OrderInv, Sent, InHand, Sample
  <2> QED
    BY <1>2, <2>1, <2>3, <2>4
<1>4. CASE EndRead /\ tx' = "send" /\ block' = reader.data
  <2> DEFINE n == Len(reader.data)
  <2>1. /\ RingInv' /\ reader' = Idle /\ n \in 0 .. size /\ size' = size - n
        /\ (\A k \in 1 .. n : reader.data[k] = There(k))
        /\ (\A k \in 1 .. size' : There(k)' = There(n + k))
        /\ UNCHANGED <<buffer, write, writer>>
    BY <1>4, EndReadKeeps
  <2>2. size \in Nat /\ capacity \in Nat /\ handed \in Nat /\ reader.at = "store"
    BY <1>4, SizeType, SlotsPositive DEF RingInv, NumberInv, EndRead
  <2>3. space' = space + n /\ space \in Nat
    BY <2>1, <2>2, SizeType, SlotsPositive DEF space, RingInv
  <2>4. BlockInv'
    BY <1>1, <1>4, <2>1, <2>2 DEF BlockInv, Idle, RingInv, RingType
  <2>5. RoomInv'
    BY <1>1, <2>1, <2>2, <2>3 DEF RoomInv, BlockInv
  <2>6. ThreadInv'
    BY <1>1, <1>4, <2>1 DEF ThreadInv, Idle
  <2>7. Sent = handed /\ Sent' = handed + n
    BY <1>1, <1>4, <2>2 DEF Sent
  <2>8. ASSUME NEW k \in 1 .. n PROVE block'[k] = Sample(handed + k)
    <3>1. k \in 1 .. size
      BY <2>1, <2>2
    <3> QED
      BY <1>1, <1>4, <2>1, <2>7, <3>1 DEF OrderInv
  <2>9. ASSUME NEW k \in 1 .. size' PROVE There(k)' = Sample(Sent' + k)
    <3>1. n + k \in 1 .. size /\ Sent + (n + k) = Sent' + k
      <4>1. n \in Nat /\ n <= size /\ size' = size - n /\ k \in Nat /\ 1 <= k /\ k <= size'
        BY <2>1, <2>2
      <4> HIDE DEF n
      <4>2. n + k \in 1 .. size
        BY <2>2, <4>1
      <4>3. handed + (n + k) = (handed + n) + k
        BY <2>2, <4>1
      <4> QED
        BY <2>7, <4>2, <4>3
    <3>2. There(n + k) = Sample(Sent + (n + k))
      BY <1>1, <3>1 DEF OrderInv
    <3> QED
      BY <2>1, <3>1, <3>2
  <2>10. Sent' + size' = Sent + size
    <3>1. n \in Nat /\ size' = size - n
      BY <2>1, <2>2
    <3> HIDE DEF n
    <3>2. (handed + n) + (size - n) = handed + size
      BY <2>2, <3>1
    <3> QED
      BY <2>7, <3>1, <3>2
  <2>11. OrderInv'
    BY <1>1, <1>4, <2>8, <2>9, <2>10 DEF OrderInv, InHand, Sample
  <2> QED
    BY <1>2, <2>1, <2>4, <2>5, <2>6, <2>11
<1> QED
  BY <1>3, <1>4 DEF Read

\* Whoever clears the ring finds neither thread at it.
LEMMA TickBeginsKeeps == ASSUME IInv, TickBegins PROVE IInv'
<1> USE DEF IInv, morse, model, radio, caller, history
<1>1. ui = "idle" /\ ~active /\ pending /\ ~running /\ UNCHANGED caller
      /\ pending' = FALSE /\ pos' = 0
  BY DEF TickBegins
<1>2. dsp = "none" /\ tx = "none" /\ writer.at = "idle" /\ reader.at = "idle" /\ ~source
  BY <1>1 DEF ThreadInv, SourceInv
<1>3. CASE /\ iq' = 0 /\ source' = FALSE
           /\ UNCHANGED <<ring, active, running, stop, dsp, output, radio, history>>
  <2>1. RingInv' /\ size' = size /\ space' = space /\ writer' = writer /\ reader' = reader
    BY <1>3, RingUnchanged
  <2>2. TypeInv' /\ SourceInv'
    BY <1>1, <1>2, <1>3, LengthAssumption DEF TypeInv, SourceInv
  <2>3. NumberInv' /\ BlockInv' /\ RoomInv'
    BY <1>1, <1>2, <1>3, <2>1, LengthAssumption DEF NumberInv, BlockInv, RoomInv
  <2>4. ThreadInv'
    BY <1>1, <1>2, <1>3, <2>1 DEF ThreadInv
  <2>5. OrderInv' /\ SentInOrder'
    BY <1>2, <1>3 DEF OrderInv, SentInOrder
  <2> QED
    BY <2>1, <2>2, <2>3, <2>4, <2>5
<1>4. CASE /\ iq' = Length /\ source' = TRUE /\ active' = TRUE
           /\ StartTx
           /\ tx_stop' = FALSE /\ tx_running' = TRUE /\ tx' = "top"
           /\ stop' = FALSE /\ running' = TRUE /\ dsp' = "top" /\ output' = <<>>
           /\ burst' = 1 - burst /\ handed' = 0 /\ short' = FALSE /\ ended' = "never"
           /\ UNCHANGED <<block, torn>>
  <2>1. RingInv' /\ writer' = Idle /\ reader' = Idle /\ size' = 0
    BY <1>4, ClearRingKeeps DEF StartTx
  <2>2. TypeInv' /\ SourceInv'
    BY <1>1, <1>4 DEF TypeInv, SourceInv
  <2>3. NumberInv' /\ RoomInv'
    BY <1>1, <1>4, <2>1, LengthAssumption DEF NumberInv, RoomInv
  <2>4. BlockInv'
    <3>1. <<>> \in Seq(Samples) /\ Len(<<>>) <= Block
      BY SlotsPositive, BlockAssumption
    <3> QED
      BY <1>4, <2>1, <3>1 DEF BlockInv, Idle
  <2>5. ThreadInv'
    BY <1>1, <1>4, <2>1 DEF ThreadInv, Idle
  <2>6. OrderInv' /\ SentInOrder'
    <3>1. Sent' = 0 /\ InHand' = 0
      BY <1>4 DEF Sent, InHand
    <3> QED
      BY <1>1, <1>4, <2>1, <3>1, LengthAssumption DEF OrderInv, SentInOrder
  <2> QED
    BY <2>1, <2>2, <2>3, <2>4, <2>5, <2>6
<1> QED
  BY <1>3, <1>4 DEF TickBegins

LEMMA ReopenKeeps == ASSUME IInv, Reopen PROVE IInv'
<1> USE DEF IInv, morse, model, radio, caller, history
<1>1. ui = "joined" /\ UNCHANGED <<morse, source, running, stop, output, radio, history>>
  BY DEF Reopen
<1>2. tx = "none" /\ reader.at = "idle" /\ call = "reconnect"
  BY <1>1 DEF ThreadInv, Reopen
<1>3. TypeInv' /\ NumberInv' /\ SourceInv' /\ SentInOrder'
  <2>1. /\ ui' \in {"idle", "dead"} /\ call' \in {"none", "reconnect"}
        /\ dsp' \in {"none", "lost"}
    BY <1>2 DEF Reopen
  <2> QED
    BY <1>1, <2>1 DEF TypeInv, NumberInv, SourceInv, SentInOrder
<1>4. OrderInv'
  BY <1>1, <1>2 DEF OrderInv
<1>5. CASE dsp = "none" /\ ui' = "idle" /\ call' = "none" /\ StartTx /\ UNCHANGED dsp
  <2>1. RingInv' /\ writer' = Idle /\ reader' = Idle
    BY <1>5, ClearRingKeeps DEF StartTx
  <2>2. BlockInv' /\ RoomInv' /\ ThreadInv'
    BY <1>1, <1>2, <1>5, <2>1 DEF BlockInv, RoomInv, ThreadInv, Idle
  <2> QED
    BY <1>3, <1>4, <2>1, <2>2
<1>6. CASE dsp # "none" /\ ui' = "dead" /\ dsp' = "lost" /\ UNCHANGED <<ring, call>>
  <2>1. RingInv' /\ writer' = writer /\ reader' = reader
    BY <1>6, RingUnchanged
  <2>2. BlockInv' /\ RoomInv' /\ ThreadInv'
    BY <1>1, <1>2, <1>6, <2>1 DEF BlockInv, RoomInv, ThreadInv
  <2> QED
    BY <1>3, <1>4, <2>1, <2>2
<1> QED
  BY <1>5, <1>6 DEF Reopen

-----------------------------------------------------------------------------
(* The theorems.                                                           *)

LEMMA InitIInv == ASSUME Init PROVE IInv
<1> USE DEF Init
<1>1. RingInv /\ writer = Idle /\ reader = Idle
  BY InitRingKeeps
<1>2. <<>> \in Seq(Samples) /\ <<>> \in Seq(Samples \cup {0}) /\ Len(<<>>) = 0 /\ 0 <= Block /\ 0 <= TxBlock
  BY SlotsPositive, BlockAssumption, TxBlockAssumption
<1>3. TypeInv
  BY DEF TypeInv
<1>4. NumberInv /\ BlockInv
  BY <1>1, <1>2, LengthAssumption DEF NumberInv, BlockInv, Idle
<1>5. ThreadInv /\ SourceInv /\ RoomInv
  BY <1>1, LengthAssumption DEF ThreadInv, SourceInv, RoomInv, Idle
<1>6. OrderInv /\ SentInOrder
  BY DEF OrderInv, SentInOrder
<1> QED
  BY <1>1, <1>3, <1>4, <1>5, <1>6 DEF IInv

LEMMA NextStep == ASSUME IInv, [Next]_vars PROVE IInv'
<1>1. CASE Dsp
  BY <1>1, DspHeadKeeps, PullKeeps, WriteKeeps DEF Dsp
<1>2. CASE Tx
  BY <1>2, TxHeadKeeps, ReadKeeps, SendKeeps, EndTxKeeps DEF Tx
<1>3. CASE Tick
  BY <1>3, TickBeginsKeeps, TickEndsKeeps DEF Tick
<1>4. CASE Return
  BY <1>4, JoinDspKeeps, StopTxKeeps, JoinTxKeeps, BurstOverKeeps, StopOverKeeps, ReopenKeeps
     DEF Return
<1>5. CASE Request \/ OtherStops \/ Reconnect
  BY <1>5, RequestKeeps, OtherStopsKeeps, ReconnectKeeps
<1>6. CASE UNCHANGED vars
  <2> USE <1>6 DEF IInv, vars, morse, model, radio, caller, history
  <2>1. /\ RingInv' /\ size' = size /\ space' = space /\ writer' = writer /\ reader' = reader
        /\ \A k : There(k)' = There(k)
    BY RingUnchanged
  <2>2. TypeInv' /\ NumberInv' /\ SourceInv' /\ SentInOrder' /\ Sent' = Sent /\ InHand' = InHand
    BY DEF TypeInv, NumberInv, SourceInv, SentInOrder, Sent, InHand
  <2>3. BlockInv' /\ ThreadInv' /\ RoomInv'
    BY <2>1 DEF BlockInv, ThreadInv, RoomInv
  <2>4. OrderInv'
    BY <2>1, <2>2 DEF OrderInv, Sample
  <2> QED
    BY <2>1, <2>2, <2>3, <2>4
<1> QED
  BY <1>1, <1>2, <1>3, <1>4, <1>5, <1>6 DEF Next

(* The invariant the others follow from.                                   *)
THEOREM InductiveInvariant == Spec => []IInv
<1>1. Init => IInv
  BY InitIInv
<1>2. IInv /\ [Next]_vars => IInv'
  BY NextStep
<1> QED
  BY <1>1, <1>2, PTL DEF Spec

(* Every variable keeps to the values its declaration in the code has: the *)
(* indices stay in the ring, a block stays within its thread's size.       *)
THEOREM TypeCorrect == Spec => []TypeOK
<1>1. IInv => TypeOK
  BY DEF IInv, TypeInv, NumberInv, BlockInv, RingInv, RingType, TypeOK
<1> QED
  BY <1>1, InductiveInvariant, PTL

(* What the device's thread gives to send() is the burst on the air, from  *)
(* its first sample, nothing missing, doubled or left from the one before, *)
(* whatever the sizes of the ring, the burst and the two threads' blocks   *)
(* (dsp_thread_main() and tx_thread_main()).  The end of a block for which *)
(* send() ran out of time is given to it once and does not go out.         *)
THEOREM BurstIsSentInOrder == Spec => []SentInOrder
<1>1. IInv => SentInOrder
  BY DEF IInv
<1> QED
  BY <1>1, InductiveInvariant, PTL

(* The samples stay while the DSP thread may be in the source that reads   *)
(* them: tick_morse_tx() lets go of them after the join.                   *)
THEOREM SamplesOutlive == Spec => []SamplesOutliveTheSource
<1>1. IInv => SamplesOutliveTheSource
  BY DEF IInv, SourceInv, SamplesOutliveTheSource
<1> QED
  BY <1>1, InductiveInvariant, PTL

-----------------------------------------------------------------------------
(* The ring is a queue to its two threads.                                 *)

LEMMA ContentIs ==
  ASSUME RingInv
  PROVE  /\ Content \in Seq(Samples \cup {0}) /\ Len(Content) = size /\ size \in 0 .. capacity
         /\ Content = [k \in 1 .. size |-> There(k)]
<1>1. size \in 0 .. capacity /\ read \in 0 .. capacity
  BY SizeType DEF RingInv, RingType
<1>2. ASSUME NEW k \in 1 .. size PROVE There(k) \in Samples \cup {0} /\ read + k - 1 = read + (k - 1)
  <2>1. k \in 1 .. Slots
    BY <1>1, SlotsPositive
  <2>2. (read + (k - 1)) % Slots \in 0 .. capacity
    BY <1>1, <2>1, SlotType
  <2> QED
    BY <1>1, <2>1, <2>2, SlotsPositive DEF There, RingInv, RingType
<1>3. Content = [k \in 1 .. size |-> There(k)]
  BY <1>2 DEF Content, There
<1> QED
  BY <1>1, <1>2, <1>3, SlotsPositive

LEMMA ContentKept ==
  ASSUME RingInv, size' = size, Kept, block' = block
  PROVE  UNCHANGED Queue!vars
<1>1. Content = [k \in 1 .. size |-> There(k)]
  BY ContentIs
<1>2. Content' = [k \in 1 .. size' |-> There(k)']
  BY DEF Content, There
<1>3. Content' = Content
  BY <1>1, <1>2 DEF Kept
<1> QED
  BY <1>3 DEF Queue!vars

LEMMA ContentPut == ASSUME RingInv, EndWrite, block' = block PROVE Queue!Put
<1> DEFINE n == Len(writer.data)
<1>1. /\ RingInv' /\ n \in 0 .. (capacity - size) /\ size' = size + n
      /\ Kept /\ (\A k \in 1 .. n : There(size + k) = writer.data[k])
      /\ UNCHANGED <<buffer, read, reader>>
  BY EndWriteKeeps
<1>2. /\ Content \in Seq(Samples \cup {0}) /\ Len(Content) = size /\ size \in Nat
      /\ Content = [k \in 1 .. size |-> There(k)]
  BY ContentIs, SlotsPositive
<1>3. writer.data \in Seq(Samples) /\ writer.data \in [1 .. n -> Samples] /\ n \in Nat
  BY DEF RingInv, RingType
<1>4. Content' = [k \in 1 .. (size + n) |-> There(k)]
  BY <1>1 DEF Content, There
<1>5. Content \o writer.data = [k \in 1 .. (size + n) |-> IF k <= size THEN Content[k] ELSE writer.data[k - size]]
  BY <1>2, <1>3
<1>6. ASSUME NEW k \in 1 .. (size + n)
      PROVE  There(k) = IF k <= size THEN Content[k] ELSE writer.data[k - size]
  <2>1. CASE k <= size
    BY <1>2, <2>1
  <2>2. CASE k > size
    <3>1. k - size \in 1 .. n /\ size + (k - size) = k
      BY <1>2, <1>3, <2>2
    <3> QED
      BY <1>1, <1>2, <2>2, <3>1
  <2> QED
    BY <1>2, <1>3, <2>1, <2>2
<1>7. Content' = Content \o writer.data
  BY <1>4, <1>5, <1>6
<1>8. n \in 0 .. (capacity - Len(Content))
  BY <1>1, <1>2
<1> QED
  BY <1>3, <1>7, <1>8 DEF Queue!Put

LEMMA ContentGet == ASSUME RingInv, EndRead, block' = reader.data PROVE Queue!Get
<1> DEFINE n == Len(reader.data)
<1>1. /\ RingInv' /\ n \in 0 .. size /\ size' = size - n
      /\ (\A k \in 1 .. n : reader.data[k] = There(k))
      /\ (\A k \in 1 .. size' : There(k)' = There(n + k))
      /\ UNCHANGED <<buffer, write, writer>>
  BY EndReadKeeps
<1>2. /\ Content \in Seq(Samples \cup {0}) /\ Len(Content) = size /\ size \in Nat
      /\ Content = [k \in 1 .. size |-> There(k)]
  BY ContentIs, SlotsPositive
<1>3. reader.data \in Seq(Samples \cup {0}) /\ n \in Nat
      /\ reader.data = [k \in 1 .. n |-> reader.data[k]]
  BY DEF RingInv, RingType
<1> HIDE DEF n
<1>4. Content' = [k \in 1 .. (size - n) |-> There(k)']
  BY <1>1 DEF Content, There
<1>5. SubSeq(Content, n + 1, Len(Content)) = [k \in 1 .. (size - n) |-> Content[n + k]]
  <2>1. SubSeq(Content, n + 1, size) = [k \in 1 .. (size - (n + 1) + 1) |-> Content[k + (n + 1) - 1]]
    BY <1>1, <1>2
  <2>2. size - (n + 1) + 1 = size - n /\ \A k \in 1 .. (size - n) : k + (n + 1) - 1 = n + k
    BY <1>1, <1>2
  <2> QED
    BY <1>2, <2>1, <2>2
<1>6. \A k \in 1 .. (size - n) : There(k)' = Content[n + k]
  BY <1>1, <1>2
<1>7. Content' = SubSeq(Content, n + 1, Len(Content))
  BY <1>4, <1>5, <1>6
<1>8. SubSeq(Content, 1, n) = [k \in 1 .. n |-> Content[k]]
  BY <1>1, <1>2
<1>9. \A k \in 1 .. n : reader.data[k] = Content[k]
  BY <1>1, <1>2
<1>10. block' = SubSeq(Content, 1, n)
  BY <1>3, <1>8, <1>9
<1> QED
  BY <1>1, <1>2, <1>7, <1>10 DEF Queue!Get

LEMMA ContentClear == ASSUME RingInv, ClearRing, block' = block PROVE Queue!Clear
<1>1. size' = 0
  BY ClearRingKeeps
<1>2. Content' = [k \in 1 .. size' |-> There(k)']
  BY DEF Content, There
<1>3. Content' = <<>>
  BY <1>1, <1>2
<1> QED
  BY <1>3 DEF Queue!Clear

LEMMA ContentUnchanged ==
  ASSUME RingInv, UNCHANGED <<ring, block>> PROVE UNCHANGED Queue!vars
BY RingUnchanged, ContentKept DEF Kept

LEMMA QueueInit == ASSUME Init PROVE Queue!Init
<1>1. size = 0
  BY UsedIs, SlotsPositive DEF Init, InitRing, size
<1>2. Content = <<>>
  BY <1>1 DEF Content
<1> QED
  BY <1>2 DEF Init, Queue!Init

LEMMA QueueStep == ASSUME IInv, [Next]_vars PROVE [Queue!Next]_(Queue!vars)
<1> USE DEF IInv, morse, model, radio, caller, history
<1>1. CASE Write
  <2>1. CASE BeginWrite(output) /\ UNCHANGED dsp
    <3>1. UNCHANGED <<buffer, write, read, block>>
      BY <1>1, <2>1 DEF Write, BeginWrite
    <3>2. size' = size /\ Kept
      BY <3>1 DEF size, Kept, There
    <3> QED
      BY <3>1, <3>2, ContentKept
  <2>2. CASE CopyIn /\ UNCHANGED dsp
    <3>1. UNCHANGED <<write, read, block>> /\ Kept
      BY <1>1, <2>2, CopyInKeeps DEF Write
    <3>2. size' = size
      BY <3>1 DEF size
    <3> QED
      BY <3>1, <3>2, ContentKept
  <2>3. CASE EndWrite /\ dsp' = "top"
    BY <1>1, <2>3, ContentPut DEF Write, Queue!Next
  <2> QED
    BY <1>1, <2>1, <2>2, <2>3 DEF Write
<1>2. CASE Read
  <2>1. CASE CopyOut /\ UNCHANGED <<tx, block>>
    <3>1. UNCHANGED <<buffer, write, read, block>>
      BY <2>1 DEF CopyOut
    <3>2. size' = size /\ Kept
      BY <3>1 DEF size, Kept, There
    <3> QED
      BY <3>1, <3>2, ContentKept
  <2>2. CASE EndRead /\ tx' = "send" /\ block' = reader.data
    BY <2>2, ContentGet DEF Queue!Next
  <2> QED
    BY <1>2, <2>1, <2>2 DEF Read
<1>3. CASE TxHead
  <2>1. UNCHANGED <<buffer, write, read, block>>
    BY <1>3 DEF TxHead, BeginRead, ring
  <2>2. size' = size /\ Kept
    BY <2>1 DEF size, Kept, There
  <2> QED
    BY <2>1, <2>2, ContentKept
<1>4. CASE TickBegins
  <2>1. CASE UNCHANGED <<ring, block>>
    BY <2>1, ContentUnchanged
  <2>2. CASE ClearRing /\ UNCHANGED block
    BY <2>2, ContentClear DEF Queue!Next
  <2> QED
    BY <1>4, <2>1, <2>2 DEF TickBegins, StartTx
<1>5. CASE Reopen
  <2>1. CASE UNCHANGED <<ring, block>>
    BY <2>1, ContentUnchanged
  <2>2. CASE ClearRing /\ UNCHANGED block
    BY <2>2, ContentClear DEF Queue!Next
  <2> QED
    BY <1>5, <2>1, <2>2 DEF Reopen, StartTx
<1>6. CASE UNCHANGED <<ring, block>>
  BY <1>6, ContentUnchanged
<1>7. DspHead \/ Pull \/ Send \/ EndTx => UNCHANGED <<ring, block>>
  BY DEF DspHead, Pull, Send, EndTx
<1>8. TickEnds \/ Request \/ OtherStops \/ Reconnect \/ UNCHANGED vars => UNCHANGED <<ring, block>>
  BY DEF TickEnds, Request, OtherStops, Reconnect, Stop, vars
<1>9. JoinDsp \/ StopTx \/ JoinTx \/ BurstOver \/ StopOver => UNCHANGED <<ring, block>>
  BY DEF JoinDsp, StopTx, JoinTx, BurstOver, StopOver
<1> QED
  BY <1>1, <1>2, <1>3, <1>4, <1>5, <1>6, <1>7, <1>8, <1>9 DEF Next, Dsp, Tx, Tick, Return

(* dsp::RingBuffer, with a copy of either side between any two steps of    *)
(* the other, is the bounded queue of module Fifo: what was put comes out  *)
(* once and in order.                                                      *)
THEOREM RingIsAQueue == Spec => ImplementsFifo
<1>1. Init => Queue!Init
  BY QueueInit
<1>2. IInv /\ [Next]_vars => [Queue!Next]_(Queue!vars)
  BY QueueStep
<1> QED
  BY <1>1, <1>2, InductiveInvariant, PTL DEF Spec, ImplementsFifo, Queue!Spec
=============================================================================
