------------------------ MODULE RawSampleTapProofs --------------------------
(***************************************************************************)
(* Proofs about RawSampleTap for every ring size, block size and stream    *)
(* length: IInv is an inductive invariant, and the safety properties and   *)
(* the refinement of GapStream follow from it.                             *)
(***************************************************************************)
EXTENDS RawSampleTap, TLAPS

-----------------------------------------------------------------------------
(* Slots: positions less than one capacity apart live in different slots.  *)

LEMMA ModRange ==
  ASSUME NEW c \in Nat \ {0}, NEW p \in Nat
  PROVE  p % c \in 0 .. (c - 1)
OBVIOUS

LEMMA DivMod ==
  ASSUME NEW c \in Nat \ {0}, NEW p \in Nat
  PROVE  p \div c \in Nat /\ p = c * (p \div c) + (p % c)
OBVIOUS

LEMMA MultiplesApart ==
  ASSUME NEW c \in Nat \ {0}, NEW a \in Int, NEW b \in Int, a < b
  PROVE  c * b - c * a >= c
<1>1. c * b - c * a = c * (b - a)
  OBVIOUS
<1>2. b - a >= 1
  OBVIOUS
<1>3. c * (b - a) >= c * 1
  BY <1>2
<1> QED
  BY <1>1, <1>3

LEMMA ModWindow ==
  ASSUME NEW c \in Nat \ {0}, NEW p \in Nat, NEW q \in Nat,
         p % c = q % c, p - q < c, q - p < c
  PROVE  p = q
<1> DEFINE a == p \div c
           b == q \div c
<1>1. a \in Nat /\ b \in Nat /\ p = c * a + (p % c) /\ q = c * b + (q % c)
  BY DivMod
<1>2. p % c \in Nat /\ q % c \in Nat
  BY ModRange
<1> HIDE DEF a, b
<1>3. c * a \in Int /\ c * b \in Int
  BY <1>1
<1>4. p - q = c * a - c * b
  BY <1>1, <1>2, <1>3
<1>5. ~(a < b)
  <2> SUFFICES ASSUME a < b PROVE FALSE
    OBVIOUS
  <2>1. c * b - c * a >= c
    BY <1>1, MultiplesApart
  <2> QED
    BY <1>3, <1>4, <2>1
<1>6. ~(b < a)
  <2> SUFFICES ASSUME b < a PROVE FALSE
    OBVIOUS
  <2>1. c * a - c * b >= c
    BY <1>1, MultiplesApart
  <2> QED
    BY <1>3, <1>4, <2>1
<1>7. a = b
  BY <1>1, <1>5, <1>6
<1>8. c * a = c * b
  BY <1>7
<1> QED
  BY <1>3, <1>4, <1>8

LEMMA SlotInjective ==
  ASSUME capacity \in Nat \ {0}, NEW p \in Nat, NEW q \in Nat,
         Slot(p) = Slot(q), p - q < capacity, q - p < capacity
  PROVE  p = q
BY ModWindow DEF Slot

LEMMA SlotInRange ==
  ASSUME capacity \in Nat \ {0}, NEW p \in Nat
  PROVE  Slot(p) \in 0 .. (capacity - 1)
BY ModRange DEF Slot

-----------------------------------------------------------------------------
LEMMA DerivedNumbers ==
  NumbersOK => /\ InHand \in Int /\ Unread \in Int
             /\ Taken \in Int /\ InFlight \in Int
BY DEF NumbersOK, InHand, Unread, Taken, InFlight

(* The position of the block that produce() is working on.                 *)
LEMMA OfferedBlock ==
  ASSUME IInv, ppc \in {"reserve", "fill", "commit"}
  PROVE  streamed - count = Base + Unread
<1>1. NumbersOK /\ InHand \in Int /\ Unread \in Int
  BY DerivedNumbers DEF IInv, TypeOK
<1>2. InFlight = count /\ episode_gap = 0
  BY DEF IInv, InFlight, SeamInv
<1> QED
  BY <1>1, <1>2 DEF IInv, EverySampleAccountedFor, Base, NumbersOK

LEMMA TakenBounds ==
  ASSUME IInv, cpc \in {"take_gap", "copy", "release", "at_seam", "return"}
  PROVE  /\ Taken \in Nat
         /\ Taken = w - r
<1>1. NumbersOK
  BY DEF IInv, TypeOK
<1>2. r <= w /\ w <= write /\ write - read <= capacity /\ r <= read
  BY <1>1 DEF IInv, ReaderInv, SpaceInv, NumbersOK, Taken
<1> QED
  BY <1>1, <1>2 DEF Taken, NumbersOK, IInv, ReaderInv, SpaceInv

-----------------------------------------------------------------------------
(* Each action preserves the inductive invariant.                          *)

LEMMA InitIInv == Init => IInv
<1> SUFFICES ASSUME Init PROVE IInv
  OBVIOUS
<1> USE DEF Init
<1>1. NumbersOK /\ ModesOK
  BY DEF NumbersOK, ModesOK
<1>2. BuffersOK
  BY DEF BuffersOK, Nothing
<1>3. GateInv /\ SpaceInv /\ ReaderInv /\ SeamInv
  BY DEF GateInv, SpaceInv, ReaderInv, SeamInv, InProduce, Unread
<1>4. ContentInv /\ BlockContiguousAndPlaced
  BY DEF ContentInv, BlockContiguousAndPlaced
<1>5. CounterInv /\ EverySampleAccountedFor
  BY DEF CounterInv, EverySampleAccountedFor, InHand, InFlight, Unread
<1> QED
  BY <1>1, <1>2, <1>3, <1>4, <1>5 DEF IInv, TypeOK

LEMMA EnterStep == ASSUME IInv, Enter PROVE IInv'
<1> USE DEF Enter, ring, tear, stats, gate, producer, consumer, history
<1>0. NumbersOK
  BY DEF IInv, TypeOK
<1>1. TypeOK'
  <2>1. NumbersOK'
    BY <1>0, CountsAssumption DEF NumbersOK
  <2>2. ModesOK'
    BY DEF IInv, TypeOK, ModesOK
  <2>3. BuffersOK'
    BY DEF IInv, TypeOK, BuffersOK
  <2> QED
    BY <2>1, <2>2, <2>3 DEF TypeOK
<1>2. GateInv'
  BY <1>0 DEF IInv, GateInv, InProduce, NumbersOK
<1>3. SpaceInv'
  BY <1>0, CountsAssumption DEF IInv, GateInv, SpaceInv, NumbersOK
<1>4. ReaderInv'
  BY <1>0 DEF IInv, SpaceInv, ReaderInv, Taken, NumbersOK
<1>5. SeamInv'
  BY <1>0 DEF IInv, GateInv, SeamInv, Unread, NumbersOK
<1>6. ContentInv'
  BY <1>0 DEF IInv, SeamInv, ContentInv, Base, InHand, Taken, Slot,
     NumbersOK
<1>7. CounterInv'
  BY <1>0 DEF IInv, GateInv, SpaceInv, SeamInv, CounterInv, InFlight,
     Unread, InProduce, NumbersOK
<1>8. EverySampleAccountedFor'
  BY <1>0, DerivedNumbers DEF IInv, SpaceInv, EverySampleAccountedFor,
     InFlight, InHand, Taken, Unread, NumbersOK
<1>9. BlockContiguousAndPlaced'
  BY <1>0 DEF IInv, BlockContiguousAndPlaced
<1> QED
  BY <1>1, <1>2, <1>3, <1>4, <1>5, <1>6, <1>7, <1>8, <1>9 DEF IInv

LEMMA CheckEnabledStep == ASSUME IInv, CheckEnabled PROVE IInv'
<1> USE DEF CheckEnabled, ring, tear, stats, gate, producer, consumer, history
<1>0. NumbersOK
  BY DEF IInv, TypeOK
<1>1. TypeOK'
  <2>1. NumbersOK'
    BY <1>0 DEF NumbersOK
  <2>2. ModesOK'
    BY DEF IInv, TypeOK, ModesOK
  <2>3. BuffersOK'
    BY DEF IInv, TypeOK, BuffersOK
  <2> QED
    BY <2>1, <2>2, <2>3 DEF TypeOK
<1>2. GateInv'
  BY <1>0 DEF IInv, GateInv, InProduce, NumbersOK
<1>3. SpaceInv'
  BY <1>0 DEF IInv, GateInv, SpaceInv, InProduce, Unread, NumbersOK
<1>4. ReaderInv'
  BY <1>0 DEF IInv, SpaceInv, ReaderInv, Taken, NumbersOK
<1>5. SeamInv'
  BY <1>0 DEF IInv, GateInv, SeamInv, Unread, NumbersOK
<1>6. ContentInv'
  BY <1>0 DEF IInv, SeamInv, ContentInv, Base, InHand, Taken, Slot,
     NumbersOK
<1>7. CounterInv'
  BY <1>0 DEF IInv, GateInv, SpaceInv, SeamInv, CounterInv, InFlight,
     Unread, InProduce, NumbersOK
<1>8. EverySampleAccountedFor'
  BY <1>0, DerivedNumbers DEF IInv, SpaceInv, EverySampleAccountedFor,
     InFlight, InHand, Taken, Unread, NumbersOK
<1>9. BlockContiguousAndPlaced'
  BY <1>0 DEF IInv, BlockContiguousAndPlaced
<1> QED
  BY <1>1, <1>2, <1>3, <1>4, <1>5, <1>6, <1>7, <1>8, <1>9 DEF IInv

LEMMA OfferStep == ASSUME IInv, Offer PROVE IInv'
<1> USE DEF Offer, ring, tear, stats, gate, producer, consumer, history
<1>0. NumbersOK
  BY DEF IInv, TypeOK
<1>1. TypeOK'
  <2>1. NumbersOK'
    BY <1>0 DEF NumbersOK
  <2>2. ModesOK'
    BY DEF IInv, TypeOK, ModesOK
  <2>3. BuffersOK'
    BY DEF IInv, TypeOK, BuffersOK
  <2> QED
    BY <2>1, <2>2, <2>3 DEF TypeOK
<1>2. GateInv'
  BY <1>0 DEF IInv, GateInv, InProduce, NumbersOK
<1>3. SpaceInv'
  BY <1>0 DEF IInv, GateInv, SpaceInv, InProduce, Unread, NumbersOK
<1>4. ReaderInv'
  BY <1>0 DEF IInv, SpaceInv, ReaderInv, Taken, NumbersOK
<1>5. SeamInv'
  BY <1>0 DEF IInv, GateInv, SeamInv, Unread, NumbersOK
<1>6. ContentInv'
  BY <1>0 DEF IInv, SeamInv, ContentInv, Base, InHand, Taken, Slot,
     NumbersOK
<1>7. CounterInv'
  BY <1>0 DEF IInv, GateInv, SpaceInv, SeamInv, CounterInv, InFlight,
     Unread, InProduce, NumbersOK
<1>8. EverySampleAccountedFor'
  BY <1>0, DerivedNumbers DEF IInv, SpaceInv, EverySampleAccountedFor,
     InFlight, InHand, Taken, Unread, NumbersOK
<1>9. BlockContiguousAndPlaced'
  BY <1>0 DEF IInv, BlockContiguousAndPlaced
<1> QED
  BY <1>1, <1>2, <1>3, <1>4, <1>5, <1>6, <1>7, <1>8, <1>9 DEF IInv

LEMMA DiscardAtSeamStep == ASSUME IInv, DiscardAtSeam PROVE IInv'
<1> USE DEF DiscardAtSeam, ring, tear, stats, gate, producer, consumer, history
<1>0. NumbersOK
  BY DEF IInv, TypeOK
<1>1. TypeOK'
  <2>1. NumbersOK'
    BY <1>0 DEF NumbersOK
  <2>2. ModesOK'
    BY DEF IInv, TypeOK, ModesOK
  <2>3. BuffersOK'
    BY DEF IInv, TypeOK, BuffersOK
  <2> QED
    BY <2>1, <2>2, <2>3 DEF TypeOK
<1>2. GateInv'
  BY <1>0 DEF IInv, GateInv, InProduce, NumbersOK
<1>3. SpaceInv'
  BY <1>0 DEF IInv, GateInv, SpaceInv, InProduce, Unread, NumbersOK
<1>4. ReaderInv'
  BY <1>0 DEF IInv, SpaceInv, ReaderInv, Taken, NumbersOK
<1>5. SeamInv'
  BY <1>0 DEF IInv, GateInv, SeamInv, Unread, NumbersOK
<1>6. ContentInv'
  BY <1>0 DEF IInv, SeamInv, ContentInv, Base, InHand, Taken, Slot,
     NumbersOK
<1>7. CounterInv'
  BY <1>0 DEF IInv, GateInv, SpaceInv, SeamInv, CounterInv, InFlight,
     Unread, InProduce, NumbersOK
<1>8. EverySampleAccountedFor'
  BY <1>0, DerivedNumbers DEF IInv, SpaceInv, EverySampleAccountedFor,
     InFlight, InHand, Taken, Unread, NumbersOK
<1>9. BlockContiguousAndPlaced'
  BY <1>0 DEF IInv, BlockContiguousAndPlaced
<1> QED
  BY <1>1, <1>2, <1>3, <1>4, <1>5, <1>6, <1>7, <1>8, <1>9 DEF IInv

LEMMA PublishGapStep == ASSUME IInv, PublishGap PROVE IInv'
<1> USE DEF PublishGap, ring, tear, stats, gate, producer, consumer, history
<1>0. NumbersOK
  BY DEF IInv, TypeOK
<1>1. TypeOK'
  <2>1. NumbersOK'
    BY <1>0 DEF NumbersOK
  <2>2. ModesOK'
    BY DEF IInv, TypeOK, ModesOK
  <2>3. BuffersOK'
    BY DEF IInv, TypeOK, BuffersOK
  <2> QED
    BY <2>1, <2>2, <2>3 DEF TypeOK
<1>2. GateInv'
  BY <1>0 DEF IInv, GateInv, InProduce, NumbersOK
<1>3. SpaceInv'
  BY <1>0 DEF IInv, GateInv, SpaceInv, InProduce, Unread, NumbersOK
<1>4. ReaderInv'
  <2>1. cpc \in {"copy", "release"} => Unread # 0
    BY <1>0 DEF IInv, ReaderInv, Unread, Taken, NumbersOK
  <2>2. episode_gap = 0 \/ Unread = 0
    BY DEF IInv, SeamInv
  <2> QED
    BY <1>0, <2>1, <2>2 DEF IInv, ReaderInv, Taken, NumbersOK
<1>5. SeamInv'
  BY <1>0 DEF IInv, GateInv, SeamInv, Unread, NumbersOK
<1>6. ContentInv'
  <2>1. CASE episode_gap = 0
    BY <2>1, <1>0 DEF IInv, ContentInv, Base, InHand, Taken, Slot, NumbersOK
  <2>2. CASE Unread = 0
    BY <2>2, <1>0 DEF ContentInv, Unread, NumbersOK
  <2> QED
    BY <2>1, <2>2 DEF IInv, SeamInv
<1>7. CounterInv'
  BY <1>0 DEF IInv, GateInv, SpaceInv, SeamInv, CounterInv, InFlight,
     Unread, InProduce, NumbersOK
<1>8. EverySampleAccountedFor'
  BY <1>0, DerivedNumbers DEF IInv, SpaceInv, EverySampleAccountedFor,
     InFlight, InHand, Taken, Unread, NumbersOK
<1>9. BlockContiguousAndPlaced'
  BY <1>0 DEF IInv, BlockContiguousAndPlaced
<1> QED
  BY <1>1, <1>2, <1>3, <1>4, <1>5, <1>6, <1>7, <1>8, <1>9 DEF IInv

LEMMA ReserveStep == ASSUME IInv, Reserve PROVE IInv'
<1> USE DEF Reserve, ring, tear, stats, gate, producer, consumer, history
<1>0. NumbersOK
  BY DEF IInv, TypeOK
<1>1. TypeOK'
  <2>1. NumbersOK'
    BY <1>0 DEF IInv, SpaceInv, NumbersOK, Unread
  <2>2. ModesOK'
    BY DEF IInv, TypeOK, ModesOK
  <2>3. BuffersOK'
    BY DEF IInv, TypeOK, BuffersOK
  <2> QED
    BY <2>1, <2>2, <2>3 DEF TypeOK
<1>2. GateInv'
  BY <1>0 DEF IInv, GateInv, InProduce, NumbersOK
<1>3. SpaceInv'
  BY <1>0 DEF IInv, GateInv, SpaceInv, InProduce, Unread, NumbersOK
<1>4. ReaderInv'
  BY <1>0 DEF IInv, SpaceInv, ReaderInv, Taken, NumbersOK
<1>5. SeamInv'
  BY <1>0 DEF IInv, GateInv, SeamInv, Unread, NumbersOK
<1>6. ContentInv'
  BY <1>0 DEF IInv, SeamInv, ContentInv, Base, InHand, Taken, Slot,
     NumbersOK
<1>7. CounterInv'
  BY <1>0 DEF IInv, GateInv, SpaceInv, SeamInv, CounterInv, InFlight,
     Unread, InProduce, NumbersOK
<1>8. EverySampleAccountedFor'
  BY <1>0, DerivedNumbers DEF IInv, SpaceInv, EverySampleAccountedFor,
     InFlight, InHand, Taken, Unread, NumbersOK
<1>9. BlockContiguousAndPlaced'
  BY <1>0 DEF IInv, BlockContiguousAndPlaced
<1> QED
  BY <1>1, <1>2, <1>3, <1>4, <1>5, <1>6, <1>7, <1>8, <1>9 DEF IInv

LEMMA FillStep == ASSUME IInv, Fill PROVE IInv'
<1> USE DEF Fill, ring, tear, stats, gate, producer, consumer, history
<1>0. NumbersOK
  BY DEF IInv, TypeOK
<1>1. TypeOK'
  <2>1. NumbersOK'
    BY <1>0 DEF NumbersOK
  <2>2. ModesOK'
    BY DEF IInv, TypeOK, ModesOK
  <2>3. BuffersOK'
    <3>1. \A i \in Filling : SampleFor(i) \in Nat
      <4> SUFFICES ASSUME NEW i \in Filling PROVE SampleFor(i) \in Nat
        OBVIOUS
      <4> DEFINE p == CHOOSE p \in write .. (write + n - 1) : Slot(p) = i
      <4>1. \E q \in write .. (write + n - 1) : Slot(q) = i
        BY DEF Filling
      <4>2. p \in write .. (write + n - 1)
        BY <4>1
      <4>3. streamed - count \in Nat
        BY <1>0, OfferedBlock DEF IInv, SpaceInv, Base, InHand, Unread,
           NumbersOK, Taken, ReaderInv
      <4> QED
        BY <4>2, <4>3, <1>0 DEF SampleFor, NumbersOK
    <3> QED
      BY <3>1 DEF IInv, TypeOK, BuffersOK
  <2> QED
    BY <2>1, <2>2, <2>3 DEF TypeOK
<1>2. GateInv'
  BY <1>0 DEF IInv, GateInv, InProduce, NumbersOK
<1>3. SpaceInv'
  BY <1>0 DEF IInv, GateInv, SpaceInv, InProduce, Unread, NumbersOK
<1>4. ReaderInv'
  BY <1>0 DEF IInv, SpaceInv, ReaderInv, Taken, NumbersOK
<1>5. SeamInv'
  BY <1>0 DEF IInv, GateInv, SeamInv, Unread, NumbersOK
<1>6. ContentInv'
  <2>1. capacity \in Nat \ {0} /\ read <= write /\ write + n - read <= capacity
    BY <1>0 DEF IInv, SpaceInv, GateInv, InProduce, NumbersOK
  <2>2. Base' = Base
    BY DEF Base, InHand, Taken
  <2>3. \A p \in read .. (write + n - 1) :
          p \in Nat /\ Slot(p) \in DOMAIN buffer /\ Slot(p)' = Slot(p)
    <3> SUFFICES ASSUME NEW p \in read .. (write + n - 1)
                 PROVE  p \in Nat /\ Slot(p) \in DOMAIN buffer /\ Slot(p)' = Slot(p)
      OBVIOUS
    <3>1. p \in Nat
      BY <1>0 DEF NumbersOK
    <3>2. Slot(p) \in 0 .. (capacity - 1)
      BY <2>1, <3>1, SlotInRange
    <3>3. DOMAIN buffer = 0 .. (capacity - 1)
      BY DEF IInv, TypeOK, BuffersOK
    <3> QED
      BY <3>1, <3>2, <3>3 DEF Slot
  <2>4. ASSUME NEW p \in read .. (write - 1)
        PROVE  buffer'[Slot(p)] = Base + (p - read)
    <3>1. Slot(p) \notin Filling
      <4> SUFFICES ASSUME NEW q \in write .. (write + n - 1), Slot(p) = Slot(q)
                   PROVE  FALSE
        BY DEF Filling
      <4>1. p \in Nat /\ q \in Nat /\ p - q < capacity /\ q - p < capacity /\ p # q
        BY <1>0, <2>1 DEF NumbersOK
      <4> QED
        BY <4>1, <2>1, SlotInjective
    <3> QED
      BY <3>1, <2>1, <2>3, <1>0 DEF IInv, ContentInv, NumbersOK
  <2>5. ASSUME NEW p \in write .. (write + n - 1)
        PROVE  buffer'[Slot(p)] = (streamed - count) + (p - write)
    <3> DEFINE q == CHOOSE q \in write .. (write + n - 1) : Slot(q) = Slot(p)
    <3>1. q \in write .. (write + n - 1) /\ Slot(q) = Slot(p)
      OBVIOUS
    <3>2. p \in Nat /\ q \in Nat /\ p - q < capacity /\ q - p < capacity
      BY <3>1, <2>1, <1>0 DEF NumbersOK
    <3>3. q = p
      BY <3>1, <3>2, <2>1, SlotInjective
    <3>4. Slot(p) \in Filling /\ Slot(p) \in DOMAIN buffer
      BY <2>1, <2>3, <1>0 DEF Filling, NumbersOK
    <3>5. SampleFor(Slot(p)) = (streamed - count) + (p - write)
      BY <3>3 DEF SampleFor
    <3> QED
      BY <3>4, <3>5
  <2> QED
    BY <2>2, <2>3, <2>4, <2>5, <2>1, <1>0 DEF ContentInv, Slot, NumbersOK
<1>7. CounterInv'
  BY <1>0 DEF IInv, GateInv, SpaceInv, SeamInv, CounterInv, InFlight,
     Unread, InProduce, NumbersOK
<1>8. EverySampleAccountedFor'
  BY <1>0, DerivedNumbers DEF IInv, SpaceInv, EverySampleAccountedFor,
     InFlight, InHand, Taken, Unread, NumbersOK
<1>9. BlockContiguousAndPlaced'
  BY <1>0 DEF IInv, BlockContiguousAndPlaced
<1> QED
  BY <1>1, <1>2, <1>3, <1>4, <1>5, <1>6, <1>7, <1>8, <1>9 DEF IInv

LEMMA CommitStep == ASSUME IInv, Commit PROVE IInv'
<1> USE DEF Commit, ring, tear, stats, gate, producer, consumer, history
<1>0. NumbersOK
  BY DEF IInv, TypeOK
<1>1. TypeOK'
  <2>1. NumbersOK'
    BY <1>0 DEF NumbersOK
  <2>2. ModesOK'
    BY DEF IInv, TypeOK, ModesOK
  <2>3. BuffersOK'
    BY DEF IInv, TypeOK, BuffersOK
  <2> QED
    BY <2>1, <2>2, <2>3 DEF TypeOK
<1>2. GateInv'
  BY <1>0 DEF IInv, GateInv, InProduce, NumbersOK
<1>3. SpaceInv'
  BY <1>0 DEF IInv, GateInv, SpaceInv, InProduce, Unread, NumbersOK
<1>4. ReaderInv'
  BY <1>0 DEF IInv, SpaceInv, ReaderInv, Taken, NumbersOK
<1>5. SeamInv'
  BY <1>0 DEF IInv, GateInv, SeamInv, Unread, NumbersOK
<1>6. ContentInv'
  <2>1. Base' = Base /\ streamed - count = Base + (write - read)
    BY OfferedBlock DEF Base, InHand, Taken, Unread
  <2>2. Base \in Int /\ read <= write
    BY <1>0, DerivedNumbers DEF Base, IInv, SpaceInv, NumbersOK
  <2>3. ASSUME NEW p \in read .. (write' - 1)
        PROVE  buffer[Slot(p)] = Base + (p - read)
    <3>1. CASE p < write
      BY <3>1, <1>0 DEF IInv, ContentInv, NumbersOK
    <3>2. CASE p >= write
      <4>1. buffer[Slot(p)] = (streamed - count) + (p - write)
        BY <3>2, <1>0 DEF IInv, ContentInv, NumbersOK
      <4> QED
        BY <4>1, <2>1, <2>2, <1>0 DEF NumbersOK
    <3> QED
      BY <3>1, <3>2, <1>0 DEF NumbersOK
  <2>4. \A p : Slot(p)' = Slot(p)
    BY DEF Slot
  <2>5. ppc' # "commit" /\ buffer' = buffer /\ read' = read
    OBVIOUS
  <2> QED
    BY <2>1, <2>3, <2>4, <2>5 DEF ContentInv
<1>7. CounterInv'
  BY <1>0 DEF IInv, GateInv, SpaceInv, SeamInv, CounterInv, InFlight,
     Unread, InProduce, NumbersOK
<1>8. EverySampleAccountedFor'
  BY <1>0, DerivedNumbers DEF IInv, SpaceInv, EverySampleAccountedFor,
     InFlight, InHand, Taken, Unread, NumbersOK
<1>9. BlockContiguousAndPlaced'
  BY <1>0 DEF IInv, BlockContiguousAndPlaced
<1> QED
  BY <1>1, <1>2, <1>3, <1>4, <1>5, <1>6, <1>7, <1>8, <1>9 DEF IInv

LEMMA OverflowStep == ASSUME IInv, Overflow PROVE IInv'
<1> USE DEF Overflow, ring, tear, stats, gate, producer, consumer, history
<1>0. NumbersOK
  BY DEF IInv, TypeOK
<1>1. TypeOK'
  <2>1. NumbersOK'
    BY <1>0 DEF IInv, SpaceInv, NumbersOK
  <2>2. ModesOK'
    BY DEF IInv, TypeOK, ModesOK
  <2>3. BuffersOK'
    BY DEF IInv, TypeOK, BuffersOK
  <2> QED
    BY <2>1, <2>2, <2>3 DEF TypeOK
<1>2. GateInv'
  BY <1>0 DEF IInv, GateInv, InProduce, NumbersOK
<1>3. SpaceInv'
  BY <1>0 DEF IInv, GateInv, SpaceInv, InProduce, Unread, NumbersOK
<1>4. ReaderInv'
  BY <1>0 DEF IInv, SpaceInv, ReaderInv, Taken, NumbersOK
<1>5. SeamInv'
  BY <1>0 DEF IInv, GateInv, SeamInv, Unread, NumbersOK
<1>6. ContentInv'
  BY <1>0 DEF IInv, SeamInv, ContentInv, Base, InHand, Taken, Slot,
     NumbersOK
<1>7. CounterInv'
  BY <1>0 DEF IInv, GateInv, SpaceInv, SeamInv, CounterInv, InFlight,
     Unread, InProduce, NumbersOK
<1>8. EverySampleAccountedFor'
  BY <1>0, DerivedNumbers DEF IInv, SpaceInv, EverySampleAccountedFor,
     InFlight, InHand, Taken, Unread, NumbersOK
<1>9. BlockContiguousAndPlaced'
  BY <1>0 DEF IInv, BlockContiguousAndPlaced
<1> QED
  BY <1>1, <1>2, <1>3, <1>4, <1>5, <1>6, <1>7, <1>8, <1>9 DEF IInv

LEMMA TearStep == ASSUME IInv, Tear PROVE IInv'
<1> USE DEF Tear, ring, tear, stats, gate, producer, consumer, history
<1>0. NumbersOK
  BY DEF IInv, TypeOK
<1>1. TypeOK'
  <2>1. NumbersOK'
    BY <1>0 DEF NumbersOK
  <2>2. ModesOK'
    BY DEF IInv, TypeOK, ModesOK
  <2>3. BuffersOK'
    BY DEF IInv, TypeOK, BuffersOK
  <2> QED
    BY <2>1, <2>2, <2>3 DEF TypeOK
<1>2. GateInv'
  BY <1>0 DEF IInv, GateInv, InProduce, NumbersOK
<1>3. SpaceInv'
  BY <1>0 DEF IInv, GateInv, SpaceInv, InProduce, Unread, NumbersOK
<1>4. ReaderInv'
  BY <1>0 DEF IInv, SpaceInv, ReaderInv, Taken, NumbersOK
<1>5. SeamInv'
  BY <1>0 DEF IInv, GateInv, SeamInv, Unread, NumbersOK
<1>6. ContentInv'
  BY <1>0 DEF IInv, SeamInv, ContentInv, Base, InHand, Taken, Slot,
     NumbersOK
<1>7. CounterInv'
  BY <1>0 DEF IInv, GateInv, SpaceInv, SeamInv, CounterInv, InFlight,
     Unread, InProduce, NumbersOK
<1>8. EverySampleAccountedFor'
  BY <1>0, DerivedNumbers DEF IInv, SpaceInv, EverySampleAccountedFor,
     InFlight, InHand, Taken, Unread, NumbersOK
<1>9. BlockContiguousAndPlaced'
  BY <1>0 DEF IInv, BlockContiguousAndPlaced
<1> QED
  BY <1>1, <1>2, <1>3, <1>4, <1>5, <1>6, <1>7, <1>8, <1>9 DEF IInv

LEMMA LeaveStep == ASSUME IInv, Leave PROVE IInv'
<1> USE DEF Leave, ring, tear, stats, gate, producer, consumer, history
<1>0. NumbersOK
  BY DEF IInv, TypeOK
<1>1. TypeOK'
  <2>1. NumbersOK'
    BY <1>0 DEF NumbersOK
  <2>2. ModesOK'
    BY DEF IInv, TypeOK, ModesOK
  <2>3. BuffersOK'
    BY DEF IInv, TypeOK, BuffersOK
  <2> QED
    BY <2>1, <2>2, <2>3 DEF TypeOK
<1>2. GateInv'
  BY <1>0 DEF IInv, GateInv, InProduce, NumbersOK
<1>3. SpaceInv'
  BY <1>0 DEF IInv, GateInv, SpaceInv, InProduce, Unread, NumbersOK
<1>4. ReaderInv'
  BY <1>0 DEF IInv, SpaceInv, ReaderInv, Taken, NumbersOK
<1>5. SeamInv'
  BY <1>0 DEF IInv, GateInv, SeamInv, Unread, NumbersOK
<1>6. ContentInv'
  BY <1>0 DEF IInv, SeamInv, ContentInv, Base, InHand, Taken, Slot,
     NumbersOK
<1>7. CounterInv'
  BY <1>0 DEF IInv, GateInv, SpaceInv, SeamInv, CounterInv, InFlight,
     Unread, InProduce, NumbersOK
<1>8. EverySampleAccountedFor'
  BY <1>0, DerivedNumbers DEF IInv, SpaceInv, EverySampleAccountedFor,
     InFlight, InHand, Taken, Unread, NumbersOK
<1>9. BlockContiguousAndPlaced'
  BY <1>0 DEF IInv, BlockContiguousAndPlaced
<1> QED
  BY <1>1, <1>2, <1>3, <1>4, <1>5, <1>6, <1>7, <1>8, <1>9 DEF IInv

LEMMA SnapshotStep == ASSUME IInv, Snapshot PROVE IInv'
<1> USE DEF Snapshot, ring, tear, stats, gate, producer, consumer, history
<1>0. NumbersOK
  BY DEF IInv, TypeOK
<1>1. TypeOK'
  <2>1. NumbersOK'
    BY <1>0 DEF NumbersOK
  <2>2. ModesOK'
    BY DEF IInv, TypeOK, ModesOK
  <2>3. BuffersOK'
    BY DEF IInv, TypeOK, BuffersOK
  <2> QED
    BY <2>1, <2>2, <2>3 DEF TypeOK
<1>2. GateInv'
  BY <1>0 DEF IInv, GateInv, InProduce, NumbersOK
<1>3. SpaceInv'
  BY <1>0 DEF IInv, GateInv, SpaceInv, InProduce, Unread, NumbersOK
<1>4. ReaderInv'
  BY <1>0 DEF IInv, SpaceInv, ReaderInv, Taken, NumbersOK
<1>5. SeamInv'
  BY <1>0 DEF IInv, GateInv, SeamInv, Unread, NumbersOK
<1>6. ContentInv'
  BY <1>0 DEF IInv, SeamInv, ContentInv, Base, InHand, Taken, Slot,
     NumbersOK
<1>7. CounterInv'
  BY <1>0 DEF IInv, GateInv, SpaceInv, SeamInv, CounterInv, InFlight,
     Unread, InProduce, NumbersOK
<1>8. EverySampleAccountedFor'
  BY <1>0, DerivedNumbers DEF IInv, SpaceInv, EverySampleAccountedFor,
     InFlight, InHand, Taken, Unread, NumbersOK
<1>9. BlockContiguousAndPlaced'
  BY <1>0 DEF IInv, BlockContiguousAndPlaced
<1> QED
  BY <1>1, <1>2, <1>3, <1>4, <1>5, <1>6, <1>7, <1>8, <1>9 DEF IInv

LEMMA TakeGapStep == ASSUME IInv, TakeGap PROVE IInv'
<1> USE DEF TakeGap, ring, tear, stats, gate, producer, consumer, history
<1>0. NumbersOK
  BY DEF IInv, TypeOK
<1>1. TypeOK'
  <2>1. NumbersOK'
    BY <1>0 DEF NumbersOK
  <2>2. ModesOK'
    BY DEF IInv, TypeOK, ModesOK
  <2>3. BuffersOK'
    BY DEF IInv, TypeOK, BuffersOK, Nothing
  <2> QED
    BY <2>1, <2>2, <2>3 DEF TypeOK
<1>2. GateInv'
  BY <1>0 DEF IInv, GateInv, InProduce, NumbersOK
<1>3. SpaceInv'
  BY <1>0 DEF IInv, GateInv, SpaceInv, InProduce, Unread, NumbersOK
<1>4. ReaderInv'
  BY <1>0, TakenBounds DEF IInv, SpaceInv, ReaderInv, Taken, Nothing,
     NumbersOK
<1>5. SeamInv'
  BY <1>0 DEF IInv, GateInv, SeamInv, Unread, NumbersOK
<1>6. ContentInv'
  <2>1. Base' = Base
    BY <1>0, TakenBounds DEF IInv, ReaderInv, Base, InHand, Taken, NumbersOK
  <2> QED
    BY <2>1 DEF IInv, ContentInv, Slot
<1>7. CounterInv'
  BY <1>0 DEF IInv, GateInv, SpaceInv, SeamInv, CounterInv, InFlight,
     Unread, InProduce, NumbersOK
<1>8. EverySampleAccountedFor'
  <2>1. InHand' = 0 /\ InHand = 0 /\ lost = 0
    BY <1>0, TakenBounds DEF IInv, ReaderInv, InHand, Taken, NumbersOK
  <2>2. Unread' = Unread /\ InFlight' = InFlight
    BY DEF Unread, InFlight
  <2> QED
    BY <2>1, <2>2, <1>0, DerivedNumbers DEF IInv, EverySampleAccountedFor, NumbersOK
<1>9. BlockContiguousAndPlaced'
  BY DEF BlockContiguousAndPlaced, Nothing
<1> QED
  BY <1>1, <1>2, <1>3, <1>4, <1>5, <1>6, <1>7, <1>8, <1>9 DEF IInv

LEMMA CopyStep == ASSUME IInv, Copy PROVE IInv'
<1> USE DEF Copy, ring, tear, stats, gate, producer, consumer, history
<1>0. NumbersOK
  BY DEF IInv, TypeOK
<1>1. TypeOK'
  <2>1. NumbersOK'
    BY <1>0 DEF NumbersOK
  <2>2. ModesOK'
    BY DEF IInv, TypeOK, ModesOK
  <2>3. BuffersOK'
    <3>1. capacity \in Nat \ {0}
      BY <1>0 DEF IInv, ReaderInv, Taken, NumbersOK
    <3>2. Taken \in Nat /\ \A k \in 0 .. (Taken - 1) : r + k \in Nat
      BY <1>0, TakenBounds DEF NumbersOK
    <3>3. \A k \in 0 .. (Taken - 1) : buffer[Slot(r + k)] \in Nat \cup {Zero}
      BY <3>1, <3>2, SlotInRange DEF IInv, TypeOK, BuffersOK
    <3> QED
      BY <3>2, <3>3 DEF IInv, TypeOK, BuffersOK
  <2> QED
    BY <2>1, <2>2, <2>3 DEF TypeOK
<1>2. GateInv'
  BY <1>0 DEF IInv, GateInv, InProduce, NumbersOK
<1>3. SpaceInv'
  BY <1>0 DEF IInv, GateInv, SpaceInv, InProduce, Unread, NumbersOK
<1>4. ReaderInv'
  BY <1>0 DEF IInv, SpaceInv, ReaderInv, Taken, NumbersOK
<1>5. SeamInv'
  BY <1>0 DEF IInv, GateInv, SeamInv, Unread, NumbersOK
<1>6. ContentInv'
  BY <1>0 DEF IInv, SeamInv, ContentInv, Base, InHand, Taken, Slot,
     NumbersOK
<1>7. CounterInv'
  BY <1>0 DEF IInv, GateInv, SpaceInv, SeamInv, CounterInv, InFlight,
     Unread, InProduce, NumbersOK
<1>8. EverySampleAccountedFor'
  BY <1>0, DerivedNumbers DEF IInv, SpaceInv, EverySampleAccountedFor,
     InFlight, InHand, Taken, Unread, NumbersOK
<1>9. BlockContiguousAndPlaced'
  <2>1. r = read /\ Taken = w - r /\ w <= write /\ gap_pending = 0 /\ InHand = 0
    BY TakenBounds DEF IInv, ReaderInv, InHand
  <2>2. out' = [k \in 0 .. (Taken - 1) |-> buffer[Slot(r + k)]]
    OBVIOUS
  <2>3. ASSUME NEW k \in 0 .. (Taken - 1)
        PROVE  buffer[Slot(r + k)] = expected + lost + k
    <3> DEFINE p == r + k
    <3>1. p \in read .. (write - 1) /\ p - read = k
      BY <1>0, <2>1 DEF NumbersOK
    <3>2. buffer[Slot(p)] = Base + (p - read)
      <4> HIDE DEF p
      <4> QED
        BY <3>1 DEF IInv, ContentInv
    <3> QED
      BY <1>0, <2>1, <3>1, <3>2 DEF Base, NumbersOK
  <2> QED
    BY <2>2, <2>3 DEF BlockContiguousAndPlaced
<1> QED
  BY <1>1, <1>2, <1>3, <1>4, <1>5, <1>6, <1>7, <1>8, <1>9 DEF IInv

LEMMA ReleaseStep == ASSUME IInv, Release PROVE IInv'
<1> USE DEF Release, ring, tear, stats, gate, producer, consumer, history
<1>0. NumbersOK
  BY DEF IInv, TypeOK
<1>1. TypeOK'
  <2>1. NumbersOK'
    BY <1>0, TakenBounds DEF NumbersOK
  <2>2. ModesOK'
    BY DEF IInv, TypeOK, ModesOK
  <2>3. BuffersOK'
    BY DEF IInv, TypeOK, BuffersOK
  <2> QED
    BY <2>1, <2>2, <2>3 DEF TypeOK
<1>2. GateInv'
  BY <1>0 DEF IInv, GateInv, InProduce, NumbersOK
<1>3. SpaceInv'
  <2>1. r = read /\ Taken = w - r /\ r <= w /\ w <= write
    BY TakenBounds DEF IInv, ReaderInv
  <2>2. read' = w
    BY <2>1, <1>0 DEF NumbersOK
  <2> QED
    BY <1>0, <2>1, <2>2 DEF IInv, SpaceInv, NumbersOK
<1>4. ReaderInv'
  BY <1>0 DEF IInv, SpaceInv, ReaderInv, Taken, NumbersOK
<1>5. SeamInv'
  <2>1. Unread = 0 => Unread' = 0
    BY <1>0, TakenBounds DEF IInv, ReaderInv, Unread, NumbersOK
  <2> QED
    BY <2>1 DEF IInv, SeamInv
<1>6. ContentInv'
  <2>1. Taken \in Nat /\ r = read
    BY TakenBounds DEF IInv, ReaderInv
  <2>2. Base' = Base + Taken /\ Base \in Int
    BY <1>0, <2>1 DEF Base, InHand, Taken, NumbersOK
  <2>3. ASSUME NEW p \in read' .. (write - 1)
        PROVE  buffer[Slot(p)] = Base' + (p - read')
    <3>1. p \in read .. (write - 1)
      BY <1>0, <2>1 DEF NumbersOK
    <3>2. buffer[Slot(p)] = Base + (p - read)
      BY <3>1 DEF IInv, ContentInv
    <3> QED
      BY <1>0, <2>1, <2>2, <3>1, <3>2 DEF NumbersOK
  <2>4. \A p : Slot(p)' = Slot(p)
    BY DEF Slot
  <2>5. ppc' = "commit" => UNCHANGED <<buffer, write, n, streamed, count>>
    OBVIOUS
  <2> QED
    BY <2>3, <2>4, <2>5 DEF IInv, ContentInv
<1>7. CounterInv'
  <2>1. Taken \in Nat /\ r = read
    BY TakenBounds DEF IInv, ReaderInv
  <2>2. Unread' = Unread - Taken /\ InFlight' = InFlight
    BY <1>0, <2>1 DEF Unread, InFlight, NumbersOK
  <2> QED
    BY <1>0, <2>1, <2>2, DerivedNumbers DEF IInv, CounterInv, NumbersOK
<1>8. EverySampleAccountedFor'
  <2>1. Taken \in Nat /\ r = read
    BY TakenBounds DEF IInv, ReaderInv
  <2>2. Unread' = Unread - Taken /\ InFlight' = InFlight
    BY <1>0, <2>1 DEF Unread, InFlight, NumbersOK
  <2>3. InHand' = Taken /\ InHand = 0
    BY DEF InHand, Taken
  <2> QED
    BY <1>0, <2>1, <2>2, <2>3, DerivedNumbers DEF IInv, EverySampleAccountedFor, NumbersOK
<1>9. BlockContiguousAndPlaced'
  BY <1>0 DEF IInv, BlockContiguousAndPlaced
<1> QED
  BY <1>1, <1>2, <1>3, <1>4, <1>5, <1>6, <1>7, <1>8, <1>9 DEF IInv

LEMMA ClearSeamStep == ASSUME IInv, ClearSeam PROVE IInv'
<1> USE DEF ClearSeam, ring, tear, stats, gate, producer, consumer, history
<1>0. NumbersOK
  BY DEF IInv, TypeOK
<1>1. TypeOK'
  <2>1. NumbersOK'
    BY <1>0 DEF NumbersOK
  <2>2. ModesOK'
    BY DEF IInv, TypeOK, ModesOK
  <2>3. BuffersOK'
    BY DEF IInv, TypeOK, BuffersOK
  <2> QED
    BY <2>1, <2>2, <2>3 DEF TypeOK
<1>2. GateInv'
  BY <1>0 DEF IInv, GateInv, InProduce, NumbersOK
<1>3. SpaceInv'
  BY <1>0 DEF IInv, GateInv, SpaceInv, InProduce, Unread, NumbersOK
<1>4. ReaderInv'
  BY <1>0 DEF IInv, SpaceInv, ReaderInv, Taken, NumbersOK
<1>5. SeamInv'
  <2>1. read = r + Taken /\ Unread' = Unread
    BY DEF IInv, ReaderInv, Unread
  <2>2. CASE torn /\ ~torn'
    <3>1. r + Taken = tear_pos
      BY <2>2
    <3>2. tear_pos = write
      BY <2>2 DEF IInv, SeamInv
    <3>3. Unread = 0
      BY <1>0, <2>1, <3>1, <3>2 DEF Unread, NumbersOK
    <3> QED
      BY <2>1, <2>2, <3>3 DEF IInv, SeamInv
  <2>3. CASE torn' = torn
    BY <2>1, <2>3 DEF IInv, SeamInv
  <2> QED
    BY <2>2, <2>3 DEF IInv, TypeOK, ModesOK
<1>6. ContentInv'
  BY <1>0 DEF IInv, SeamInv, ContentInv, Base, InHand, Taken, Slot,
     NumbersOK
<1>7. CounterInv'
  BY <1>0 DEF IInv, GateInv, SpaceInv, SeamInv, CounterInv, InFlight,
     Unread, InProduce, NumbersOK
<1>8. EverySampleAccountedFor'
  BY <1>0, DerivedNumbers DEF IInv, SpaceInv, EverySampleAccountedFor,
     InFlight, InHand, Taken, Unread, NumbersOK
<1>9. BlockContiguousAndPlaced'
  BY <1>0 DEF IInv, BlockContiguousAndPlaced
<1> QED
  BY <1>1, <1>2, <1>3, <1>4, <1>5, <1>6, <1>7, <1>8, <1>9 DEF IInv

LEMMA ReturnStep == ASSUME IInv, Return PROVE IInv'
<1> USE DEF Return, ring, tear, stats, gate, producer, consumer, history
<1>0. NumbersOK
  BY DEF IInv, TypeOK
<1>1. TypeOK'
  <2>1. NumbersOK'
    BY <1>0, TakenBounds DEF NumbersOK
  <2>2. ModesOK'
    BY DEF IInv, TypeOK, ModesOK
  <2>3. BuffersOK'
    BY DEF IInv, TypeOK, BuffersOK, Nothing
  <2> QED
    BY <2>1, <2>2, <2>3 DEF TypeOK
<1>2. GateInv'
  BY <1>0 DEF IInv, GateInv, InProduce, NumbersOK
<1>3. SpaceInv'
  BY <1>0 DEF IInv, GateInv, SpaceInv, InProduce, Unread, NumbersOK
<1>4. ReaderInv'
  BY <1>0 DEF IInv, SpaceInv, ReaderInv, Taken, NumbersOK
<1>5. SeamInv'
  BY <1>0 DEF IInv, GateInv, SeamInv, Unread, NumbersOK
<1>6. ContentInv'
  <2>1. Base' = Base
    BY <1>0, TakenBounds DEF Base, InHand, NumbersOK
  <2> QED
    BY <2>1 DEF IInv, ContentInv, Slot
<1>7. CounterInv'
  BY <1>0 DEF IInv, GateInv, SpaceInv, SeamInv, CounterInv, InFlight,
     Unread, InProduce, NumbersOK
<1>8. EverySampleAccountedFor'
  <2>1. InHand' = 0 /\ InHand = Taken /\ Taken \in Nat
    BY TakenBounds DEF InHand
  <2>2. Unread' = Unread /\ InFlight' = InFlight
    BY DEF Unread, InFlight
  <2> QED
    BY <2>1, <2>2, <1>0, DerivedNumbers DEF IInv, EverySampleAccountedFor, NumbersOK
<1>9. BlockContiguousAndPlaced'
  BY <1>0 DEF IInv, BlockContiguousAndPlaced
<1> QED
  BY <1>1, <1>2, <1>3, <1>4, <1>5, <1>6, <1>7, <1>8, <1>9 DEF IInv

LEMMA OpenStep == ASSUME NEW c \in Capacities, IInv, Open(c) PROVE IInv'
<1> USE DEF Open, ring, tear, stats, gate, producer, consumer, history
<1>0. NumbersOK
  BY DEF IInv, TypeOK
<1>1. TypeOK'
  <2>1. NumbersOK'
    BY <1>0, CapacitiesAssumption DEF NumbersOK
  <2>2. ModesOK'
    BY DEF IInv, TypeOK, ModesOK
  <2>3. BuffersOK'
    BY DEF IInv, TypeOK, BuffersOK
  <2> QED
    BY <2>1, <2>2, <2>3 DEF TypeOK
<1>2. GateInv'
  BY <1>0 DEF IInv, GateInv, InProduce, NumbersOK
<1>3. SpaceInv'
  BY <1>0 DEF IInv, GateInv, SpaceInv, InProduce, Unread, NumbersOK
<1>4. ReaderInv'
  BY <1>0 DEF IInv, SpaceInv, ReaderInv, Taken, NumbersOK
<1>5. SeamInv'
  BY <1>0 DEF IInv, GateInv, SeamInv, Unread, NumbersOK
<1>6. ContentInv'
  BY <1>0 DEF IInv, SeamInv, ContentInv, Base, InHand, Taken, Slot,
     NumbersOK
<1>7. CounterInv'
  BY <1>0 DEF IInv, GateInv, SpaceInv, SeamInv, CounterInv, InFlight,
     Unread, InProduce, NumbersOK
<1>8. EverySampleAccountedFor'
  BY <1>0, DerivedNumbers DEF IInv, SpaceInv, EverySampleAccountedFor,
     InFlight, InHand, Taken, Unread, NumbersOK
<1>9. BlockContiguousAndPlaced'
  BY <1>0 DEF IInv, BlockContiguousAndPlaced
<1> QED
  BY <1>1, <1>2, <1>3, <1>4, <1>5, <1>6, <1>7, <1>8, <1>9 DEF IInv

LEMMA CloseStep == ASSUME IInv, Close PROVE IInv'
<1> USE DEF Close, ring, tear, stats, gate, producer, consumer, history
<1>0. NumbersOK
  BY DEF IInv, TypeOK
<1>1. TypeOK'
  <2>1. NumbersOK'
    BY <1>0 DEF NumbersOK
  <2>2. ModesOK'
    BY DEF IInv, TypeOK, ModesOK
  <2>3. BuffersOK'
    BY DEF IInv, TypeOK, BuffersOK
  <2> QED
    BY <2>1, <2>2, <2>3 DEF TypeOK
<1>2. GateInv'
  BY <1>0 DEF IInv, GateInv, InProduce, NumbersOK
<1>3. SpaceInv'
  BY <1>0 DEF IInv, GateInv, SpaceInv, InProduce, Unread, NumbersOK
<1>4. ReaderInv'
  BY <1>0 DEF IInv, SpaceInv, ReaderInv, Taken, NumbersOK
<1>5. SeamInv'
  BY <1>0 DEF IInv, GateInv, SeamInv, Unread, NumbersOK
<1>6. ContentInv'
  BY <1>0 DEF IInv, SeamInv, ContentInv, Base, InHand, Taken, Slot,
     NumbersOK
<1>7. CounterInv'
  BY <1>0 DEF IInv, GateInv, SpaceInv, SeamInv, CounterInv, InFlight,
     Unread, InProduce, NumbersOK
<1>8. EverySampleAccountedFor'
  BY <1>0, DerivedNumbers DEF IInv, SpaceInv, EverySampleAccountedFor,
     InFlight, InHand, Taken, Unread, NumbersOK
<1>9. BlockContiguousAndPlaced'
  BY <1>0 DEF IInv, BlockContiguousAndPlaced
<1> QED
  BY <1>1, <1>2, <1>3, <1>4, <1>5, <1>6, <1>7, <1>8, <1>9 DEF IInv

LEMMA DrainedStep == ASSUME IInv, Drained PROVE IInv'
<1> USE DEF Drained, ring, tear, stats, gate, producer, consumer, history
<1>0. NumbersOK
  BY DEF IInv, TypeOK
<1>1. TypeOK'
  <2>1. NumbersOK'
    BY <1>0 DEF NumbersOK
  <2>2. ModesOK'
    BY DEF IInv, TypeOK, ModesOK
  <2>3. BuffersOK'
    BY DEF IInv, TypeOK, BuffersOK
  <2> QED
    BY <2>1, <2>2, <2>3 DEF TypeOK
<1>2. GateInv'
  BY <1>0 DEF IInv, GateInv, InProduce, NumbersOK
<1>3. SpaceInv'
  BY <1>0 DEF IInv, GateInv, SpaceInv, InProduce, Unread, NumbersOK
<1>4. ReaderInv'
  BY <1>0 DEF IInv, SpaceInv, ReaderInv, Taken, NumbersOK
<1>5. SeamInv'
  BY <1>0 DEF IInv, GateInv, SeamInv, Unread, NumbersOK
<1>6. ContentInv'
  BY <1>0 DEF IInv, SeamInv, ContentInv, Base, InHand, Taken, Slot,
     NumbersOK
<1>7. CounterInv'
  BY <1>0 DEF IInv, GateInv, SpaceInv, SeamInv, CounterInv, InFlight,
     Unread, InProduce, NumbersOK
<1>8. EverySampleAccountedFor'
  BY <1>0, DerivedNumbers DEF IInv, SpaceInv, EverySampleAccountedFor,
     InFlight, InHand, Taken, Unread, NumbersOK
<1>9. BlockContiguousAndPlaced'
  BY <1>0 DEF IInv, BlockContiguousAndPlaced
<1> QED
  BY <1>1, <1>2, <1>3, <1>4, <1>5, <1>6, <1>7, <1>8, <1>9 DEF IInv

LEMMA ReallocateStep == ASSUME IInv, Reallocate PROVE IInv'
<1> USE DEF Reallocate, ring, tear, stats, gate, producer, consumer, history
<1>0. NumbersOK
  BY DEF IInv, TypeOK
<1>1. TypeOK'
  <2>1. NumbersOK'
    BY <1>0 DEF IInv, SpaceInv, NumbersOK, RestartStream, Unread
  <2>2. ModesOK'
    BY DEF IInv, TypeOK, ModesOK, RestartStream
  <2>3. BuffersOK'
    BY <1>0 DEF IInv, TypeOK, BuffersOK, NumbersOK
  <2> QED
    BY <2>1, <2>2, <2>3 DEF TypeOK
<1>2. GateInv'
  BY <1>0 DEF IInv, GateInv, InProduce, NumbersOK
<1>3. SpaceInv'
  BY <1>0 DEF IInv, GateInv, SpaceInv, RestartStream, NumbersOK
<1>4. ReaderInv'
  BY <1>0 DEF IInv, SpaceInv, ReaderInv, Taken, NumbersOK
<1>5. SeamInv'
  BY <1>0 DEF IInv, GateInv, SeamInv, Unread, RestartStream
<1>6. ContentInv'
  BY DEF IInv, GateInv, ContentInv, RestartStream
<1>7. CounterInv'
  BY <1>0 DEF IInv, GateInv, SpaceInv, CounterInv, InFlight, Unread,
     RestartStream, NumbersOK
<1>8. EverySampleAccountedFor'
  <2>1. InHand = 0 /\ InHand' = 0 /\ InFlight = 0 /\ InFlight' = 0 /\ Unread' = 0
    BY DEF IInv, GateInv, InHand, InFlight, Unread, RestartStream
  <2> QED
    BY <2>1, <1>0, DerivedNumbers
       DEF IInv, ReaderInv, EverySampleAccountedFor, RestartStream, NumbersOK
<1>9. BlockContiguousAndPlaced'
  BY <1>0 DEF IInv, BlockContiguousAndPlaced
<1> QED
  BY <1>1, <1>2, <1>3, <1>4, <1>5, <1>6, <1>7, <1>8, <1>9 DEF IInv

LEMMA EnableStep == ASSUME IInv, Enable PROVE IInv'
<1> USE DEF Enable, ring, tear, stats, gate, producer, consumer, history
<1>0. NumbersOK
  BY DEF IInv, TypeOK
<1>1. TypeOK'
  <2>1. NumbersOK'
    BY <1>0 DEF NumbersOK
  <2>2. ModesOK'
    BY DEF IInv, TypeOK, ModesOK
  <2>3. BuffersOK'
    BY DEF IInv, TypeOK, BuffersOK
  <2> QED
    BY <2>1, <2>2, <2>3 DEF TypeOK
<1>2. GateInv'
  BY <1>0 DEF IInv, GateInv, InProduce, NumbersOK
<1>3. SpaceInv'
  BY <1>0 DEF IInv, GateInv, SpaceInv, InProduce, Unread, NumbersOK
<1>4. ReaderInv'
  BY <1>0 DEF IInv, SpaceInv, ReaderInv, Taken, NumbersOK
<1>5. SeamInv'
  BY <1>0 DEF IInv, GateInv, SeamInv, Unread, NumbersOK
<1>6. ContentInv'
  BY <1>0 DEF IInv, SeamInv, ContentInv, Base, InHand, Taken, Slot,
     NumbersOK
<1>7. CounterInv'
  BY <1>0 DEF IInv, GateInv, SpaceInv, SeamInv, CounterInv, InFlight,
     Unread, InProduce, NumbersOK
<1>8. EverySampleAccountedFor'
  BY <1>0, DerivedNumbers DEF IInv, SpaceInv, EverySampleAccountedFor,
     InFlight, InHand, Taken, Unread, NumbersOK
<1>9. BlockContiguousAndPlaced'
  BY <1>0 DEF IInv, BlockContiguousAndPlaced
<1> QED
  BY <1>1, <1>2, <1>3, <1>4, <1>5, <1>6, <1>7, <1>8, <1>9 DEF IInv

LEMMA FreeStep == ASSUME IInv, Free PROVE IInv'
<1> USE DEF Free, ring, tear, stats, gate, producer, consumer, history
<1>0. NumbersOK
  BY DEF IInv, TypeOK
<1>1. TypeOK'
  <2>1. NumbersOK'
    BY <1>0 DEF IInv, SpaceInv, NumbersOK, RestartStream, Unread
  <2>2. ModesOK'
    BY DEF IInv, TypeOK, ModesOK, RestartStream
  <2>3. BuffersOK'
    BY <1>0 DEF IInv, TypeOK, BuffersOK, Nothing
  <2> QED
    BY <2>1, <2>2, <2>3 DEF TypeOK
<1>2. GateInv'
  BY <1>0 DEF IInv, GateInv, InProduce, NumbersOK
<1>3. SpaceInv'
  BY <1>0 DEF IInv, GateInv, SpaceInv, RestartStream, NumbersOK
<1>4. ReaderInv'
  BY <1>0 DEF IInv, SpaceInv, ReaderInv, Taken, NumbersOK
<1>5. SeamInv'
  BY <1>0 DEF IInv, GateInv, SeamInv, Unread, RestartStream
<1>6. ContentInv'
  BY DEF IInv, GateInv, ContentInv, RestartStream
<1>7. CounterInv'
  BY <1>0 DEF IInv, GateInv, SpaceInv, CounterInv, InFlight, Unread,
     RestartStream, NumbersOK
<1>8. EverySampleAccountedFor'
  <2>1. InHand = 0 /\ InHand' = 0 /\ InFlight = 0 /\ InFlight' = 0 /\ Unread' = 0
    BY DEF IInv, GateInv, InHand, InFlight, Unread, RestartStream
  <2> QED
    BY <2>1, <1>0, DerivedNumbers
       DEF IInv, ReaderInv, EverySampleAccountedFor, RestartStream, NumbersOK
<1>9. BlockContiguousAndPlaced'
  BY <1>0 DEF IInv, BlockContiguousAndPlaced
<1> QED
  BY <1>1, <1>2, <1>3, <1>4, <1>5, <1>6, <1>7, <1>8, <1>9 DEF IInv

LEMMA ResetStatsStep == ASSUME IInv, ResetStats PROVE IInv'
<1> USE DEF ResetStats, ring, tear, stats, gate, producer, consumer, history
<1>0. NumbersOK
  BY DEF IInv, TypeOK
<1>1. TypeOK'
  <2>1. NumbersOK'
    BY <1>0 DEF NumbersOK
  <2>2. ModesOK'
    BY DEF IInv, TypeOK, ModesOK
  <2>3. BuffersOK'
    BY DEF IInv, TypeOK, BuffersOK
  <2> QED
    BY <2>1, <2>2, <2>3 DEF TypeOK
<1>2. GateInv'
  BY <1>0 DEF IInv, GateInv, InProduce, NumbersOK
<1>3. SpaceInv'
  BY <1>0 DEF IInv, GateInv, SpaceInv, InProduce, Unread, NumbersOK
<1>4. ReaderInv'
  BY <1>0 DEF IInv, SpaceInv, ReaderInv, Taken, NumbersOK
<1>5. SeamInv'
  BY <1>0 DEF IInv, GateInv, SeamInv, Unread, NumbersOK
<1>6. ContentInv'
  BY <1>0 DEF IInv, SeamInv, ContentInv, Base, InHand, Taken, Slot,
     NumbersOK
<1>7. CounterInv'
  BY <1>0 DEF IInv, GateInv, SpaceInv, SeamInv, CounterInv, InFlight,
     Unread, InProduce, NumbersOK
<1>8. EverySampleAccountedFor'
  BY <1>0, DerivedNumbers DEF IInv, SpaceInv, EverySampleAccountedFor,
     InFlight, InHand, Taken, Unread, NumbersOK
<1>9. BlockContiguousAndPlaced'
  BY <1>0 DEF IInv, BlockContiguousAndPlaced
<1> QED
  BY <1>1, <1>2, <1>3, <1>4, <1>5, <1>6, <1>7, <1>8, <1>9 DEF IInv

-----------------------------------------------------------------------------
(* Stuttering, and all the actions together.                               *)

LEMMA StutterStep == ASSUME IInv, UNCHANGED vars PROVE IInv'
<1> USE DEF vars, ring, tear, stats, gate, producer, consumer, history
<1>1. TypeOK'
  BY SMTT(30) DEF IInv, TypeOK, NumbersOK, ModesOK, BuffersOK
<1>2. GateInv' /\ SpaceInv' /\ SeamInv'
  BY DEF IInv, GateInv, SpaceInv, SeamInv, InProduce, Unread
<1>3. ReaderInv' /\ BlockContiguousAndPlaced'
  BY DEF IInv, ReaderInv, BlockContiguousAndPlaced, Taken
<1>4. ContentInv'
  BY DEF IInv, ContentInv, Base, InHand, Taken, Slot
<1>5. CounterInv' /\ EverySampleAccountedFor'
  BY DEF IInv, CounterInv, EverySampleAccountedFor, InHand, InFlight, Unread,
     Taken
<1> QED
  BY <1>1, <1>2, <1>3, <1>4, <1>5 DEF IInv

LEMMA NextStep == ASSUME IInv, [Next]_vars PROVE IInv'
<1>1. CASE Write
  BY <1>1, EnterStep, CheckEnabledStep, OfferStep, DiscardAtSeamStep,
     PublishGapStep, ReserveStep, FillStep, CommitStep, OverflowStep, TearStep,
     LeaveStep DEF Write
<1>2. CASE Read
  BY <1>2, SnapshotStep, TakeGapStep, CopyStep, ReleaseStep, ClearSeamStep,
     ReturnStep DEF Read
<1>3. CASE Control
  BY <1>3, OpenStep, CloseStep, DrainedStep, ReallocateStep, EnableStep,
     FreeStep, ResetStatsStep DEF Control, Restart
<1>4. CASE UNCHANGED vars
  BY <1>4, StutterStep
<1> QED
  BY <1>1, <1>2, <1>3, <1>4 DEF Next

(* IInv holds in every reachable state of the tap.                         *)
THEOREM InductiveInvariant == Spec => []IInv
<1>1. Init => IInv
  BY InitIInv
<1>2. IInv /\ [Next]_vars => IInv'
  BY NextStep
<1> QED
  BY <1>1, <1>2, PTL DEF Spec

-----------------------------------------------------------------------------
(* The properties of RawSampleTap that TLC checks on small rings.          *)

(* Every variable of the tap stays in its range.  In particular            *)
(* capacity - (write_ - read_), which produce() keeps in a size_t, never   *)
(* wraps.                                                                  *)
THEOREM TypeCorrect == Spec => []TypeOK
<1>1. IInv => TypeOK
  BY DEF IInv
<1> QED
  BY <1>1, InductiveInvariant, PTL

(* read() never returns a block with a hole in it or with a hole before it *)
(* that the block does not report.                                         *)
THEOREM BlocksCorrect == Spec => []BlockContiguousAndPlaced
<1>1. IInv => BlockContiguousAndPlaced
  BY DEF IInv
<1> QED
  BY <1>1, InductiveInvariant, PTL

(* No sample is lost without being part of an announced, pending or        *)
(* growing hole.                                                           *)
THEOREM NoSilentLoss == Spec => []EverySampleAccountedFor
<1>1. IInv => EverySampleAccountedFor
  BY DEF IInv
<1> QED
  BY <1>1, InductiveInvariant, PTL

(* With the producer outside produce(), the lifetime counters balance.     *)
THEOREM CountersBalance == Spec => []CountersBalanceAtRest
<1>1. IInv => CountersBalanceAtRest
  <2> SUFFICES ASSUME IInv, counting, ppc \in {"outside", "entered", "leave"}
               PROVE  offered = delivered + dropped + Unread
    BY DEF CountersBalanceAtRest
  <2>1. InFlight = 0
    BY DEF InFlight
  <2>2. delivered \in Nat /\ dropped \in Nat /\ Unread \in Int
    BY DerivedNumbers DEF IInv, TypeOK, NumbersOK
  <2> QED
    BY <2>1, <2>2 DEF IInv, CounterInv
<1> QED
  BY <1>1, InductiveInvariant, PTL

(* The DSP thread never writes a slot that the consumer is copying out of. *)
THEOREM NoRaceOnSlots == Spec => []NoSlotRace
<1>1. IInv => NoSlotRace
  <2> SUFFICES ASSUME IInv, ppc = "fill", cpc = "copy",
                      NEW p \in write .. (write + n - 1),
                      NEW k \in 0 .. (Taken - 1), Slot(p) = Slot(r + k)
               PROVE  FALSE
    BY DEF NoSlotRace, Filling
  <2>1. NumbersOK /\ capacity \in Nat \ {0} /\ write + n - read <= capacity
    BY DEF IInv, TypeOK, NumbersOK, GateInv, InProduce, SpaceInv
  <2>2. r = read /\ Taken = w - r /\ w <= write
    BY TakenBounds DEF IInv, ReaderInv
  <2> DEFINE q == r + k
  <2>3. p \in Nat /\ q \in Nat /\ p - q < capacity /\ q - p < capacity /\ p # q
    BY <2>1, <2>2 DEF NumbersOK
  <2>4. Slot(p) = Slot(q)
    OBVIOUS
  <2> HIDE DEF q
  <2> QED
    BY <2>1, <2>3, <2>4, SlotInjective
<1> QED
  BY <1>1, InductiveInvariant, PTL

(* While the buffer is reallocated or freed, the DSP thread is not in      *)
(* produce() and cannot get there.                                         *)
THEOREM ReallocationIsExclusive == Spec => []ExclusiveReallocation
<1>1. IInv => ExclusiveReallocation
  BY DEF IInv, GateInv, ExclusiveReallocation
<1> QED
  BY <1>1, InductiveInvariant, PTL

-----------------------------------------------------------------------------
(* The tap implements GapStream.                                           *)

LEMMA ContractInit == Init => Contract!Init
BY DEF Init, Contract!Init

(* A block is complete: the abstract step that hands it over.              *)
LEMMA ContractDeliver ==
  ASSUME IInv, ClearSeam
  PROVE  Contract!Next
<1> USE DEF ClearSeam, ring, tear, stats, gate, producer, consumer, history
<1>1. NumbersOK /\ Taken \in Nat /\ InHand = Taken /\ Taken' = Taken
  BY TakenBounds DEF IInv, TypeOK, InHand, Taken
<1>2. out = [k \in 0 .. (Taken - 1) |-> expected + lost + k]
  <2>1. DOMAIN out = 0 .. (Taken - 1)
    BY DEF IInv, ReaderInv
  <2>2. out = [k \in DOMAIN out |-> out[k]]
    BY DEF IInv, TypeOK, BuffersOK
  <2>3. \A k \in DOMAIN out : out[k] = expected + lost + k
    BY DEF IInv, BlockContiguousAndPlaced
  <2> QED
    BY <2>1, <2>2, <2>3
<1>3. expected + lost + Taken <= streamed
  <2>1. Unread \in Nat /\ InFlight \in Nat
    BY <1>1 DEF IInv, SpaceInv, NumbersOK, Unread, InFlight
  <2> QED
    BY <1>1, <2>1 DEF IInv, EverySampleAccountedFor, NumbersOK
<1>4. lost \in 0 .. (streamed - expected) /\ Taken \in 0 .. (streamed - expected)
  BY <1>1, <1>3 DEF NumbersOK
<1>5. Contract!Deliver(lost, Taken)
  BY <1>1, <1>2, <1>3 DEF Contract!Deliver
<1> QED
  BY <1>4, <1>5 DEF Contract!Next

LEMMA ContractStep ==
  ASSUME IInv, [Next]_vars
  PROVE  [Contract!Next]_(Contract!vars)
<1> USE DEF ring, tear, stats, gate, producer, consumer, history
<1>1. CASE Write
  <2>1. CASE Offer
    <3>1. capacity # 0 /\ count \in Nat \ {0} /\ streamed \in Nat
      BY <2>1 DEF Offer, IInv, GateInv, TypeOK, NumbersOK
    <3>2. streamed' \in Nat /\ streamed' > streamed
      BY <2>1, <3>1 DEF Offer
    <3> QED
      BY <2>1, <3>2 DEF Offer, Contract!Next, Contract!Offer, Taken
  <2>2. CASE ~Offer
    BY <1>1, <2>2 DEF Write, Enter, CheckEnabled, DiscardAtSeam, PublishGap,
       Reserve, Fill, Commit, Overflow, Tear, Leave, Contract!vars, Taken
  <2> QED
    BY <2>1, <2>2
<1>2. CASE Read
  <2>1. CASE ClearSeam
    BY <2>1, ContractDeliver
  <2>2. CASE Return
    BY <2>2 DEF Return, Contract!Next, Contract!Accept
  <2>3. CASE Snapshot \/ TakeGap \/ Copy \/ Release
    BY <2>3 DEF Snapshot, TakeGap, Copy, Release, Contract!vars
  <2> QED
    BY <1>2, <2>1, <2>2, <2>3 DEF Read
<1>3. CASE Control
  <2>1. CASE Free
    BY <2>1 DEF Free, RestartStream, Contract!Next, Contract!Resubscribe
  <2>2. CASE Reallocate
    BY <2>2 DEF Reallocate, RestartStream, Contract!vars
  <2>3. CASE \/ \E c \in Capacities : Open(c) \/ Restart(c)
             \/ Close \/ Drained \/ Enable \/ ResetStats
    BY <2>3 DEF Open, Restart, Close, Drained, Enable, ResetStats,
       Contract!vars, Taken
  <2> QED
    BY <1>3, <2>1, <2>2, <2>3 DEF Control
<1>4. CASE UNCHANGED vars
  BY <1>4 DEF vars, Contract!vars, Taken
<1> QED
  BY <1>1, <1>2, <1>3, <1>4 DEF Next

(* Every behaviour of the tap is one that its contract allows.             *)
THEOREM TapImplementsContract == Spec => ImplementsGapStream
<1>1. Init => Contract!Init
  BY ContractInit
<1>2. IInv /\ [Next]_vars => [Contract!Next]_(Contract!vars)
  BY ContractStep
<1> QED
  BY <1>1, <1>2, InductiveInvariant, PTL
     DEF Spec, ImplementsGapStream, Contract!Spec
=============================================================================
