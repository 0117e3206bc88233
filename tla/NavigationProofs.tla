-------------------------- MODULE NavigationProofs --------------------------
(***************************************************************************)
(* Proofs about Navigation, for every set of the applications, every bound *)
(* and both values of PushAfterPop.                                        *)
(*                                                                         *)
(* What an application does to the radio is data, a sequence of calls, and *)
(* what service() does is a recursion over the queue; both are reasoned    *)
(* about by induction over the set of the numbers a property holds of.     *)
(* The argument has three layers:                                          *)
(*   - what one call, and so a sequence of calls, does to the radio and to *)
(*     the view that makes it, checked once for each application;          *)
(*   - what hiding, destroying and showing a view does to the stack and    *)
(*     the radio, and from that what a queue of operations does;           *)
(*   - IInv: every view on the stack or still queued believes what is      *)
(*     true of the transmitter, every shared resource has a user on the    *)
(*     stack, and the queue fits the stack it will be applied to.          *)
(* Three things need an invariant of their own, at the end: what a prompt  *)
(* or a page has for owner (Attended), what the application on top finds   *)
(* the receiver like (ShownInv), and what an application that remembers    *)
(* the settings will give back (FoundInv).                                 *)
(***************************************************************************)
EXTENDS Navigation, TLAPS, FiniteSetTheorems, WellFoundedInduction

(* Every non-empty set of naturals has a least element.                    *)
LEMMA LeastNumber ==
  ASSUME NEW T \in SUBSET Nat, T # {}
  PROVE  \E x \in T : \A y \in T : ~ (y < x)
<1>1. \E x \in T : \A y \in T : ~ (<<y, x>> \in OpToRel(<, Nat))
  BY WFMin, NatLessThanWellFounded, Zenon
<1> QED
  BY <1>1 DEF OpToRel

(* What holds of 0, and of n + 1 when it holds of n, holds up to N.  The   *)
(* property is the set of the numbers that have it.                        *)
LEMMA UpTo ==
  ASSUME NEW N \in Nat, NEW T, 0 \in T, \A n \in 0 .. (N - 1) : n \in T => n + 1 \in T
  PROVE  \A n \in 0 .. N : n \in T
<1> SUFFICES ASSUME (0 .. N) \ T # {} PROVE FALSE
  OBVIOUS
<1> DEFINE Bad == (0 .. N) \ T
<1>0. Bad \in SUBSET Nat /\ Bad # {}
  OBVIOUS
<1>1. PICK x \in Bad : \A y \in Bad : ~ (y < x)
  <2> HIDE DEF Bad
  <2> QED
    BY <1>0, LeastNumber
<1>2. x # 0 /\ x - 1 \in 0 .. (N - 1) /\ x - 1 < x
  BY <1>1
<1>3. x - 1 \in T
  BY <1>1, <1>2
<1> QED
  BY <1>1, <1>2, <1>3

Unfolds(f, N, S, base, step) ==
    /\ f \in [0 .. N -> S]
    /\ f[0] = base
    /\ \A n \in 1 .. N : f[n] = step[<<n, f[n - 1]>>]

(* A recursion over 0 .. N that stays in a set S has a solution.           *)
LEMMA Recursion ==
  ASSUME NEW N \in Nat, NEW S, NEW base \in S, NEW step \in [(1 .. N) \X S -> S]
  PROVE  \E f : Unfolds(f, N, S, base, step)
<1> DEFINE Solves(f, m) == f[0] = base /\ \A n \in 1 .. m : f[n] = step[<<n, f[n - 1]>>]
           T == {m \in 0 .. N : \E f \in [0 .. m -> S] : Solves(f, m)}
<1>1. 0 \in T
  <2> DEFINE g == [n \in 0 .. 0 |-> base]
  <2>1. g \in [0 .. 0 -> S] /\ Solves(g, 0)
    OBVIOUS
  <2>2. 0 \in 0 .. N
    OBVIOUS
  <2> HIDE DEF Solves, g
  <2> QED
    BY <2>1, <2>2, Zenon
<1>2. ASSUME NEW m \in 0 .. (N - 1), m \in T PROVE m + 1 \in T
  <2>1. PICK f \in [0 .. m -> S] : Solves(f, m)
    BY <1>2
  <2> DEFINE g == [n \in 0 .. (m + 1) |-> IF n <= m THEN f[n] ELSE step[<<m + 1, f[m]>>]]
  <2>2. f[m] \in S /\ <<m + 1, f[m]>> \in (1 .. N) \X S
    OBVIOUS
  <2>3. g \in [0 .. (m + 1) -> S]
    BY <2>2
  <2>4. Solves(g, m + 1)
    <3>1. g[0] = base
      BY <2>1
    <3>2. ASSUME NEW n \in 1 .. (m + 1) PROVE g[n] = step[<<n, g[n - 1]>>]
      <4>1. CASE n <= m
        <5>1. n \in 1 .. m /\ n - 1 \in 0 .. m /\ n - 1 <= m /\ n \in 0 .. (m + 1) /\ n - 1 \in 0 .. (m + 1)
          BY <4>1
        <5>2. g[n] = f[n] /\ g[n - 1] = f[n - 1]
          BY <4>1, <5>1
        <5> QED
          BY <2>1, <5>1, <5>2
      <4>2. CASE n = m + 1
        <5>1. g[m + 1] = step[<<m + 1, f[m]>>] /\ g[m] = f[m]
          OBVIOUS
        <5>2. n - 1 = m
          BY <4>2
        <5> HIDE DEF g
        <5> QED
          BY <4>2, <5>1, <5>2
      <4> QED
        BY <4>1, <4>2
    <3> QED
      BY <3>1, <3>2
  <2>5. m + 1 \in 0 .. N
    OBVIOUS
  <2> HIDE DEF Solves, g
  <2> QED
    BY <2>3, <2>4, <2>5, Zenon
<1>3. N \in T
  <2> HIDE DEF T
  <2>1. \A n \in 0 .. N : n \in T
    BY <1>1, <1>2, UpTo, Zenon
  <2> QED
    BY <2>1
<1> QED
  BY <1>3 DEF Unfolds

-----------------------------------------------------------------------------
(* The radio, a view and the calls between them.                           *)

Words == {"none", "AM", "NFM", "WFM", "SPEC", "150k", "800k", "4M", "307k", "500k",
          "750k", "1M", "1.536M", "2M", "2.4M", "2.457M", "2.5M", "3.072M",
          "4.194M", "8M", "vor"}

RadioSet ==
    [mode : Words, rate : Words, hint : Words, monitor : BOOLEAN,
     running : BOOLEAN, capturing : BOOLEAN, tap : BOOLEAN, mic : BOOLEAN,
     open : BOOLEAN, onAir : BOOLEAN, raw : BOOLEAN, iq : Int, audio : Int]

SavedSet == [valid : BOOLEAN, mode : Words, rate : Words, running : BOOLEAN]

ViewSet ==
    [kind : ViewKinds, app : AppIds \cup {"menu"}, id : Nat \ {0}, owner : Nat,
     saved : SavedSet, sending : BOOLEAN, sent : BOOLEAN, shown : BOOLEAN,
     fresh : BOOLEAN, confirmed : BOOLEAN, found : [mode : Words, rate : Words]]

Pairs == [radio : RadioSet, view : ViewSet]

QuietOps ==
    {"mode", "rate", "hint", "mute", "start", "stop", "openTap", "closeTap",
     "record", "endRecord", "micOn", "micOff", "saveMode", "saveBoth", "saveOnce",
     "restoreMode", "restoreModeRate", "restoreIfSaved"}

SendKinds == {"iq", "audio", "keyer"}

OpeningOps == {"openTap", "record", "micOn"}

QuietCalls == {c \in [op : QuietOps, arg : Words] : c.op \in OpeningOps => c.arg = "none"}
Calls == QuietCalls \cup [op : {"send", "unsend", "unsendIfSending"}, arg : SendKinds]

(* What a receiver call does to the radio.                                 *)
LEMMA ReceiverType ==
  ASSUME NEW r \in RadioSet, NEW w \in Words
  PROVE  /\ StartReceiver(r) \in RadioSet /\ StopReceiver(r) \in RadioSet
         /\ SetMode(r, w) \in RadioSet /\ SetSamplingRate(r, w) \in RadioSet
<1>0. "none" \in Words
  BY DEF Words
<1>1. ASSUME NEW x \in RadioSet PROVE StartReceiver(x) \in RadioSet /\ StopReceiver(x) \in RadioSet
  <2>1. StartReceiver(x) \in RadioSet
    BY DEF RadioSet, StartReceiver
  <2>2. StopReceiver(x) \in RadioSet
    BY DEF RadioSet, StopReceiver
  <2> QED
    BY <2>1, <2>2
<1>2. SetMode(r, w) \in RadioSet
  BY DEF RadioSet, SetMode
<1>3. [r EXCEPT !.hint = "none"] \in RadioSet /\ [[r EXCEPT !.hint = "none"] EXCEPT !.rate = w] \in RadioSet
  BY <1>0 DEF RadioSet
<1>4. SetSamplingRate(r, w) \in RadioSet
  BY <1>1, <1>3 DEF SetSamplingRate
<1> QED
  BY <1>1, <1>2, <1>4

LEMMA TransmitterType ==
  ASSUME NEW t \in Pairs, NEW kind \in SendKinds
  PROVE  BeginSend(t, kind) \in Pairs /\ EndSend(t, kind) \in Pairs
<1>1. t.radio \in RadioSet /\ t.view \in ViewSet /\ t.view.id \in Int
  BY DEF Pairs, ViewSet
<1>2. StopTransmitter(t.radio) \in RadioSet
  BY <1>1 DEF StopTransmitter, RadioSet
<1>3. EndSend(t, kind) \in Pairs
  <2>1. [t.view EXCEPT !.sending = FALSE, !.sent = FALSE] \in ViewSet
    BY <1>1 DEF ViewSet
  <2>2. /\ [StopTransmitter(t.radio) EXCEPT !.audio = NoSource] \in RadioSet
        /\ [StopTransmitter(t.radio) EXCEPT !.iq = NoSource] \in RadioSet
    BY <1>2 DEF RadioSet, NoSource
  <2> QED
    BY <2>1, <2>2 DEF EndSend, Pairs
<1>4. BeginSend(t, kind) \in Pairs
  <2>1. [t.view EXCEPT !.sending = TRUE, !.sent = FALSE] \in ViewSet
    BY <1>1 DEF ViewSet
  <2>2. ASSUME NEW r \in RadioSet, NEW x \in Int
        PROVE  /\ [r EXCEPT !.raw = FALSE, !.audio = x] \in RadioSet
               /\ [r EXCEPT !.raw = TRUE, !.iq = x] \in RadioSet
               /\ [r EXCEPT !.audio = NoSource] \in RadioSet
               /\ [r EXCEPT !.iq = NoSource] \in RadioSet
               /\ StartTransmitter(r) \in RadioSet
    <3>1. [r EXCEPT !.raw = FALSE, !.audio = x] \in RadioSet
      BY DEF RadioSet
    <3>2. [r EXCEPT !.raw = TRUE, !.iq = x] \in RadioSet
      BY DEF RadioSet
    <3>3. [r EXCEPT !.audio = NoSource] \in RadioSet /\ [r EXCEPT !.iq = NoSource] \in RadioSet
      BY DEF RadioSet, NoSource
    <3>4. StartTransmitter(r) \in RadioSet
      BY DEF RadioSet, StartTransmitter
    <3> QED
      BY <3>1, <3>2, <3>3, <3>4
  <2>3. ASSUME NEW r \in RadioSet PROVE [t EXCEPT !.radio = r] \in Pairs
    BY DEF Pairs
  <2> DEFINE mine == IF kind = "keyer" THEN KeyerSource ELSE t.view.id
             armed == IF kind = "audio" THEN [t.radio EXCEPT !.raw = FALSE, !.audio = mine]
                      ELSE [t.radio EXCEPT !.raw = TRUE, !.iq = mine]
             on == StartTransmitter(armed)
             sent == [radio |-> on, view |-> [t.view EXCEPT !.sending = TRUE, !.sent = FALSE]]
             none == [t EXCEPT !.radio = IF kind = "audio" THEN [armed EXCEPT !.audio = NoSource]
                                         ELSE [armed EXCEPT !.iq = NoSource]]
  <2>4. mine \in Int
    BY <1>1, SMTT(40) DEF KeyerSource
  <2>5. armed \in RadioSet
    BY <1>1, <2>2, <2>4
  <2> HIDE DEF armed
  <2>6. on \in RadioSet
    BY <2>2, <2>4, <2>5, Zenon
  <2>9. none \in Pairs
    <3>1. /\ [armed EXCEPT !.audio = NoSource] \in RadioSet
          /\ [armed EXCEPT !.iq = NoSource] \in RadioSet
      BY <2>2, <2>4, <2>5
    <3> QED
      BY <2>3, <3>1, SMTT(40)
  <2>7. sent \in Pairs
    BY <2>1, <2>6 DEF Pairs
  <2>8. BeginSend(t, kind) = sent \/ BeginSend(t, kind) = none
    BY DEF BeginSend, armed
  <2> QED
    BY <2>7, <2>8, <2>9
<1> QED
  BY <1>3, <1>4

LEMMA DoType ==
  ASSUME NEW t \in Pairs, NEW c \in Calls
  PROVE  Do(t, c) \in Pairs
<1>1. t.radio \in RadioSet /\ t.view \in ViewSet
  BY DEF Pairs
<1>2. ASSUME NEW r \in RadioSet PROVE [t EXCEPT !.radio = r] \in Pairs
  BY DEF Pairs
<1>3. ASSUME NEW v \in ViewSet PROVE [t EXCEPT !.view = v] \in Pairs
  BY DEF Pairs
<1>4. CASE c.op \in {"send", "unsend", "unsendIfSending"}
  <2>1. c.arg \in SendKinds
    BY <1>4 DEF Calls, QuietCalls, QuietOps
  <2> QED
    BY <1>4, <2>1, TransmitterType DEF Do
<1>5. CASE c.op \in {"mode", "rate", "start", "stop"}
  <2>1. c.arg \in Words
    BY <1>5 DEF Calls, QuietCalls, QuietOps
  <2> QED
    BY <1>1, <1>2, <1>5, <2>1, ReceiverType DEF Do
<1>6. CASE c.op \in {"restoreMode", "restoreModeRate", "restoreIfSaved"}
  <2>1. t.view.saved.mode \in Words /\ t.view.saved.rate \in Words
    BY <1>1 DEF ViewSet, SavedSet
  <2> QED
    BY <1>1, <1>2, <1>6, <2>1, ReceiverType DEF Do, RestoreSettings
<1>7. CASE c.op \in {"hint", "mute", "openTap", "closeTap", "record", "endRecord", "micOn", "micOff"}
  <2>1. c.arg \in Words
    BY <1>7 DEF Calls, QuietCalls, QuietOps
  <2>2. ASSUME NEW b \in BOOLEAN
        PROVE  /\ [t EXCEPT !.radio.hint = c.arg] \in Pairs /\ [t EXCEPT !.radio.monitor = b] \in Pairs
               /\ [t EXCEPT !.radio.tap = b] \in Pairs /\ [t EXCEPT !.radio.capturing = b] \in Pairs
               /\ [t EXCEPT !.radio.mic = b] \in Pairs
    <3>1. [t.radio EXCEPT !.hint = c.arg] \in RadioSet /\ [t.radio EXCEPT !.monitor = b] \in RadioSet
      BY <1>1, <2>1 DEF RadioSet
    <3>2. [t.radio EXCEPT !.tap = b] \in RadioSet /\ [t.radio EXCEPT !.capturing = b] \in RadioSet
      BY <1>1 DEF RadioSet
    <3>3. [t.radio EXCEPT !.mic = b] \in RadioSet
      BY <1>1 DEF RadioSet
    <3> QED
      BY <3>1, <3>2, <3>3 DEF Pairs
  <2>3. (~t.radio.capturing) \in BOOLEAN
    OBVIOUS
  <2> QED
    BY <1>7, <2>2, <2>3 DEF Do
<1>8. CASE c.op \in {"saveMode", "saveBoth", "saveOnce"}
  <2>1. t.radio.mode \in Words /\ t.radio.rate \in Words /\ t.radio.running \in BOOLEAN
    BY <1>1 DEF RadioSet
  <2>2. ASSUME NEW s \in SavedSet PROVE [t EXCEPT !.view.saved = s] \in Pairs
    BY <1>1 DEF ViewSet, Pairs
  <2>3. t.view.saved \in SavedSet
    BY <1>1 DEF ViewSet
  <2>4. CASE c.op = "saveMode"
    <3>1. [t.view.saved EXCEPT !.mode = t.radio.mode] \in SavedSet
      BY <2>1, <2>3 DEF SavedSet
    <3>2. Do(t, c) = [t EXCEPT !.view.saved = [t.view.saved EXCEPT !.mode = t.radio.mode]]
      BY <2>4 DEF Do, Pairs, ViewSet, SavedSet
    <3> QED
      BY <2>2, <3>1, <3>2
  <2>5. CASE c.op = "saveBoth"
    <3> DEFINE both == [[t.view.saved EXCEPT !.mode = t.radio.mode] EXCEPT !.rate = t.radio.rate]
    <3>1. both \in SavedSet
      BY <2>1, <2>3 DEF SavedSet
    <3>2. Do(t, c) = [t EXCEPT !.view.saved = both]
      BY <2>5, ZenonT(60) DEF Do, Pairs, ViewSet, SavedSet
    <3> QED
      BY <2>2, <3>1, <3>2
  <2>6. CASE c.op = "saveOnce"
    <3>1. [valid |-> TRUE, mode |-> t.radio.mode, rate |-> t.radio.rate, running |-> t.radio.running] \in SavedSet
      BY <2>1 DEF SavedSet
    <3> QED
      BY <2>2, <2>6, <3>1 DEF Do
  <2> QED
    BY <1>8, <2>4, <2>5, <2>6
<1> QED
  BY <1>4, <1>5, <1>6, <1>7, <1>8 DEF Calls, QuietCalls, QuietOps

(* The calls run one after the other.                                      *)
LEMMA PerformRuns ==
  ASSUME NEW s \in Pairs, NEW calls \in Seq(Calls)
  PROVE  \E f \in [0 .. Len(calls) -> Pairs] :
            /\ f[0] = s
            /\ \A n \in 1 .. Len(calls) : f[n] = Do(f[n - 1], calls[n])
            /\ Perform(s, calls) = f[Len(calls)]
<1> DEFINE N == Len(calls)
           step == [p \in (1 .. N) \X Pairs |-> Do(p[2], calls[p[1]])]
           Runs(f) == f = [n \in 0 .. N |-> IF n = 0 THEN s ELSE Do(f[n - 1], calls[n])]
<1>0. N \in Nat /\ \A n \in 1 .. N : calls[n] \in Calls
  OBVIOUS
<1>1. step \in [(1 .. N) \X Pairs -> Pairs]
  BY <1>0, DoType
<1>2. PICK f : Unfolds(f, N, Pairs, s, step)
  <2> HIDE DEF step, N
  <2> QED
    BY <1>0, <1>1, Recursion
<1>3. f \in [0 .. N -> Pairs] /\ f[0] = s /\ \A n \in 1 .. N : f[n] = Do(f[n - 1], calls[n])
  BY <1>0, <1>2, SMTT(40) DEF Unfolds
<1>4. Runs(f)
  <2> HIDE DEF N
  <2> QED
    BY <1>0, <1>3
<1> DEFINE g == CHOOSE h : Runs(h)
<1>5. Runs(g)
  BY <1>4
<1>6. \A n \in 0 .. N : g[n] = f[n]
  <2> DEFINE T == {m \in 0 .. N : g[m] = f[m]}
  <2> HIDE DEF N, g
  <2>1. 0 \in T
    BY <1>0, <1>3, <1>5
  <2>2. ASSUME NEW n \in 0 .. (N - 1), n \in T PROVE n + 1 \in T
    <3>1. n + 1 \in 0 .. N /\ n + 1 # 0 /\ (n + 1) - 1 = n /\ n + 1 \in 1 .. N
      BY <1>0
    <3> QED
      BY <1>3, <1>5, <2>2, <3>1
  <2>3. \A n \in 0 .. N : n \in T
    <3> HIDE DEF T
    <3> QED
      BY <1>0, <2>1, <2>2, UpTo
  <2> QED
    BY <2>3
<1>7. Perform(s, calls) = g[N]
  BY DEF Perform
<1> QED
  BY <1>0, <1>3, <1>6, <1>7, SMTT(40)

(* A property of pairs, given as a set, that every call keeps is kept by   *)
(* all of them.                                                            *)
LEMMA PerformKeeps ==
  ASSUME NEW s \in Pairs, NEW calls \in Seq(Calls), NEW S, s \in S,
         \A t \in Pairs \cap S, i \in 1 .. Len(calls) : Do(t, calls[i]) \in S
  PROVE  Perform(s, calls) \in S \cap Pairs
<1>1. PICK f \in [0 .. Len(calls) -> Pairs] :
            /\ f[0] = s
            /\ \A n \in 1 .. Len(calls) : f[n] = Do(f[n - 1], calls[n])
            /\ Perform(s, calls) = f[Len(calls)]
  BY PerformRuns
<1> DEFINE N == Len(calls)
           T == {n \in 0 .. N : f[n] \in S}
<1>2. N \in Nat
  OBVIOUS
<1>3. 0 \in T
  BY <1>1, <1>2
<1>4. ASSUME NEW n \in 0 .. (N - 1), n \in T PROVE n + 1 \in T
  <2>1. n + 1 \in 1 .. N /\ n + 1 \in 0 .. N /\ (n + 1) - 1 = n /\ n \in 0 .. N
    BY <1>2
  <2>2. f[n] \in Pairs \cap S /\ f[n + 1] = Do(f[n], calls[n + 1])
    BY <1>1, <1>4, <2>1
  <2> QED
    BY <2>1, <2>2
<1>5. N \in T
  <2> HIDE DEF T, N
  <2>1. \A n \in 0 .. N : n \in T
    BY <1>2, <1>3, <1>4, UpTo
  <2> QED
    BY <1>2, <2>1
<1> QED
  BY <1>1, <1>2, <1>5
(* One more call after all the others; the first call.                     *)
LEMMA PerformEnds ==
  ASSUME NEW s \in Pairs, NEW calls \in Seq(Calls), calls # <<>>
  PROVE  \E t \in Pairs : Perform(s, calls) = Do(t, calls[Len(calls)])
<1>1. PICK f \in [0 .. Len(calls) -> Pairs] :
            /\ f[0] = s
            /\ \A n \in 1 .. Len(calls) : f[n] = Do(f[n - 1], calls[n])
            /\ Perform(s, calls) = f[Len(calls)]
  BY PerformRuns
<1>2. Len(calls) \in 1 .. Len(calls) /\ Len(calls) - 1 \in 0 .. Len(calls)
  OBVIOUS
<1> QED
  BY <1>1, <1>2

LEMMA PerformStarts ==
  ASSUME NEW s \in Pairs, NEW calls \in Seq(Calls), calls # <<>>, NEW S,
         Do(s, calls[1]) \in S,
         \A t \in Pairs \cap S, i \in 2 .. Len(calls) : Do(t, calls[i]) \in S
  PROVE  Perform(s, calls) \in S \cap Pairs
<1>1. PICK f \in [0 .. Len(calls) -> Pairs] :
            /\ f[0] = s
            /\ \A n \in 1 .. Len(calls) : f[n] = Do(f[n - 1], calls[n])
            /\ Perform(s, calls) = f[Len(calls)]
  BY PerformRuns
<1> DEFINE N == Len(calls)
           T == {n \in 0 .. N : n = 0 \/ f[n] \in S}
<1>2. N \in Nat /\ N # 0
  OBVIOUS
<1>3. 0 \in T
  BY <1>2
<1>4. ASSUME NEW n \in 0 .. (N - 1), n \in T PROVE n + 1 \in T
  <2>1. n + 1 \in 1 .. N /\ n + 1 \in 0 .. N /\ (n + 1) - 1 = n /\ n \in 0 .. N
    BY <1>2
  <2>2. f[n] \in Pairs /\ f[n + 1] = Do(f[n], calls[n + 1])
    BY <1>1, <2>1
  <2>3. CASE n = 0
    BY <1>1, <2>1, <2>2, <2>3
  <2>4. CASE n # 0 /\ f[n] \in S
    <3>1. n + 1 \in 2 .. N
      BY <1>2, <2>1, <2>4
    <3> QED
      BY <2>1, <2>2, <2>4, <3>1
  <2> QED
    BY <1>4, <2>3, <2>4
<1>5. N \in T
  <2> HIDE DEF T, N
  <2>1. \A n \in 0 .. N : n \in T
    BY <1>2, <1>3, <1>4, UpTo
  <2> QED
    BY <1>2, <2>1
<1> QED
  BY <1>1, <1>2, <1>5

LEMMA PerformNothing ==
  ASSUME NEW s \in Pairs
  PROVE  Perform(s, <<>>) = s
<1>1. <<>> \in Seq(Calls) /\ Len(<<>>) = 0
  OBVIOUS
<1>2. \E f \in [0 .. Len(<<>>) -> Pairs] : f[0] = s /\ Perform(s, <<>>) = f[Len(<<>>)]
  BY <1>1, PerformRuns, ZenonT(60)
<1> QED
  BY <1>1, <1>2

-----------------------------------------------------------------------------
(* What the calls leave alone, and what they do to the transmitter.        *)

Identity(v, w) == w.kind = v.kind /\ w.app = v.app /\ w.id = v.id /\ w.owner = v.owner

Air(r) == <<r.onAir, r.iq, r.audio>>

(* A quiet call leaves the transmitter alone.                              *)
LEMMA QuietCall ==
  ASSUME NEW t \in Pairs, NEW c \in QuietCalls
  PROVE  /\ Identity(t.view, Do(t, c).view) /\ Do(t, c).view.sending = t.view.sending
         /\ Do(t, c).radio.onAir = t.radio.onAir
         /\ Do(t, c).radio.iq = t.radio.iq /\ Do(t, c).radio.audio = t.radio.audio
         /\ (t.radio.running => t.radio.open) => (Do(t, c).radio.running => Do(t, c).radio.open)
<1> USE DEF Identity
<1>1. t.radio \in RadioSet /\ t.view \in ViewSet
  BY DEF Pairs
<1>2. ASSUME NEW r \in RadioSet, NEW w
      PROVE  /\ StartReceiver(r).onAir = r.onAir /\ StartReceiver(r).iq = r.iq /\ StartReceiver(r).audio = r.audio
             /\ StopReceiver(r).onAir = r.onAir /\ StopReceiver(r).iq = r.iq /\ StopReceiver(r).audio = r.audio
             /\ SetMode(r, w).onAir = r.onAir /\ SetMode(r, w).iq = r.iq /\ SetMode(r, w).audio = r.audio
             /\ (r.running => r.open) => (StartReceiver(r).running => StartReceiver(r).open)
             /\ (r.running => r.open) => (StopReceiver(r).running => StopReceiver(r).open)
             /\ (r.running => r.open) => (SetMode(r, w).running => SetMode(r, w).open)
  BY DEF RadioSet, StartReceiver, StopReceiver, SetMode
<1>3. ASSUME NEW r \in RadioSet, NEW w \in Words
      PROVE  /\ SetSamplingRate(r, w).onAir = r.onAir /\ SetSamplingRate(r, w).iq = r.iq
             /\ SetSamplingRate(r, w).audio = r.audio
             /\ (r.running => r.open) => (SetSamplingRate(r, w).running => SetSamplingRate(r, w).open)
  BY DEF RadioSet, SetSamplingRate, StartReceiver, StopReceiver
<1>4. CASE c.op \in {"mode", "rate", "start", "stop"}
  <2>1. c.arg \in Words
    BY DEF QuietCalls
  <2>2. Do(t, c).view = t.view
    BY <1>4 DEF Do, Pairs
  <2>3. Do(t, c).radio = CASE c.op = "mode" -> SetMode(t.radio, c.arg)
                           [] c.op = "rate" -> SetSamplingRate(t.radio, c.arg)
                           [] c.op = "start" -> StartReceiver(t.radio)
                           [] c.op = "stop" -> StopReceiver(t.radio)
    BY <1>4 DEF Do, Pairs
  <2> QED
    BY <1>1, <1>2, <1>3, <1>4, <2>1, <2>2, <2>3
<1>5. CASE c.op \in {"restoreMode", "restoreModeRate", "restoreIfSaved"}
  <2>1. t.view.saved.mode \in Words /\ t.view.saved.rate \in Words
    BY <1>1 DEF ViewSet, SavedSet
  <2>2. Do(t, c).view = t.view
    BY <1>5 DEF Do, Pairs
  <2>3. ASSUME NEW r \in RadioSet
        PROVE  /\ RestoreSettings(r, t.view).onAir = r.onAir /\ RestoreSettings(r, t.view).iq = r.iq
               /\ RestoreSettings(r, t.view).audio = r.audio
               /\ (r.running => r.open)
                     => (RestoreSettings(r, t.view).running => RestoreSettings(r, t.view).open)
    <3>1. SetMode(r, t.view.saved.mode) \in RadioSet
      BY <2>1, ReceiverType
    <3> QED
      BY <1>2, <1>3, <2>1, <3>1 DEF RestoreSettings
  <2>4. StopReceiver(t.radio) \in RadioSet
    BY <1>1, <2>1, ReceiverType
  <2>5. \/ Do(t, c).radio = SetMode(t.radio, t.view.saved.mode)
        \/ Do(t, c).radio = RestoreSettings(t.radio, t.view)
        \/ Do(t, c).radio = RestoreSettings(StopReceiver(t.radio), t.view)
        \/ Do(t, c).radio = t.radio
    BY <1>5, ZenonT(60) DEF Do, Pairs
  <2> QED
    BY <1>1, <1>2, <2>2, <2>3, <2>4, <2>5
<1>6. CASE c.op \in {"hint", "mute", "openTap", "closeTap", "record", "endRecord", "micOn", "micOff"}
  BY <1>1, <1>6, ZenonT(60) DEF Do, Pairs, RadioSet
<1>7. CASE c.op \in {"saveMode", "saveBoth", "saveOnce"}
  BY <1>1, <1>7, ZenonT(60) DEF Do, Pairs, ViewSet
<1> QED
  BY <1>4, <1>5, <1>6, <1>7 DEF QuietCalls, QuietOps

(* Only the three opening calls open something.                            *)
LEMMA OpeningCall ==
  ASSUME NEW t \in Pairs, NEW c \in Calls
  PROVE  /\ Do(t, c).radio.tap => t.radio.tap \/ c = OpenTap
         /\ Do(t, c).radio.capturing => t.radio.capturing \/ c = Record
         /\ Do(t, c).radio.mic => t.radio.mic \/ c = MicOn
<1>1. t.radio \in RadioSet /\ t.view \in ViewSet
  BY DEF Pairs
<1> DEFINE Tame(r, u) == (u.tap => r.tap) /\ (u.capturing => r.capturing) /\ (u.mic => r.mic)
<1>2. ASSUME NEW r \in RadioSet
      PROVE  Tame(r, StartReceiver(r)) /\ Tame(r, StopReceiver(r))
  BY DEF RadioSet, StartReceiver, StopReceiver
<1>3. ASSUME NEW r \in RadioSet, NEW w \in Words
      PROVE  Tame(r, SetMode(r, w)) /\ Tame(r, SetSamplingRate(r, w))
  BY DEF RadioSet, SetMode, SetSamplingRate, StartReceiver, StopReceiver
<1>4. CASE c.op \in {"mode", "rate", "start", "stop"}
  <2>1. c.arg \in Words
    BY <1>4 DEF Calls, QuietCalls, QuietOps
  <2>2. Do(t, c).radio \in {SetMode(t.radio, c.arg), SetSamplingRate(t.radio, c.arg),
                            StartReceiver(t.radio), StopReceiver(t.radio)}
    BY <1>4 DEF Do, Pairs
  <2>3. \A u \in {SetMode(t.radio, c.arg), SetSamplingRate(t.radio, c.arg),
                  StartReceiver(t.radio), StopReceiver(t.radio)} : Tame(t.radio, u)
    <3> HIDE DEF Tame
    <3> QED
      BY <1>1, <1>2, <1>3, <2>1
  <2> QED
    BY <2>2, <2>3
<1>5. CASE c.op \in {"restoreMode", "restoreModeRate", "restoreIfSaved"}
  <2>1. t.view.saved.mode \in Words /\ t.view.saved.rate \in Words
    BY <1>1 DEF ViewSet, SavedSet
  <2>2. ASSUME NEW r \in RadioSet PROVE Tame(r, RestoreSettings(r, t.view))
    <3>1. SetMode(r, t.view.saved.mode) \in RadioSet
      BY <2>1, ReceiverType
    <3>2. /\ Tame(r, SetMode(r, t.view.saved.mode))
          /\ Tame(SetMode(r, t.view.saved.mode), RestoreSettings(r, t.view))
      <4> HIDE DEF Tame
      <4> QED
        BY <1>3, <2>1, <3>1 DEF RestoreSettings
    <3> QED
      BY <3>2
  <2>3. StopReceiver(t.radio) \in RadioSet
    BY <1>1, <2>1, ReceiverType
  <2> DEFINE stopped == StopReceiver(t.radio)
  <2>4. Do(t, c).radio \in {SetMode(t.radio, t.view.saved.mode), RestoreSettings(t.radio, t.view),
                            RestoreSettings(stopped, t.view), t.radio}
    BY <1>5 DEF Do, Pairs
  <2>5. Tame(t.radio, stopped) /\ Tame(stopped, RestoreSettings(stopped, t.view))
    <3> HIDE DEF Tame
    <3> QED
      BY <1>1, <1>2, <2>2, <2>3
  <2>6. Tame(t.radio, SetMode(t.radio, t.view.saved.mode)) /\ Tame(t.radio, RestoreSettings(t.radio, t.view))
    <3> HIDE DEF Tame
    <3> QED
      BY <1>1, <1>3, <2>1, <2>2
  <2>7. Tame(t.radio, Do(t, c).radio)
    <3> HIDE DEF stopped
    <3> QED
      BY <2>4, <2>5, <2>6
  <2> QED
    BY <2>7
<1>6. CASE c.op \in {"openTap", "closeTap", "record", "endRecord", "micOn", "micOff"}
  <2>1. c \in QuietCalls /\ c.arg \in Words
    BY <1>6 DEF Calls, QuietCalls, QuietOps
  <2>2. c.op \in OpeningOps => c.arg = "none" /\ c = [op |-> c.op, arg |-> c.arg]
    BY <2>1 DEF QuietCalls
  <2>3. /\ c.op = "openTap" => c = OpenTap
        /\ c.op = "record" => c = Record
        /\ c.op = "micOn" => c = MicOn
    BY <2>2 DEF OpeningOps, OpenTap, Record, MicOn, Plain
  <2> QED
    BY <1>1, <1>6, <2>3, ZenonT(60) DEF Do, Pairs, RadioSet
<1>7. CASE c.op \in {"hint", "mute", "saveMode", "saveBoth", "saveOnce"}
  BY <1>1, <1>7, ZenonT(60) DEF Do, Pairs, RadioSet
<1>8. CASE c.op \in {"send", "unsend", "unsendIfSending"}
  BY <1>1, <1>8, ZenonT(60) DEF Do, BeginSend, EndSend, StartTransmitter, StopTransmitter, Pairs, RadioSet
<1> QED
  BY <1>4, <1>5, <1>6, <1>7, <1>8 DEF Calls, QuietCalls, QuietOps

-----------------------------------------------------------------------------
(* The profiles                                                            *)

\* How an application sends, and the calls that go with it.
SendKindOf(p) ==
    IF Send("audio") \in Range(p.begin) THEN "audio"
    ELSE IF Send("keyer") \in Range(p.begin) THEN "keyer" ELSE "iq"

Ending(kind) == QuietCalls \cup {Unsend(kind), UnsendIfSending(kind)}
Beginning(kind) == QuietCalls \cup {Send(kind)}

Uninvited(calls) == \A call \in {OpenTap, Record, MicOn} : call \notin Range(calls)

Closes(p, open, close) ==
    open \in Range(p.show) \cup Range(p.begin) => p.dtor # <<>> /\ p.dtor[Len(p.dtor)] = close

Conforms(p) ==
    LET kind == SendKindOf(p)
    IN  /\ p.ctor \in Seq(QuietCalls) /\ p.show \in Seq(QuietCalls)
        /\ p.hide \in Seq(Ending(kind)) /\ p.dtor \in Seq(Ending(kind)) /\ p.end \in Seq(Ending(kind))
        /\ p.begin \in Seq(Beginning(kind))
        /\ Uninvited(p.ctor) /\ Uninvited(p.hide) /\ Uninvited(p.dtor) /\ Uninvited(p.end)
        /\ Closes(p, OpenTap, CloseTap) /\ Closes(p, Record, EndRecord) /\ Closes(p, MicOn, MicOff)
        /\ Send(kind) \in Range(p.begin) =>
              p.dtor # <<>> /\ p.dtor[1] \in {Unsend(kind), UnsendIfSending(kind)} /\ p.opens = {}
        /\ p.confirm => p.opens = {}
        /\ p.fresh \in SavedSet /\ p.modes \subseteq Words /\ p.rates \subseteq Words

\* Every profile.
Catalogue ==
    {Ais, LookingGlass, AnalogTv, SearchApp, AdsbRx, AcarsRx, AfskRx, AprsRx, NoaaAptRx,
     WeFaxRx, GfxEq, ErtRx, WeatherRx, FpvDetect, VorRx, PocsagRx, FlexRx, DetectorRx,
     FoxhuntRx, SignalHunter, SondeRx, SubCarRx, TetraRx, TimeSink, Scanner, Recon, FmRadio,
     MorseRx, BleRx, NrfRx, EpirbRx, TwoToneRx, AnalogAudio, Level, Capture, RttyRx, SstvRx,
     Tuner, RadioSetup, AdsbTx, BhtTx, CoasterTx, EpirbTx, KeeloqTx, KeyfobTx, SecplusTx, VorTx,
     AprsTx, BleTx, OokTx, FlexTx, GpsSim, Jammer, KissTnc, MicTx, MorseTx, OokEditor, OokBrute,
     Playlist, PocsagTx, RdsTx, RemoteTx, RttyTx, SameTx, SoundBoard, SstvTx, TouchTunes,
     SigGen, TwoTonePager}

(* Every application has one of them.                                       *)
LEMMA ProfileIsListed ==
  ASSUME NEW app \in AppIds
  PROVE  Profiles[app] \in Catalogue
<1>1. AppIds =
       {"ais", "lookingglass", "analogtv", "search", "adsbrx", "acars_rx", "afsk_rx", "aprsrx",
        "noaaapt_rx", "wefax_rx", "gfxeq", "ert", "weather", "fpv_detect", "vor_rx", "pocsag",
        "flex_rx", "detector_rx", "foxhunt", "signal_hunter", "radiosonde", "subcarrx", "tetra_rx",
        "time_sink", "scanner", "recon", "fmradio", "morseradio", "blerx", "nrf_rx", "epirb_rx",
        "two_tone_rx", "audio", "level", "capture", "rtty_rx", "sstvrx", "tuner", "radio", "adsbtx",
        "bht_tx", "coasterp", "epirb_tx", "keeloqtx", "keyfob", "secplustx", "vor_tx", "aprstx",
        "bletx", "ooktx", "flex_tx", "gpssim", "jammer", "kiss_tnc", "microphone", "morse_tx",
        "ook_editor", "ookbrute", "replay", "pocsag_tx", "rdstx", "remote", "rtty_tx", "same_tx",
        "soundboard", "sstvtx", "touchtune", "siggen", "two_tone_pager"}
  BY DEF AppIds, Profiles
<1>2. /\ Profiles["ais"] = Ais
      /\ Profiles["lookingglass"] = LookingGlass
      /\ Profiles["analogtv"] = AnalogTv
      /\ Profiles["search"] = SearchApp
      /\ Profiles["adsbrx"] = AdsbRx
      /\ Profiles["acars_rx"] = AcarsRx
      /\ Profiles["afsk_rx"] = AfskRx
      /\ Profiles["aprsrx"] = AprsRx
      /\ Profiles["noaaapt_rx"] = NoaaAptRx
      /\ Profiles["wefax_rx"] = WeFaxRx
  BY DEF Profiles
<1>3. /\ Profiles["gfxeq"] = GfxEq
      /\ Profiles["ert"] = ErtRx
      /\ Profiles["weather"] = WeatherRx
      /\ Profiles["fpv_detect"] = FpvDetect
      /\ Profiles["vor_rx"] = VorRx
      /\ Profiles["pocsag"] = PocsagRx
      /\ Profiles["flex_rx"] = FlexRx
      /\ Profiles["detector_rx"] = DetectorRx
      /\ Profiles["foxhunt"] = FoxhuntRx
      /\ Profiles["signal_hunter"] = SignalHunter
  BY DEF Profiles
<1>4. /\ Profiles["radiosonde"] = SondeRx
      /\ Profiles["subcarrx"] = SubCarRx
      /\ Profiles["tetra_rx"] = TetraRx
      /\ Profiles["time_sink"] = TimeSink
      /\ Profiles["scanner"] = Scanner
      /\ Profiles["recon"] = Recon
      /\ Profiles["fmradio"] = FmRadio
      /\ Profiles["morseradio"] = MorseRx
      /\ Profiles["blerx"] = BleRx
      /\ Profiles["nrf_rx"] = NrfRx
  BY DEF Profiles
<1>5. /\ Profiles["epirb_rx"] = EpirbRx
      /\ Profiles["two_tone_rx"] = TwoToneRx
      /\ Profiles["audio"] = AnalogAudio
      /\ Profiles["level"] = Level
      /\ Profiles["capture"] = Capture
      /\ Profiles["rtty_rx"] = RttyRx
      /\ Profiles["sstvrx"] = SstvRx
      /\ Profiles["tuner"] = Tuner
      /\ Profiles["radio"] = RadioSetup
      /\ Profiles["adsbtx"] = AdsbTx
  BY DEF Profiles
<1>6. /\ Profiles["bht_tx"] = BhtTx
      /\ Profiles["coasterp"] = CoasterTx
      /\ Profiles["epirb_tx"] = EpirbTx
      /\ Profiles["keeloqtx"] = KeeloqTx
      /\ Profiles["keyfob"] = KeyfobTx
      /\ Profiles["secplustx"] = SecplusTx
      /\ Profiles["vor_tx"] = VorTx
      /\ Profiles["aprstx"] = AprsTx
      /\ Profiles["bletx"] = BleTx
      /\ Profiles["ooktx"] = OokTx
  BY DEF Profiles
<1>7. /\ Profiles["flex_tx"] = FlexTx
      /\ Profiles["gpssim"] = GpsSim
      /\ Profiles["jammer"] = Jammer
      /\ Profiles["kiss_tnc"] = KissTnc
      /\ Profiles["microphone"] = MicTx
      /\ Profiles["morse_tx"] = MorseTx
      /\ Profiles["ook_editor"] = OokEditor
      /\ Profiles["ookbrute"] = OokBrute
      /\ Profiles["replay"] = Playlist
      /\ Profiles["pocsag_tx"] = PocsagTx
  BY DEF Profiles
<1>8. /\ Profiles["rdstx"] = RdsTx
      /\ Profiles["remote"] = RemoteTx
      /\ Profiles["rtty_tx"] = RttyTx
      /\ Profiles["same_tx"] = SameTx
      /\ Profiles["soundboard"] = SoundBoard
      /\ Profiles["sstvtx"] = SstvTx
      /\ Profiles["touchtune"] = TouchTunes
      /\ Profiles["siggen"] = SigGen
      /\ Profiles["two_tone_pager"] = TwoTonePager
  BY DEF Profiles
<1> QED
  BY <1>1, <1>2, <1>3, <1>4, <1>5, <1>6, <1>7, <1>8 DEF Catalogue

(* Every profile is of this form: only the start button sends, whoever     *)
(* sends ends it in its destructor, whoever opens something closes it last *)
(* of all, and nothing else is opened on the way.                          *)
LEMMA ProfilesConform ==
  ASSUME NEW app \in AppIds \cup {"menu"}
  PROVE  Conforms(Profile(app))
<1> USE DEF Conforms, SendKindOf, Ending, Beginning, Uninvited, Closes, Range, Blank, AsItIs,
      Unsaved, AudioModes, QuietCalls, QuietOps, OpeningOps, Words, SavedSet,
      Send, Unsend, UnsendIfSending, Plain, Mode, Rate, Hint, Mute, Start, Stop, OpenTap, CloseTap,
      Record, EndRecord, MicOn, MicOff, SaveMode, SaveBoth, SaveOnce,
      RestoreMode, RestoreModeRate, RestoreIfSaved
<1>1. Conforms(Ais)
  BY DEF Ais
<1>2. Conforms(LookingGlass)
  BY DEF LookingGlass
<1>3. Conforms(AnalogTv)
  BY DEF AnalogTv
<1>4. Conforms(SearchApp)
  <2>1. [[valid |-> FALSE, mode |-> "AM", rate |-> "2.4M", running |-> FALSE] EXCEPT !.mode = "NFM"] \in SavedSet
    OBVIOUS
  <2>2. SearchApp.show = <<SaveBoth, Mode("SPEC"), Rate("2.5M"), Start>> /\ SearchApp.dtor = <<RestoreModeRate>>
        /\ SearchApp.fresh \in SavedSet /\ SearchApp.opens = {} /\ SearchApp.confirm = FALSE
    BY <2>1 DEF SearchApp
  <2>3. SearchApp.ctor = <<>> /\ SearchApp.hide = <<>> /\ SearchApp.begin = <<>> /\ SearchApp.end = <<>>
        /\ SearchApp.modes = {} /\ SearchApp.rates = {}
    BY DEF SearchApp
  <2> QED
    BY <2>2, <2>3
<1>5. Conforms(AdsbRx)
  BY DEF AdsbRx
<1>6. Conforms(AcarsRx)
  BY DEF AcarsRx
<1>7. Conforms(AfskRx)
  BY DEF AfskRx
<1>8. Conforms(AprsRx)
  BY DEF AprsRx
<1>9. Conforms(NoaaAptRx)
  BY DEF NoaaAptRx
<1>10. Conforms(WeFaxRx)
  BY DEF WeFaxRx
<1>11. Conforms(GfxEq)
  BY DEF GfxEq
<1>12. Conforms(ErtRx)
  BY DEF ErtRx
<1>13. Conforms(WeatherRx)
  BY DEF WeatherRx
<1>14. Conforms(FpvDetect)
  BY DEF FpvDetect
<1>15. Conforms(VorRx)
  BY DEF VorRx
<1>16. Conforms(PocsagRx)
  BY DEF PocsagRx
<1>17. Conforms(FlexRx)
  BY DEF FlexRx
<1>18. Conforms(DetectorRx)
  BY DEF DetectorRx
<1>19. Conforms(FoxhuntRx)
  BY DEF FoxhuntRx
<1>20. Conforms(SignalHunter)
  BY DEF SignalHunter
<1>21. Conforms(SondeRx)
  BY DEF SondeRx
<1>22. Conforms(SubCarRx)
  BY DEF SubCarRx
<1>23. Conforms(TetraRx)
  BY DEF TetraRx
<1>24. Conforms(TimeSink)
  BY DEF TimeSink
<1>25. Conforms(Scanner)
  BY DEF Scanner
<1>26. Conforms(Recon)
  BY DEF Recon
<1>27. Conforms(FmRadio)
  BY DEF FmRadio
<1>28. Conforms(MorseRx)
  BY DEF MorseRx
<1>29. Conforms(BleRx)
  BY DEF BleRx
<1>30. Conforms(NrfRx)
  BY DEF NrfRx
<1>31. Conforms(EpirbRx)
  BY DEF EpirbRx
<1>32. Conforms(TwoToneRx)
  BY DEF TwoToneRx
<1>33. Conforms(AnalogAudio)
  BY DEF AnalogAudio
<1>34. Conforms(Level)
  BY DEF Level
<1>35. Conforms(Capture)
  BY DEF Capture
<1>36. Conforms(RttyRx)
  BY DEF RttyRx
<1>37. Conforms(SstvRx)
  BY DEF SstvRx
<1>38. Conforms(Tuner)
  BY DEF Tuner
<1>39. Conforms(RadioSetup)
  BY DEF RadioSetup
<1>40. Conforms(AdsbTx)
  BY DEF AdsbTx
<1>41. Conforms(BhtTx)
  BY DEF BhtTx
<1>42. Conforms(CoasterTx)
  BY DEF CoasterTx
<1>43. Conforms(EpirbTx)
  BY DEF EpirbTx
<1>44. Conforms(KeeloqTx)
  BY DEF KeeloqTx
<1>45. Conforms(KeyfobTx)
  BY DEF KeyfobTx
<1>46. Conforms(SecplusTx)
  BY DEF SecplusTx
<1>47. Conforms(VorTx)
  BY DEF VorTx
<1>48. Conforms(AprsTx)
  BY DEF AprsTx
<1>49. Conforms(BleTx)
  BY DEF BleTx
<1>50. Conforms(OokTx)
  BY DEF OokTx
<1>51. Conforms(FlexTx)
  BY DEF FlexTx
<1>52. Conforms(GpsSim)
  BY DEF GpsSim
<1>53. Conforms(Jammer)
  BY DEF Jammer
<1>54. Conforms(KissTnc)
  BY DEF KissTnc
<1>55. Conforms(MicTx)
  BY DEF MicTx
<1>56. Conforms(MorseTx)
  BY DEF MorseTx
<1>57. Conforms(OokEditor)
  BY DEF OokEditor
<1>58. Conforms(OokBrute)
  BY DEF OokBrute
<1>59. Conforms(Playlist)
  BY DEF Playlist
<1>60. Conforms(PocsagTx)
  BY DEF PocsagTx
<1>61. Conforms(RdsTx)
  BY DEF RdsTx
<1>62. Conforms(RemoteTx)
  BY DEF RemoteTx
<1>63. Conforms(RttyTx)
  BY DEF RttyTx
<1>64. Conforms(SameTx)
  BY DEF SameTx
<1>65. Conforms(SoundBoard)
  BY DEF SoundBoard
<1>66. Conforms(SstvTx)
  BY DEF SstvTx
<1>67. Conforms(TouchTunes)
  BY DEF TouchTunes
<1>68. Conforms(SigGen)
  BY DEF SigGen
<1>69. Conforms(TwoTonePager)
  BY DEF TwoTonePager
<1>70. Conforms(Blank)
  OBVIOUS
<1> HIDE DEF Conforms, Blank
<1>71. app \in AppIds => Conforms(Profiles[app])
  BY ProfileIsListed, <1>1, <1>2, <1>3, <1>4, <1>5, <1>6, <1>7, <1>8, <1>9, <1>10, <1>11, <1>12, <1>13,
     <1>14, <1>15, <1>16, <1>17, <1>18, <1>19, <1>20, <1>21, <1>22, <1>23, <1>24, <1>25, <1>26,
     <1>27, <1>28, <1>29, <1>30, <1>31, <1>32, <1>33, <1>34, <1>35, <1>36, <1>37, <1>38, <1>39,
     <1>40, <1>41, <1>42, <1>43, <1>44, <1>45, <1>46, <1>47, <1>48, <1>49, <1>50, <1>51, <1>52,
     <1>53, <1>54, <1>55, <1>56, <1>57, <1>58, <1>59, <1>60, <1>61, <1>62, <1>63, <1>64, <1>65,
     <1>66, <1>67, <1>68, <1>69 DEF Catalogue
<1> QED
  BY <1>70, <1>71 DEF Profile

-----------------------------------------------------------------------------
(* What a sequence of calls does.                                          *)

LEMMA PerformOpens ==
  ASSUME NEW s \in Pairs, NEW calls \in Seq(Calls)
  PROVE  LET r == Perform(s, calls).radio
         IN  /\ r.tap => s.radio.tap \/ OpenTap \in Range(calls)
             /\ r.capturing => s.radio.capturing \/ Record \in Range(calls)
             /\ r.mic => s.radio.mic \/ MicOn \in Range(calls)
<1> DEFINE Within(r) == /\ r.tap => s.radio.tap \/ OpenTap \in Range(calls)
                        /\ r.capturing => s.radio.capturing \/ Record \in Range(calls)
                        /\ r.mic => s.radio.mic \/ MicOn \in Range(calls)
           S == {t \in Pairs : Within(t.radio)}
<1>1. s \in S
  OBVIOUS
<1>2. ASSUME NEW t \in Pairs \cap S, NEW i \in 1 .. Len(calls)
      PROVE  Do(t, calls[i]) \in S
  <2>1. calls[i] \in Calls /\ calls[i] \in Range(calls) /\ Within(t.radio)
    BY DEF Range
  <2>2. Do(t, calls[i]) \in Pairs
    BY <2>1, DoType
  <2>3. Within(Do(t, calls[i]).radio)
    BY <2>1, OpeningCall
  <2> QED
    BY <2>2, <2>3
<1>3. Perform(s, calls) \in S
  <2> HIDE DEF S
  <2> QED
    BY <1>1, <1>2, PerformKeeps
<1> QED
  BY <1>3

(* A sequence that ends with the closing call leaves nothing open.         *)
LEMMA PerformCloses ==
  ASSUME NEW s \in Pairs, NEW calls \in Seq(Calls), calls # <<>>
  PROVE  LET r == Perform(s, calls).radio
         IN  /\ calls[Len(calls)] = CloseTap => ~r.tap
             /\ calls[Len(calls)] = EndRecord => ~r.capturing
             /\ calls[Len(calls)] = MicOff => ~r.mic
<1>1. PICK t \in Pairs : Perform(s, calls) = Do(t, calls[Len(calls)])
  BY PerformEnds
<1>2. t.radio \in RadioSet
  BY DEF Pairs
<1>3. /\ Do(t, CloseTap).radio.tap = FALSE
      /\ Do(t, EndRecord).radio.capturing = FALSE
      /\ Do(t, MicOff).radio.mic = FALSE
  BY <1>2 DEF Do, Pairs, RadioSet, CloseTap, EndRecord, MicOff, Plain
<1> QED
  BY <1>1, <1>3

Mine(v, kind) == IF kind = "keyer" THEN KeyerSource ELSE v.id
Source(r, kind) == IF kind = "audio" THEN r.audio ELSE r.iq
OtherSource(r, kind) == IF kind = "audio" THEN r.iq ELSE r.audio

(* What start_tx() and stop_tx() of an application do.                     *)
LEMMA SendCall ==
  ASSUME NEW t \in Pairs, NEW kind \in SendKinds
  PROVE  LET b == BeginSend(t, kind)
         IN  /\ Identity(t.view, b.view) /\ OtherSource(b.radio, kind) = OtherSource(t.radio, kind)
             /\ b.radio.running = t.radio.running /\ b.radio.open = t.radio.open
             /\ \/ b.view.sending /\ b.radio.onAir /\ Source(b.radio, kind) = Mine(t.view, kind)
                \/ /\ ~b.radio.onAir /\ ~t.radio.onAir /\ Source(b.radio, kind) = NoSource
                   /\ b.view.sending = t.view.sending
<1>1. t.radio \in RadioSet /\ t.view \in ViewSet
  BY DEF Pairs
<1> DEFINE armed == IF kind = "audio" THEN [t.radio EXCEPT !.raw = FALSE, !.audio = Mine(t.view, kind)]
                    ELSE [t.radio EXCEPT !.raw = TRUE, !.iq = Mine(t.view, kind)]
           on == StartTransmitter(armed)
           sent == [t.view EXCEPT !.sending = TRUE, !.sent = FALSE]
           none == IF kind = "audio" THEN [armed EXCEPT !.audio = NoSource] ELSE [armed EXCEPT !.iq = NoSource]
<1>2. BeginSend(t, kind) = IF on.onAir THEN [radio |-> on, view |-> sent] ELSE [t EXCEPT !.radio = none]
  BY DEF BeginSend, Mine
<1>3. Identity(t.view, sent) /\ sent.sending
  BY <1>1 DEF Identity, ViewSet
<1>4. /\ OtherSource(on, kind) = OtherSource(t.radio, kind) /\ Source(on, kind) = Mine(t.view, kind)
      /\ on.running = t.radio.running /\ on.open = t.radio.open /\ (~on.onAir => ~t.radio.onAir)
  BY <1>1 DEF RadioSet, StartTransmitter, OtherSource, Source
<1>5. /\ OtherSource(none, kind) = OtherSource(t.radio, kind) /\ Source(none, kind) = NoSource
      /\ none.running = t.radio.running /\ none.open = t.radio.open /\ none.onAir = t.radio.onAir
  BY <1>1 DEF RadioSet, OtherSource, Source
<1>6. CASE on.onAir
  <2>1. BeginSend(t, kind).radio = on /\ BeginSend(t, kind).view = sent
    BY <1>2, <1>6
  <2> HIDE DEF on, sent, none, armed
  <2> QED
    BY <1>3, <1>4, <1>6, <2>1
<1>7. CASE ~on.onAir
  <2>1. BeginSend(t, kind).radio = none /\ BeginSend(t, kind).view = t.view
    BY <1>2, <1>7 DEF Pairs
  <2> HIDE DEF on, sent, none, armed
  <2> QED
    BY <1>4, <1>5, <1>7, <2>1 DEF Identity
<1> QED
  BY <1>6, <1>7

LEMMA UnsendCall ==
  ASSUME NEW t \in Pairs, NEW kind \in SendKinds
  PROVE  LET e == EndSend(t, kind)
         IN  /\ Identity(t.view, e.view) /\ OtherSource(e.radio, kind) = OtherSource(t.radio, kind)
             /\ e.radio.running = t.radio.running /\ e.radio.open = t.radio.open
             /\ ~e.view.sending /\ ~e.radio.onAir /\ Source(e.radio, kind) = NoSource
<1>1. t.radio \in RadioSet /\ t.view \in ViewSet
  BY DEF Pairs
<1> QED
  BY <1>1 DEF EndSend, StopTransmitter, RadioSet, ViewSet, Identity, OtherSource, Source

(* From s to t by calls of an application that sends by kind: the          *)
(* transmitter is left alone, it is on the air for the view, or off.       *)
Effect(s, t, kind, may) ==
    /\ Identity(s.view, t.view)
    /\ (s.radio.running => s.radio.open) => (t.radio.running => t.radio.open)
    /\ OtherSource(t.radio, kind) = OtherSource(s.radio, kind)
    /\ \/ /\ Source(t.radio, kind) = Source(s.radio, kind)
          /\ t.radio.onAir = s.radio.onAir /\ t.view.sending = s.view.sending
       \/ may /\ t.view.sending /\ t.radio.onAir /\ Source(t.radio, kind) = Mine(s.view, kind)
       \/ /\ ~t.radio.onAir /\ Source(t.radio, kind) = NoSource
          /\ t.view.sending => s.view.sending /\ ~s.radio.onAir

LEMMA CallEffect ==
  ASSUME NEW s \in Pairs, NEW t \in Pairs, NEW kind \in SendKinds, NEW may \in BOOLEAN,
         Effect(s, t, kind, may), NEW c \in Beginning(kind) \cup Ending(kind), c = Send(kind) => may
  PROVE  Effect(s, Do(t, c), kind, may)
<1>1. CASE c \in QuietCalls
  <2> DEFINE u == Do(t, c)
  <2>1. /\ Identity(t.view, u.view) /\ u.view.sending = t.view.sending /\ u.radio.onAir = t.radio.onAir
        /\ Source(u.radio, kind) = Source(t.radio, kind)
        /\ OtherSource(u.radio, kind) = OtherSource(t.radio, kind)
        /\ (t.radio.running => t.radio.open) => (u.radio.running => u.radio.open)
    BY <1>1, QuietCall DEF Source, OtherSource
  <2> HIDE DEF u
  <2> QED
    BY <2>1 DEF Effect, Identity, u
<1>2. CASE c = Send(kind)
  <2> DEFINE u == BeginSend(t, kind)
  <2>1. Do(t, c) = u
    BY <1>2 DEF Do, Send
  <2>2. Mine(t.view, kind) = Mine(s.view, kind)
    BY DEF Effect, Identity, Mine
  <2>3. /\ Identity(t.view, u.view) /\ OtherSource(u.radio, kind) = OtherSource(t.radio, kind)
        /\ u.radio.running = t.radio.running /\ u.radio.open = t.radio.open
        /\ \/ u.view.sending /\ u.radio.onAir /\ Source(u.radio, kind) = Mine(t.view, kind)
           \/ /\ ~u.radio.onAir /\ ~t.radio.onAir /\ Source(u.radio, kind) = NoSource
              /\ u.view.sending = t.view.sending
    BY SendCall
  <2> HIDE DEF u
  <2>4. Effect(s, u, kind, may)
    BY <1>2, <2>2, <2>3 DEF Effect, Identity
  <2> QED
    BY <2>1, <2>4
<1>3. CASE c \in {Unsend(kind), UnsendIfSending(kind)}
  <2> DEFINE u == EndSend(t, kind)
  <2>1. Do(t, c) = u \/ Do(t, c) = t
    <3>1. c.arg = kind /\ c.op \in {"unsend", "unsendIfSending"}
      BY <1>3 DEF Unsend, UnsendIfSending
    <3>2. Do(t, c) = EndSend(t, c.arg) \/ Do(t, c) = t
      BY <3>1 DEF Do
    <3> QED
      BY <3>1, <3>2
  <2>2. /\ Identity(t.view, u.view) /\ OtherSource(u.radio, kind) = OtherSource(t.radio, kind)
        /\ u.radio.running = t.radio.running /\ u.radio.open = t.radio.open
        /\ ~u.view.sending /\ ~u.radio.onAir /\ Source(u.radio, kind) = NoSource
    BY UnsendCall
  <2> HIDE DEF u
  <2>3. Effect(s, u, kind, may)
    BY <2>2 DEF Effect, Identity
  <2> QED
    BY <2>1, <2>3
<1> QED
  BY <1>1, <1>2, <1>3 DEF Beginning, Ending

LEMMA PerformEffect ==
  ASSUME NEW s \in Pairs, NEW kind \in SendKinds, NEW calls \in Seq(Beginning(kind) \cup Ending(kind))
  PROVE  Perform(s, calls) \in Pairs /\ Effect(s, Perform(s, calls), kind, Send(kind) \in Range(calls))
<1> DEFINE may == Send(kind) \in Range(calls)
           S == {t \in Pairs : Effect(s, t, kind, may)}
<1>1. calls \in Seq(Calls)
  BY DEF Beginning, Ending, Calls, Send, Unsend, UnsendIfSending
<1>2. s \in S
  BY DEF Effect, Identity
<1>3. ASSUME NEW t \in Pairs \cap S, NEW i \in 1 .. Len(calls)
      PROVE  Do(t, calls[i]) \in S
  <2>1. calls[i] \in Calls /\ calls[i] \in Beginning(kind) \cup Ending(kind) /\ calls[i] \in Range(calls)
    BY <1>1 DEF Range
  <2>2. Do(t, calls[i]) \in Pairs
    BY <2>1, DoType
  <2>3. Effect(s, t, kind, may) /\ may \in BOOLEAN /\ (calls[i] = Send(kind) => may)
    BY <2>1
  <2>4. Effect(s, Do(t, calls[i]), kind, may)
    <3> HIDE DEF may, S
    <3> QED
      BY <2>1, <2>3, CallEffect
  <2> QED
    BY <2>2, <2>4
<1>4. Perform(s, calls) \in S
  <2> HIDE DEF S
  <2> QED
    BY <1>1, <1>2, <1>3, PerformKeeps
<1> QED
  BY <1>4

-----------------------------------------------------------------------------
(* The inductive invariant                                                 *)

\* What an application sends, and whether it does.
SendKind(app) == SendKindOf(Profile(app))

Sends(app) == Send(SendKind(app)) \in Range(Profile(app).begin)

\* The application makes the call while it is on the stack.
Makes(app, call) == call \in Range(Profile(app).show) \cup Range(Profile(app).begin)

Covers == {"page", "modal"}

WellKinded(v) ==
    /\ v.kind = "app" => v.app \in AppIds
    /\ v.kind # "app" => v.app = "menu"
    /\ v.sending => v.kind = "app" /\ Sends(v.app)

\* Neither transmitting nor asking for leave to.
Bare(v) == ~v.sending /\ v.kind # "modal"

\* Only pages and prompts lie over a view that transmits, over a prompt, and
\* over the application a prompt asks for.
Shape(stk) ==
    /\ stk \in Seq(ViewSet) /\ Len(stk) > 0
    /\ \A i \in 1 .. Len(stk) : WellKinded(stk[i]) /\ (stk[i].kind = "root" <=> i = 1)
    /\ \A i, j \in 1 .. Len(stk) : stk[i].id = stk[j].id => i = j
    /\ \A i, j \in 1 .. Len(stk) : (i < j /\ stk[j].kind \notin Covers) => Bare(stk[i])
    /\ \A i, j, k \in 1 .. Len(stk) :
          (stk[k].kind = "modal" /\ stk[k].owner = stk[i].id /\ i < j) => stk[j].kind \in Covers

\* v transmits from the source x.
Feeding(v, x, kind) == v.id = x /\ v.sending /\ SendKind(v.app) = kind

\* Every source belongs to a view that transmits from it, and everything that
\* is in use to an application that uses it.
Owned(stk, r) ==
    /\ r \in RadioSet /\ (r.running => r.open)
    /\ \/ r.iq \in {NoSource, WebSource, KeyerSource}
       \/ \E i \in 1 .. Len(stk) : Feeding(stk[i], r.iq, "iq")
    /\ r.audio = NoSource \/ \E i \in 1 .. Len(stk) : Feeding(stk[i], r.audio, "audio")
    /\ r.tap => \E i \in 1 .. Len(stk) : Makes(stk[i].app, OpenTap)
    /\ r.capturing => \E i \in 1 .. Len(stk) : Makes(stk[i].app, Record)
    /\ r.mic => \E i \in 1 .. Len(stk) : Makes(stk[i].app, MicOn)

Carried(stk, r, m) ==
    /\ r.iq = WebSource => m.active
    /\ r.onAir => m.active \/ \E i \in 1 .. Len(stk) : stk[i].sending
    /\ m.asked = 0 => \A i \in 1 .. Len(stk) : stk[i].sending => r.onAir

Good(stk, r, m) == Shape(stk) /\ Owned(stk, r) /\ Carried(stk, r, m)

Ops == [kind : {"push"}, view : ViewSet] \cup {PopOp, RootOp}

\* The n-th queued operation, if it pushes a view.
Queued(n) ==
    LET v == pending[n].view
        top == Last(stack)
        afterRoot == n > 1 /\ pending[n - 1].kind = "root"
    IN  pending[n].kind = "push" =>
          /\ WellKinded(v) /\ ~v.sending /\ v.kind # "root"
          /\ \A i \in 1 .. Len(stack) : stack[i].id # v.id
          /\ \A m \in 1 .. Len(pending) : (pending[m].kind = "push" /\ m # n) => pending[m].view.id # v.id
          /\ v.kind \in Covers =>
                /\ top.kind = "app" /\ v.owner = top.id
                /\ v.kind = "modal" => Profile(top.app).confirm
                /\ \A m \in 1 .. n : pending[m].kind # "root"
          /\ v.kind \notin Covers =>
                afterRoot \/ top.kind \in {"root", "menu"} \/ Profile(top.app).opens # {}
          /\ afterRoot \/ Len(stack) + n <= MaxDepth

Frame ==
    /\ phase \in {"events", "drain", "sync"} /\ launched \in 0 .. MaxLaunches
    /\ phase = "events" => launched = 0 /\ \A n \in 1 .. Len(pending) : pending[n].kind # "root"
    /\ phase = "sync" => launched = 0 /\ pending = <<>>
    /\ Len(pending) <= MaxPending + 2 * launched

MorseSet == [pending : BOOLEAN, active : BOOLEAN, done : BOOLEAN, asked : Nat]

Asked == morse \in MorseSet /\ (morse.active \/ morse.pending => morse.asked # 0)

IInv ==
    /\ Good(stack, radio, morse) /\ Len(stack) <= MaxDepth
    /\ pending \in Seq(Ops) /\ \A n \in 1 .. Len(pending) : Queued(n)
    /\ Frame /\ Asked

\* The prompts and pages, when no event handler pushes after a pop.
Attended(stk) ==
    \A j \in 1 .. Len(stk) : stk[j].kind \in Covers =>
        \E i \in 1 .. Len(stk) : i < j /\ stk[i].id = stk[j].owner

PushesFirst ==
    \A n \in 1 .. Len(pending) :
        (pending[n].kind = "push" /\ \A m \in 1 .. n : pending[m].kind # "root") =>
            \A m \in 1 .. n : pending[m].kind = "push"

OwnerInv == ~PushAfterPop => Attended(stack) /\ PushesFirst

-----------------------------------------------------------------------------
(* The calls of the destructor, and the shape of the stack.                *)

LEMMA MenuIsBlank == Profile("menu") = Blank /\ ~Sends("menu") /\ SendKind("menu") = "iq"
<1>1. Profile("menu") = Blank
  BY DEF Profile
<1> QED
  BY <1>1 DEF Sends, SendKind, SendKindOf, Blank, Range

(* The calls of an application, by what they may contain.                  *)
LEMMA ProfileCalls ==
  ASSUME NEW app \in AppIds \cup {"menu"}
  PROVE  LET p == Profile(app)
             kind == SendKind(app)
         IN  /\ kind \in SendKinds
             /\ p.ctor \in Seq(QuietCalls) /\ p.show \in Seq(QuietCalls)
             /\ {p.hide, p.dtor, p.end} \subseteq Seq(Ending(kind))
             /\ p.begin \in Seq(Beginning(kind))
             /\ \A call \in {OpenTap, Record, MicOn} :
                   call \notin Range(p.ctor) \cup Range(p.hide) \cup Range(p.dtor) \cup Range(p.end)
             /\ Makes(app, OpenTap) => p.dtor # <<>> /\ p.dtor[Len(p.dtor)] = CloseTap
             /\ Makes(app, Record) => p.dtor # <<>> /\ p.dtor[Len(p.dtor)] = EndRecord
             /\ Makes(app, MicOn) => p.dtor # <<>> /\ p.dtor[Len(p.dtor)] = MicOff
             /\ Sends(app) => /\ p.dtor # <<>> /\ p.dtor[1] \in {Unsend(kind), UnsendIfSending(kind)}
                              /\ p.opens = {}
             /\ p.confirm => p.opens = {}
             /\ p.fresh \in SavedSet /\ p.modes \subseteq Words /\ p.rates \subseteq Words
<1>1. Conforms(Profile(app))
  BY ProfilesConform
<1>2. SendKind(app) \in SendKinds
  BY DEF SendKind, SendKindOf, SendKinds
<1>3. \A call \in {OpenTap, Record, MicOn} :
         call \notin Range(Profile(app).ctor) \cup Range(Profile(app).hide)
                       \cup Range(Profile(app).dtor) \cup Range(Profile(app).end)
  BY <1>1 DEF Conforms, Uninvited
<1> QED
  BY <1>1, <1>2, <1>3 DEF Conforms, SendKind, Sends, Makes, Closes

LEMMA EndingInCalls ==
  ASSUME NEW kind \in SendKinds
  PROVE  /\ Seq(QuietCalls) \subseteq Seq(Calls) /\ Seq(Ending(kind)) \subseteq Seq(Calls)
         /\ Seq(Beginning(kind)) \subseteq Seq(Calls)
         /\ Seq(QuietCalls) \subseteq Seq(Beginning(kind) \cup Ending(kind))
         /\ Seq(Ending(kind)) \subseteq Seq(Beginning(kind) \cup Ending(kind))
         /\ Seq(Beginning(kind)) \subseteq Seq(Beginning(kind) \cup Ending(kind))
<1>1. /\ QuietCalls \subseteq Calls /\ Ending(kind) \subseteq Calls /\ Beginning(kind) \subseteq Calls
      /\ QuietCalls \subseteq Beginning(kind) \cup Ending(kind)
  BY DEF Calls, Ending, Beginning, Send, Unsend, UnsendIfSending
<1>2. \A A, B : A \subseteq B => Seq(A) \subseteq Seq(B)
  OBVIOUS
<1> HIDE DEF Calls
<1> QED
  BY <1>1, <1>2

(* The quiet calls of a constructor or of on_show do not send, and those   *)
(* of on_hide, of the destructor and of the stop button do not either.     *)
LEMMA NoSend ==
  ASSUME NEW kind \in SendKinds, NEW calls \in Seq(Ending(kind)) \cup Seq(QuietCalls)
  PROVE  Send(kind) \notin Range(calls)
<1>1. Send(kind) \notin Ending(kind) \cup QuietCalls
  BY DEF Ending, QuietCalls, QuietOps, Send, Unsend, UnsendIfSending
<1>2. \A i \in DOMAIN calls : calls[i] \in Ending(kind) \cup QuietCalls
  OBVIOUS
<1> QED
  BY <1>1, <1>2 DEF Range

(* A view that is destroyed leaves no source of its own behind, and takes  *)
(* its carrier off the air.                                                *)
LEMMA DtorEffect ==
  ASSUME NEW s \in Pairs, NEW app \in AppIds \cup {"menu"},
         s.radio.iq = s.view.id => s.view.sending /\ SendKind(app) = "iq",
         s.radio.audio = s.view.id => s.view.sending /\ SendKind(app) = "audio",
         s.view.sending => Sends(app),
         s.radio.running => s.radio.open
  PROVE  LET r == Perform(s, Profile(app).dtor).radio
         IN  /\ r \in RadioSet /\ (r.running => r.open)
             /\ r.iq \in {s.radio.iq, NoSource} /\ r.iq # s.view.id
             /\ r.audio \in {s.radio.audio, NoSource} /\ r.audio # s.view.id
             /\ r.onAir => s.radio.onAir /\ ~s.view.sending
             /\ r.tap => s.radio.tap /\ ~Makes(app, OpenTap)
             /\ r.capturing => s.radio.capturing /\ ~Makes(app, Record)
             /\ r.mic => s.radio.mic /\ ~Makes(app, MicOn)
<1> DEFINE kind == SendKind(app)
           calls == Profile(app).dtor
           Off(t) == /\ t.radio.running => t.radio.open
                     /\ t.radio.iq \in {s.radio.iq, NoSource} /\ t.radio.iq # s.view.id
                     /\ t.radio.audio \in {s.radio.audio, NoSource} /\ t.radio.audio # s.view.id
                     /\ t.radio.onAir => s.radio.onAir /\ ~s.view.sending
                     /\ ~t.view.sending
           S == {t \in Pairs : Off(t)}
<1>1. /\ kind \in SendKinds /\ calls \in Seq(Ending(kind)) /\ calls \in Seq(Calls)
      /\ \A call \in {OpenTap, Record, MicOn} : call \notin Range(calls)
      /\ Sends(app) => calls # <<>> /\ calls[1] \in {Unsend(kind), UnsendIfSending(kind)}
      /\ Makes(app, OpenTap) => calls # <<>> /\ calls[Len(calls)] = CloseTap
      /\ Makes(app, Record) => calls # <<>> /\ calls[Len(calls)] = EndRecord
      /\ Makes(app, MicOn) => calls # <<>> /\ calls[Len(calls)] = MicOff
  BY ProfileCalls, EndingInCalls
<1>2. s.view.id \in Nat \ {0} /\ s.view \in ViewSet
  BY DEF Pairs, ViewSet
<1>3. ASSUME NEW t \in Pairs, NEW u \in Pairs, Off(t), Effect(t, u, kind, FALSE)
      PROVE  Off(u)
  BY <1>2, <1>3 DEF Effect, Source, OtherSource, NoSource
<1>4. ASSUME NEW t \in Pairs \cap S, NEW i \in 1 .. Len(calls)
      PROVE  Do(t, calls[i]) \in S
  <2>1. calls[i] \in Ending(kind) /\ calls[i] \in Calls /\ calls[i] # Send(kind)
    BY <1>1 DEF Ending, QuietCalls, QuietOps, Send, Unsend, UnsendIfSending
  <2>2. Do(t, calls[i]) \in Pairs /\ Effect(t, t, kind, FALSE)
    BY <2>1, DoType DEF Effect, Identity
  <2>3. Effect(t, Do(t, calls[i]), kind, FALSE)
    <3> HIDE DEF kind, S
    <3> QED
      BY <1>1, <2>1, <2>2, CallEffect
  <2>4. Off(t)
    OBVIOUS
  <2>5. Off(Do(t, calls[i]))
    <3> HIDE DEF kind, Off, calls
    <3> QED
      BY <1>3, <2>2, <2>3, <2>4
  <2> QED
    BY <2>2, <2>5
<1>5. ASSUME ~Sends(app) PROVE Perform(s, calls) \in S
  <2>1. s \in S
    BY <1>2, <1>5
  <2> HIDE DEF S, calls
  <2> QED
    BY <1>1, <1>4, <2>1, PerformKeeps
<1>6. ASSUME Sends(app) PROVE Perform(s, calls) \in S
  <2>1. calls[1] \in {Unsend(kind), UnsendIfSending(kind)} /\ calls # <<>>
    BY <1>1, <1>6
  <2>2. ASSUME Do(s, calls[1]) = EndSend(s, kind) PROVE Do(s, calls[1]) \in S
    <3> DEFINE u == EndSend(s, kind)
    <3>1. u \in Pairs
      BY <1>1, TransmitterType
    <3>2. /\ OtherSource(u.radio, kind) = OtherSource(s.radio, kind)
          /\ u.radio.running = s.radio.running /\ u.radio.open = s.radio.open
          /\ ~u.view.sending /\ ~u.radio.onAir /\ Source(u.radio, kind) = NoSource
      BY <1>1, UnsendCall
    <3> HIDE DEF u
    <3>3. Off(u)
      BY <1>2, <3>2 DEF Source, OtherSource, NoSource
    <3> QED
      BY <2>2, <3>1, <3>3 DEF u
  <2>3. ASSUME Do(s, calls[1]) = s, ~s.view.sending PROVE Do(s, calls[1]) \in S
    BY <1>2, <2>3, SMTT(40)
  <2>4. \/ Do(s, calls[1]) = EndSend(s, kind)
        \/ Do(s, calls[1]) = s /\ ~s.view.sending
    <3>1. calls[1].arg = kind /\ calls[1].op \in {"unsend", "unsendIfSending"}
      BY <2>1 DEF Unsend, UnsendIfSending
    <3> HIDE DEF calls, kind
    <3> QED
      BY <3>1 DEF Do
  <2>5. Do(s, calls[1]) \in S
    BY <2>2, <2>3, <2>4
  <2> HIDE DEF S, calls
  <2> QED
    BY <1>1, <1>4, <2>1, <2>5, PerformStarts
<1>7. Perform(s, calls) \in S
  BY <1>5, <1>6
<1>8. LET r == Perform(s, calls).radio
      IN  /\ r.tap => s.radio.tap /\ ~Makes(app, OpenTap)
          /\ r.capturing => s.radio.capturing /\ ~Makes(app, Record)
          /\ r.mic => s.radio.mic /\ ~Makes(app, MicOn)
  <2> HIDE DEF calls, kind
  <2> QED
    BY <1>1, PerformOpens, PerformCloses
<1> QED
  BY <1>7, <1>8 DEF Pairs

-----------------------------------------------------------------------------
(* Steps on the stack that keep it Good.                                   *)

LEMMA ViewFacts ==
  ASSUME NEW v \in ViewSet
  PROVE  /\ v.kind \in ViewKinds /\ v.app \in AppIds \cup {"menu"} /\ v.id \in Nat \ {0}
         /\ v.sending \in BOOLEAN /\ v.owner \in Nat
BY DEF ViewSet

LEMMA FrontFacts ==
  ASSUME NEW S, NEW q \in Seq(S), Len(q) > 1
  PROVE  /\ Front(q) \in Seq(S) /\ Len(Front(q)) = Len(q) - 1
         /\ \A i \in 1 .. Len(Front(q)) : Front(q)[i] = q[i]
         /\ Last(q) = q[Len(q)] /\ q[Len(q)] \in S
BY DEF Front, Last

(* A view changes what it does to the transmitter, not what it is.         *)
LEMMA ShapeAct ==
  ASSUME NEW stk, Shape(stk), NEW i \in 1 .. Len(stk), NEW w \in ViewSet,
         Identity(stk[i], w),
         w.sending => \/ stk[i].sending
                      \/ /\ stk[i].kind = "app" /\ Sends(stk[i].app)
                         /\ \A j \in 1 .. Len(stk) : i < j => stk[j].kind \in Covers
  PROVE  Shape([stk EXCEPT ![i] = w])
<1> DEFINE q == [stk EXCEPT ![i] = w]
<1>1. q \in Seq(ViewSet) /\ Len(q) = Len(stk) /\ Len(q) > 0
  BY DEF Shape
<1>2. q[i] = w /\ \A j \in 1 .. Len(stk) : j # i => q[j] = stk[j]
  BY DEF Shape
<1>3. \A j \in 1 .. Len(stk) : Identity(stk[j], q[j])
  BY <1>2 DEF Identity
<1> HIDE DEF q
<1>4. \A j \in 1 .. Len(q) : WellKinded(q[j]) /\ (q[j].kind = "root" <=> j = 1)
  <2> TAKE j \in 1 .. Len(q)
  <2>1. WellKinded(stk[j]) /\ (stk[j].kind = "root" <=> j = 1)
    BY <1>1 DEF Shape
  <2> QED
    BY <1>1, <1>2, <1>3, <2>1 DEF WellKinded, Identity
<1>5. \A j, k \in 1 .. Len(q) : q[j].id = q[k].id => j = k
  BY <1>1, <1>3 DEF Shape, Identity
<1>6. \A j, k \in 1 .. Len(q) : (j < k /\ q[k].kind \notin Covers) => Bare(q[j])
  <2> TAKE j, k \in 1 .. Len(q)
  <2> HAVE j < k /\ q[k].kind \notin Covers
  <2>1. stk[k].kind \notin Covers /\ Bare(stk[j])
    BY <1>1, <1>3 DEF Shape, Identity
  <2>2. CASE j = i
    BY <1>1, <1>2, <1>3, <2>1, <2>2 DEF Bare, Identity
  <2>3. CASE j # i
    BY <1>1, <1>2, <2>1, <2>3
  <2> QED
    BY <2>2, <2>3
<1>7. \A j, k, l \in 1 .. Len(q) :
         (q[l].kind = "modal" /\ q[l].owner = q[j].id /\ j < k) => q[k].kind \in Covers
  BY <1>1, <1>3 DEF Shape, Identity
<1> QED
  BY <1>1, <1>4, <1>5, <1>6, <1>7 DEF Shape, q

LEMMA ShapeDrop ==
  ASSUME NEW stk, Shape(stk), Len(stk) > 1
  PROVE  Shape(Front(stk))
<1> DEFINE q == Front(stk)
           N == Len(q)
<1>1. /\ q \in Seq(ViewSet) /\ N = Len(stk) - 1 /\ Len(stk) \in Nat
      /\ \A i \in 1 .. N : q[i] = stk[i]
  BY FrontFacts DEF Shape
<1> HIDE DEF q, N
<1>2. N > 0 /\ \A i \in 1 .. N : i \in 1 .. Len(stk)
  BY <1>1
<1>3. \A i \in 1 .. N : WellKinded(q[i]) /\ (q[i].kind = "root" <=> i = 1)
  BY <1>1, <1>2 DEF Shape
<1>4. \A i, j \in 1 .. N : q[i].id = q[j].id => i = j
  BY <1>1, <1>2 DEF Shape
<1>5. \A i, j \in 1 .. N : (i < j /\ q[j].kind \notin Covers) => Bare(q[i])
  BY <1>1, <1>2 DEF Shape
<1>6. \A i, j, k \in 1 .. N :
         (q[k].kind = "modal" /\ q[k].owner = q[i].id /\ i < j) => q[j].kind \in Covers
  BY <1>1, <1>2 DEF Shape
<1> QED
  BY <1>1, <1>2, <1>3, <1>4, <1>5, <1>6 DEF Shape, q, N

LEMMA ShapePush ==
  ASSUME NEW stk, Shape(stk), NEW v \in ViewSet, WellKinded(v), ~v.sending, v.kind # "root",
         \A i \in 1 .. Len(stk) : stk[i].id # v.id,
         v.kind \notin Covers => \A i \in 1 .. Len(stk) : Bare(stk[i]),
         v.kind = "modal" => \A i, j \in 1 .. Len(stk) :
                                (stk[i].id = v.owner /\ i < j) => stk[j].kind \in Covers
  PROVE  Shape(Append(stk, v))
<1> DEFINE q == Append(stk, v)
           N == Len(stk)
<1>1. /\ q \in Seq(ViewSet) /\ Len(q) = N + 1 /\ N \in Nat /\ N > 0
      /\ q[N + 1] = v /\ \A i \in 1 .. N : q[i] = stk[i]
      /\ \A i \in 1 .. (N + 1) : i \in 1 .. N \/ i = N + 1
  BY DEF Shape
<1> HIDE DEF q, N
<1>2. /\ \A i \in 1 .. N : WellKinded(stk[i]) /\ (stk[i].kind = "root" <=> i = 1)
      /\ \A i, j \in 1 .. N : stk[i].id = stk[j].id => i = j
      /\ \A i, j \in 1 .. N : (i < j /\ stk[j].kind \notin Covers) => Bare(stk[i])
      /\ \A i, j, k \in 1 .. N :
            (stk[k].kind = "modal" /\ stk[k].owner = stk[i].id /\ i < j) => stk[j].kind \in Covers
      /\ \A i \in 1 .. N : stk[i].id # v.id
  BY DEF Shape, N
<1>3. v.kind \notin Covers => \A i \in 1 .. N : Bare(stk[i])
  BY DEF N
<1>4. v.kind = "modal" => \A i, j \in 1 .. N : (stk[i].id = v.owner /\ i < j) => stk[j].kind \in Covers
  BY DEF N
<1>5. \A i \in 1 .. Len(q) : WellKinded(q[i]) /\ (q[i].kind = "root" <=> i = 1)
  BY <1>1, <1>2
<1>6. \A i, j \in 1 .. Len(q) : q[i].id = q[j].id => i = j
  BY <1>1, <1>2
<1>7. \A i, j \in 1 .. Len(q) : (i < j /\ q[j].kind \notin Covers) => Bare(q[i])
  BY <1>1, <1>2, <1>3
<1>8. \A i, j, k \in 1 .. Len(q) :
         (q[k].kind = "modal" /\ q[k].owner = q[i].id /\ i < j) => q[j].kind \in Covers
  <2> TAKE i, j, k \in 1 .. Len(q)
  <2> HAVE q[k].kind = "modal" /\ q[k].owner = q[i].id /\ i < j
  <2>1. i \in 1 .. N
    BY <1>1
  <2>2. CASE j = N + 1
    <3> SUFFICES ASSUME v.kind \notin Covers PROVE FALSE
      BY <1>1, <2>2
    <3>1. k # N + 1
      BY <1>1 DEF Covers
    <3>2. Bare(stk[k]) /\ q[k] = stk[k]
      BY <1>1, <1>3, <3>1
    <3> QED
      BY <3>2 DEF Bare
  <2>3. CASE j \in 1 .. N
    <3>1. CASE k = N + 1
      BY <1>1, <1>4, <2>1, <2>3, <3>1
    <3>2. CASE k \in 1 .. N
      BY <1>1, <1>2, <2>1, <2>3, <3>2
    <3> QED
      BY <1>1, <3>1, <3>2
  <2> QED
    BY <1>1, <2>2, <2>3
<1> QED
  BY <1>1, <1>5, <1>6, <1>7, <1>8 DEF Shape, q

(* Nothing below a view that is neither a page nor a prompt transmits.     *)
LEMMA Alone ==
  ASSUME NEW stk, Shape(stk), NEW i \in 1 .. Len(stk), stk[i].kind = "app",
         \A j \in 1 .. Len(stk) : i < j => stk[j].kind \in Covers
  PROVE  \A j \in 1 .. Len(stk) : j # i => ~stk[j].sending
<1> TAKE j \in 1 .. Len(stk)
<1> HAVE j # i
<1>1. CASE j < i
  BY <1>1 DEF Shape, Bare, Covers
<1>2. CASE i < j
  BY <1>2 DEF Shape, WellKinded, Covers
<1> QED
  BY <1>1, <1>2

\* The calls are of an application that may make them where it is.
Allowed(stk, i, calls) ==
    /\ calls \in Seq(Beginning(SendKind(stk[i].app)) \cup Ending(SendKind(stk[i].app)))
    /\ \A call \in {OpenTap, Record, MicOn} : call \in Range(calls) => Makes(stk[i].app, call)
    /\ calls # <<>> => /\ stk[i].kind = "app"
                       /\ \A j \in 1 .. Len(stk) : i < j => stk[j].kind \in Covers
    /\ Send(SendKind(stk[i].app)) \in Range(calls) => Sends(stk[i].app)

LEMMA GoodAct ==
  ASSUME NEW stk, NEW r, NEW m, Good(stk, r, m), NEW i \in 1 .. Len(stk),
         NEW v \in ViewSet, Identity(stk[i], v), v.sending = stk[i].sending,
         NEW calls, Allowed(stk, i, calls),
         NEW w \in ViewSet, Identity(Perform([radio |-> r, view |-> v], calls).view, w),
         w.sending = Perform([radio |-> r, view |-> v], calls).view.sending
  PROVE  /\ Good([stk EXCEPT ![i] = w], Perform([radio |-> r, view |-> v], calls).radio, m)
         /\ Identity(stk[i], w)
<1> DEFINE kind == SendKind(stk[i].app)
           s == [radio |-> r, view |-> v]
           t == Perform(s, calls)
           q == [stk EXCEPT ![i] = w]
           may == Send(kind) \in Range(calls)
<1>1. Shape(stk) /\ Owned(stk, r) /\ Carried(stk, r, m) /\ stk[i] \in ViewSet /\ stk \in Seq(ViewSet)
  BY DEF Good, Shape
<1>2. s \in Pairs /\ s.radio = r /\ s.view = v /\ r \in RadioSet
  BY <1>1 DEF Pairs, Owned
<1>3. kind \in SendKinds
  BY <1>1, ViewFacts, ProfileCalls
<1>4. t \in Pairs /\ Effect(s, t, kind, may)
  <2> HIDE DEF s
  <2> QED
    BY <1>2, <1>3, PerformEffect DEF Allowed
<1>5. t.radio \in RadioSet /\ t.view \in ViewSet
  BY <1>4 DEF Pairs
<1>6. Identity(stk[i], w)
  BY <1>2, <1>4 DEF Effect, Identity
<1>7. calls = <<>> \/ \A j \in 1 .. Len(stk) : j # i => ~stk[j].sending
  BY <1>1, Alone DEF Allowed
<1>8. \/ /\ Source(t.radio, kind) = Source(r, kind)
         /\ t.radio.onAir = r.onAir /\ w.sending = stk[i].sending
      \/ may /\ w.sending /\ t.radio.onAir /\ Source(t.radio, kind) = Mine(v, kind)
      \/ /\ ~t.radio.onAir /\ Source(t.radio, kind) = NoSource
         /\ (w.sending => stk[i].sending /\ ~r.onAir)
         /\ \A j \in 1 .. Len(stk) : j # i => ~stk[j].sending
  <2>1. CASE calls = <<>>
    <3>1. t = s
      BY <1>2, <2>1, PerformNothing
    <3> QED
      BY <1>2, <3>1
  <2>2. CASE \A j \in 1 .. Len(stk) : j # i => ~stk[j].sending
    <3>1. w.sending = t.view.sending
      OBVIOUS
    <3> HIDE DEF t, s, kind, may
    <3> QED
      BY <1>2, <1>4, <2>2, <3>1 DEF Effect
  <2> QED
    BY <1>7, <2>1, <2>2
<1>9. OtherSource(t.radio, kind) = OtherSource(r, kind) /\ (t.radio.running => t.radio.open)
  BY <1>1, <1>2, <1>4 DEF Effect, Owned
<1>10. /\ t.radio.tap => r.tap \/ Makes(stk[i].app, OpenTap)
       /\ t.radio.capturing => r.capturing \/ Makes(stk[i].app, Record)
       /\ t.radio.mic => r.mic \/ Makes(stk[i].app, MicOn)
  <2>1. calls \in Seq(Calls)
    BY <1>3 DEF Allowed, Beginning, Ending, Calls, Send, Unsend, UnsendIfSending
  <2> HIDE DEF s
  <2> QED
    BY <1>2, <2>1, PerformOpens DEF Allowed
<1>11. /\ \A j \in 1 .. Len(stk) : j # i => q[j] = stk[j]
       /\ q[i] = w /\ Len(q) = Len(stk)
  BY <1>1
<1>12. may => /\ stk[i].kind = "app" /\ Sends(stk[i].app)
              /\ \A j \in 1 .. Len(stk) : i < j => stk[j].kind \in Covers
  BY DEF Allowed, Range
<1>13. Shape(q)
  <2> HIDE DEF may, kind, t
  <2>1. w.sending => stk[i].sending \/ may
    BY <1>8
  <2> QED
    BY <1>1, <1>6, <1>12, <2>1, ShapeAct
<1> HIDE DEF q, t, s, may
<1>14. w.id = stk[i].id /\ w.app = stk[i].app /\ v.id = stk[i].id /\ w.id \in Nat \ {0}
  BY <1>6, ViewFacts DEF Identity
<1>15. Owned(q, t.radio)
  <2>1. ASSUME NEW x, NEW kd \in {"iq", "audio"}, NEW j \in 1 .. Len(stk), Feeding(stk[j], x, kd), j # i
        PROVE  Feeding(q[j], x, kd)
    BY <1>11, <2>1
  <2>2. ASSUME NEW x, NEW kd \in {"iq", "audio"}, Feeding(stk[i], x, kd), w.sending
        PROVE  Feeding(q[i], x, kd)
    BY <1>11, <1>14, <2>2 DEF Feeding
  <2>3. \/ t.radio.iq \in {NoSource, WebSource, KeyerSource}
        \/ \E j \in 1 .. Len(q) : Feeding(q[j], t.radio.iq, "iq")
    <3>1. CASE t.radio.iq = r.iq
      <4>1. ASSUME NEW j \in 1 .. Len(stk), Feeding(stk[j], r.iq, "iq")
            PROVE  r.iq = NoSource \/ Feeding(q[j], r.iq, "iq")
        <5>1. CASE j # i
          BY <2>1, <4>1, <5>1
        <5>2. CASE j = i
          <6>1. kind = "iq" /\ stk[i].sending
            BY <4>1, <5>2 DEF Feeding
          <6>2. w.sending \/ t.radio.iq = NoSource
            BY <1>8, <6>1 DEF Source
          <6> QED
            BY <2>2, <3>1, <4>1, <5>2, <6>2
        <5> QED
          BY <5>1, <5>2
      <4> QED
        BY <1>1, <1>11, <3>1, <4>1 DEF Owned
    <3>2. CASE t.radio.iq # r.iq
      <4>1. kind # "audio"
        BY <1>9, <3>2 DEF OtherSource
      <4>2. t.radio.iq = NoSource \/ (may /\ w.sending /\ t.radio.iq = Mine(v, kind))
        <5>1. Source(t.radio, kind) = t.radio.iq /\ Source(r, kind) = r.iq
          BY <4>1 DEF Source
        <5> QED
          BY <1>8, <3>2, <5>1
      <4>3. CASE kind = "keyer"
        BY <4>2, <4>3 DEF Mine
      <4>4. CASE kind = "iq"
        <5>1. t.radio.iq = NoSource \/ Feeding(q[i], t.radio.iq, "iq")
          BY <1>11, <1>14, <4>2, <4>4 DEF Mine, Feeding
        <5> QED
          BY <1>11, <5>1
      <4> QED
        BY <1>3, <4>1, <4>3, <4>4 DEF SendKinds
    <3> QED
      BY <3>1, <3>2
  <2>4. \/ t.radio.audio = NoSource
        \/ \E j \in 1 .. Len(q) : Feeding(q[j], t.radio.audio, "audio")
    <3>1. CASE t.radio.audio = r.audio
      <4>1. ASSUME NEW j \in 1 .. Len(stk), Feeding(stk[j], r.audio, "audio")
            PROVE  r.audio = NoSource \/ Feeding(q[j], r.audio, "audio")
        <5>1. CASE j # i
          BY <2>1, <4>1, <5>1
        <5>2. CASE j = i
          <6>1. kind = "audio" /\ stk[i].sending
            BY <4>1, <5>2 DEF Feeding
          <6>2. w.sending \/ t.radio.audio = NoSource
            BY <1>8, <6>1 DEF Source
          <6> QED
            BY <2>2, <3>1, <4>1, <5>2, <6>2
        <5> QED
          BY <5>1, <5>2
      <4> QED
        BY <1>1, <1>11, <3>1, <4>1 DEF Owned
    <3>2. CASE t.radio.audio # r.audio
      <4>1. kind = "audio"
        BY <1>9, <3>2 DEF OtherSource
      <4>2. t.radio.audio = NoSource \/ (may /\ w.sending /\ t.radio.audio = Mine(v, kind))
        <5>1. Source(t.radio, kind) = t.radio.audio /\ Source(r, kind) = r.audio
          BY <4>1 DEF Source
        <5> QED
          BY <1>8, <3>2, <5>1
      <4>3. t.radio.audio = NoSource \/ Feeding(q[i], t.radio.audio, "audio")
        BY <1>11, <1>14, <4>1, <4>2 DEF Mine, Feeding
      <4> QED
        BY <1>11, <4>3
    <3> QED
      BY <3>1, <3>2
  <2>5. \A j \in 1 .. Len(stk) : q[j].app = stk[j].app
    BY <1>11, <1>14
  <2>6. /\ t.radio.tap => \E j \in 1 .. Len(q) : Makes(q[j].app, OpenTap)
        /\ t.radio.capturing => \E j \in 1 .. Len(q) : Makes(q[j].app, Record)
        /\ t.radio.mic => \E j \in 1 .. Len(q) : Makes(q[j].app, MicOn)
    BY <1>1, <1>10, <1>11, <2>5 DEF Owned
  <2> QED
    BY <1>5, <1>9, <2>3, <2>4, <2>6 DEF Owned
<1>16. Carried(q, t.radio, m)
  <2>1. t.radio.iq = WebSource => m.active
    <3>1. t.radio.iq = r.iq \/ t.radio.iq = NoSource \/ t.radio.iq = Mine(v, kind)
      BY <1>8, <1>9 DEF Source, OtherSource
    <3>2. NoSource # WebSource /\ Mine(v, kind) # WebSource
      BY <1>14 DEF NoSource, WebSource, KeyerSource, Mine
    <3> QED
      BY <1>1, <3>1, <3>2 DEF Carried
  <2>2. t.radio.onAir => m.active \/ \E j \in 1 .. Len(q) : q[j].sending
    <3>1. r.onAir /\ w.sending = stk[i].sending => m.active \/ \E j \in 1 .. Len(q) : q[j].sending
      BY <1>1, <1>11 DEF Carried
    <3>2. w.sending => \E j \in 1 .. Len(q) : q[j].sending
      BY <1>11
    <3> QED
      BY <1>8, <3>1, <3>2
  <2>3. ASSUME m.asked = 0, NEW j \in 1 .. Len(q), q[j].sending PROVE t.radio.onAir
    <3>1. stk[j].sending => r.onAir
      BY <1>1, <1>11, <2>3 DEF Carried
    <3>2. CASE j # i
      BY <1>8, <1>11, <2>3, <3>1, <3>2
    <3>3. CASE j = i
      BY <1>8, <1>11, <2>3, <3>1, <3>3
    <3> QED
      BY <3>2, <3>3
  <2> QED
    BY <2>1, <2>2, <2>3 DEF Carried
<1> QED
  BY <1>6, <1>13, <1>15, <1>16 DEF Good, q, t, s

LEMMA GoodDrop ==
  ASSUME NEW stk, NEW r, NEW m, Good(stk, r, m), Len(stk) > 1
  PROVE  Good(Front(stk),
              Perform([radio |-> r, view |-> Last(stk)], Profile(Last(stk).app).dtor).radio, m)
<1> DEFINE N == Len(stk)
           v == stk[N]
           s == [radio |-> r, view |-> v]
           u == Perform(s, Profile(v.app).dtor).radio
           q == Front(stk)
<1>1. Shape(stk) /\ Owned(stk, r) /\ Carried(stk, r, m) /\ stk \in Seq(ViewSet) /\ N \in Nat /\ N > 1
  BY DEF Good, Shape
<1>2. /\ q \in Seq(ViewSet) /\ Len(q) = N - 1 /\ (\A i \in 1 .. Len(q) : q[i] = stk[i])
      /\ Last(stk) = v /\ v \in ViewSet /\ N \in 1 .. N
  BY <1>1, FrontFacts
<1>3. s \in Pairs /\ s.radio = r /\ s.view = v /\ r \in RadioSet
  BY <1>1, <1>2 DEF Pairs, Owned
<1>4. v.id \in Nat \ {0} /\ v.app \in AppIds \cup {"menu"} /\ WellKinded(v)
  BY <1>1, <1>2, ViewFacts DEF Shape
<1>5. /\ r.iq = v.id => v.sending /\ SendKind(v.app) = "iq"
      /\ r.audio = v.id => v.sending /\ SendKind(v.app) = "audio"
  <2>1. \A i \in 1 .. N : stk[i].id = v.id => stk[i] = v
    BY <1>1, <1>2 DEF Shape
  <2> HIDE DEF v
  <2>2. v.id \notin {NoSource, WebSource, KeyerSource}
    BY <1>4 DEF NoSource, WebSource, KeyerSource
  <2> QED
    BY <1>1, <2>1, <2>2 DEF Owned, Feeding
<1>6. /\ u \in RadioSet /\ (u.running => u.open)
      /\ u.iq \in {r.iq, NoSource} /\ u.iq # v.id
      /\ u.audio \in {r.audio, NoSource} /\ u.audio # v.id
      /\ u.onAir => r.onAir /\ ~v.sending
      /\ u.tap => r.tap /\ ~Makes(v.app, OpenTap)
      /\ u.capturing => r.capturing /\ ~Makes(v.app, Record)
      /\ u.mic => r.mic /\ ~Makes(v.app, MicOn)
  <2>1. r.running => r.open
    BY <1>1 DEF Owned
  <2>2. v.sending => Sends(v.app)
    BY <1>4 DEF WellKinded
  <2> HIDE DEF s, v
  <2> QED
    BY <1>3, <1>4, <1>5, <2>1, <2>2, DtorEffect
<1>7. u = r \/ \A i \in 1 .. N : i # N => ~stk[i].sending
  <2>1. CASE v.kind = "app"
    BY <1>1, <1>2, <2>1, Alone
  <2>2. CASE v.kind # "app"
    <3>1. Profile(v.app).dtor = <<>>
      BY <1>4, <2>2, MenuIsBlank DEF WellKinded, Blank
    <3> HIDE DEF s
    <3> QED
      BY <1>3, <3>1, PerformNothing
  <2> QED
    BY <2>1, <2>2
<1>8. \A i \in 1 .. N : i \in 1 .. Len(q) \/ i = N
  BY <1>1, <1>2
<1>10. \A i \in 1 .. Len(q) : i \in 1 .. N /\ i # N /\ q[i] = stk[i]
  BY <1>1, <1>2
<1>9. Shape(q)
  BY <1>1, ShapeDrop
<1> HIDE DEF u, q, v, s, N
<1>11. Owned(q, u)
  <2>1. ASSUME NEW x, NEW kd \in {"iq", "audio"}, NEW j \in 1 .. N, Feeding(stk[j], x, kd), x # v.id
        PROVE  j \in 1 .. Len(q) /\ Feeding(q[j], x, kd)
    <3>1. j # N
      BY <2>1 DEF Feeding, v
    <3> QED
      BY <1>8, <1>10, <2>1, <3>1
  <2>2. \/ u.iq \in {NoSource, WebSource, KeyerSource}
        \/ \E j \in 1 .. Len(q) : Feeding(q[j], u.iq, "iq")
    BY <1>1, <1>6, <2>1 DEF Owned, N
  <2>3. \/ u.audio = NoSource
        \/ \E j \in 1 .. Len(q) : Feeding(q[j], u.audio, "audio")
    BY <1>1, <1>6, <2>1 DEF Owned, N
  <2>4. ASSUME NEW call, NEW j \in 1 .. N, Makes(stk[j].app, call), ~Makes(v.app, call)
        PROVE  \E k \in 1 .. Len(q) : Makes(q[k].app, call)
    <3>1. j # N
      BY <2>4 DEF v
    <3> QED
      BY <1>8, <1>10, <2>4, <3>1
  <2>5. /\ u.tap => \E j \in 1 .. Len(q) : Makes(q[j].app, OpenTap)
        /\ u.capturing => \E j \in 1 .. Len(q) : Makes(q[j].app, Record)
        /\ u.mic => \E j \in 1 .. Len(q) : Makes(q[j].app, MicOn)
    BY <1>1, <1>6, <2>4 DEF Owned, N
  <2> QED
    BY <1>6, <2>2, <2>3, <2>5 DEF Owned
<1>12. Carried(q, u, m)
  <2>1. u.iq = WebSource => m.active
    BY <1>1, <1>6 DEF Carried, NoSource, WebSource
  <2>2. u.onAir => m.active \/ \E j \in 1 .. Len(q) : q[j].sending
    <3>1. ASSUME NEW j \in 1 .. N, stk[j].sending, ~v.sending PROVE \E k \in 1 .. Len(q) : q[k].sending
      BY <1>8, <1>10, <3>1 DEF v
    <3> QED
      BY <1>1, <1>6, <3>1 DEF Carried, N
  <2>3. ASSUME m.asked = 0, NEW j \in 1 .. Len(q), q[j].sending PROVE u.onAir
    BY <1>1, <1>7, <1>10, <2>3 DEF Carried, N
  <2> QED
    BY <2>1, <2>2, <2>3 DEF Carried
<1> QED
  BY <1>2, <1>9, <1>11, <1>12 DEF Good, q, u, s

LEMMA GoodPush ==
  ASSUME NEW stk, NEW r, NEW m, Good(stk, r, m),
         NEW v \in ViewSet, WellKinded(v), ~v.sending, v.kind # "root",
         \A i \in 1 .. Len(stk) : stk[i].id # v.id,
         v.kind \notin Covers => \A i \in 1 .. Len(stk) : Bare(stk[i]),
         v.kind = "modal" => \A i, j \in 1 .. Len(stk) :
                                (stk[i].id = v.owner /\ i < j) => stk[j].kind \in Covers
  PROVE  Good(Append(stk, v), r, m)
<1> DEFINE q == Append(stk, v)
<1>1. Shape(stk) /\ Owned(stk, r) /\ Carried(stk, r, m) /\ stk \in Seq(ViewSet)
  BY DEF Good, Shape
<1>2. Shape(q)
  BY <1>1, ShapePush
<1>3. /\ Len(q) = Len(stk) + 1 /\ Len(stk) \in Nat /\ q[Len(stk) + 1] = v
      /\ \A i \in 1 .. Len(stk) : i \in 1 .. Len(q) /\ q[i] = stk[i]
      /\ \A i \in 1 .. Len(q) : i \in 1 .. Len(stk) \/ i = Len(stk) + 1
  BY <1>1
<1> HIDE DEF q
<1>4. Owned(q, r)
  BY <1>1, <1>3 DEF Owned
<1>5. Carried(q, r, m)
  BY <1>1, <1>3 DEF Carried
<1> QED
  BY <1>2, <1>4, <1>5 DEF Good, q

-----------------------------------------------------------------------------
(* What service() does to the stack.                                       *)

Services == [stack : Seq(ViewSet) \ {<<>>}, radio : RadioSet, changed : BOOLEAN]

\* Views are hidden and destroyed from the top, and no view begins to transmit.
Trims(stk, q) ==
    /\ Len(q) <= Len(stk)
    /\ \A i \in 1 .. Len(q) : Identity(stk[i], q[i]) /\ (q[i].sending => stk[i].sending)

LEMMA TrimsTwice ==
  ASSUME NEW a \in Seq(ViewSet), NEW b \in Seq(ViewSet), NEW c \in Seq(ViewSet),
         Trims(a, b), Trims(b, c)
  PROVE  Trims(a, c)
<1>1. Len(a) \in Nat /\ Len(b) \in Nat /\ Len(c) \in Nat
  OBVIOUS
<1>2. Len(c) <= Len(a) /\ \A i \in 1 .. Len(c) : i \in 1 .. Len(b)
  BY <1>1 DEF Trims
<1> QED
  BY <1>2 DEF Trims, Identity

LEMMA TopFacts ==
  ASSUME NEW s \in Services
  PROVE  /\ s.stack \in Seq(ViewSet) /\ Len(s.stack) \in Nat \ {0} /\ s.radio \in RadioSet
         /\ Last(s.stack) = s.stack[Len(s.stack)] /\ Last(s.stack) \in ViewSet
         /\ Last(s.stack).app \in AppIds \cup {"menu"}
         /\ [radio |-> s.radio, view |-> Last(s.stack)] \in Pairs
<1>1. s.stack \in Seq(ViewSet) /\ s.stack # <<>> /\ s.radio \in RadioSet
  BY DEF Services
<1>2. Len(s.stack) \in Nat \ {0} /\ s.stack[Len(s.stack)] \in ViewSet
  BY <1>1, SMTT(40)
<1> QED
  BY <1>1, <1>2, ViewFacts DEF Last, Pairs

LEMMA HideTopIs ==
  ASSUME NEW s \in Services
  PROVE  LET t == Perform([radio |-> s.radio, view |-> Last(s.stack)], Profile(Last(s.stack).app).hide)
             w == [t.view EXCEPT !.fresh = FALSE]
         IN  /\ t \in Pairs /\ w \in ViewSet /\ Identity(t.view, w) /\ w.sending = t.view.sending
             /\ HideTop(s) = [stack |-> [s.stack EXCEPT ![Len(s.stack)] = w],
                              radio |-> t.radio, changed |-> s.changed]
             /\ HideTop(s) \in Services
<1> DEFINE app == Last(s.stack).app
           t == Perform([radio |-> s.radio, view |-> Last(s.stack)], Profile(app).hide)
           w == [t.view EXCEPT !.fresh = FALSE]
           N == Len(s.stack)
<1>1. /\ s.stack \in Seq(ViewSet) /\ s.radio \in RadioSet /\ N \in Nat \ {0}
      /\ app \in AppIds \cup {"menu"} /\ [radio |-> s.radio, view |-> Last(s.stack)] \in Pairs
  BY TopFacts
<1>2. Profile(app).hide \in Seq(Calls)
  BY <1>1, ProfileCalls, EndingInCalls
<1>3. t \in Pairs
  <2>1. \A S : [radio |-> s.radio, view |-> Last(s.stack)] \in S /\ S = Pairs =>
            Perform([radio |-> s.radio, view |-> Last(s.stack)], Profile(app).hide) \in S \cap Pairs
    BY <1>1, <1>2, PerformKeeps, DoType
  <2> QED
    BY <1>1, <2>1
<1>4. t.view \in ViewSet /\ t.radio \in RadioSet
  BY <1>3 DEF Pairs
<1>5. w \in ViewSet /\ Identity(t.view, w) /\ w.sending = t.view.sending
  BY <1>4 DEF ViewSet, Identity
<1>6. HideTop(s) = [s EXCEPT !.radio = t.radio, !.stack = [s.stack EXCEPT ![N] = w]]
  <2> DEFINE u == [t EXCEPT !.view.fresh = FALSE]
  <2>1. HideTop(s) = [s EXCEPT !.radio = u.radio, !.stack[N] = u.view]
    BY DEF HideTop, Returned
  <2>2. u.radio = t.radio /\ u.view = w
    <3> HIDE DEF t
    <3> QED
      BY <1>3 DEF Pairs, w
  <2> HIDE DEF u, w
  <2> QED
    BY <2>1, <2>2 DEF Services
<1> HIDE DEF t, w
<1>7. HideTop(s) = [stack |-> [s.stack EXCEPT ![N] = w], radio |-> t.radio, changed |-> s.changed]
  BY <1>6 DEF Services
<1>8. [s.stack EXCEPT ![N] = w] \in Seq(ViewSet) /\ Len([s.stack EXCEPT ![N] = w]) = N
  BY <1>1, <1>5
<1>9. [s.stack EXCEPT ![N] = w] # <<>> /\ s.changed \in BOOLEAN
  BY <1>1, <1>8 DEF Services
<1>10. HideTop(s) \in Services
  BY <1>4, <1>7, <1>8, <1>9 DEF Services
<1> QED
  BY <1>3, <1>5, <1>7, <1>10 DEF t, w

LEMMA DropTopIs ==
  ASSUME NEW s \in Services, Len(s.stack) > 1
  PROVE  LET r == Perform([radio |-> s.radio, view |-> Last(s.stack)], Profile(Last(s.stack).app).dtor).radio
         IN  /\ DropTop(s) = [stack |-> Front(s.stack), radio |-> r, changed |-> s.changed]
             /\ DropTop(s) \in Services /\ Len(DropTop(s).stack) = Len(s.stack) - 1
             /\ Trims(s.stack, DropTop(s).stack)
<1> DEFINE app == Last(s.stack).app
           t == Perform([radio |-> s.radio, view |-> Last(s.stack)], Profile(app).dtor)
           q == Front(s.stack)
<1>1. /\ s.stack \in Seq(ViewSet) /\ s.radio \in RadioSet
      /\ app \in AppIds \cup {"menu"} /\ [radio |-> s.radio, view |-> Last(s.stack)] \in Pairs
  BY TopFacts
<1>2. Profile(app).dtor \in Seq(Calls)
  BY <1>1, ProfileCalls, EndingInCalls
<1>3. t \in Pairs
  <2>1. \A S : [radio |-> s.radio, view |-> Last(s.stack)] \in S /\ S = Pairs =>
            Perform([radio |-> s.radio, view |-> Last(s.stack)], Profile(app).dtor) \in S \cap Pairs
    BY <1>1, <1>2, PerformKeeps, DoType
  <2> QED
    BY <1>1, <2>1
<1>4. t.radio \in RadioSet
  BY <1>3 DEF Pairs
<1>5. q \in Seq(ViewSet) /\ Len(q) = Len(s.stack) - 1 /\ \A i \in 1 .. Len(q) : q[i] = s.stack[i]
  BY <1>1, FrontFacts
<1>6. q # <<>> /\ Trims(s.stack, q)
  BY <1>1, <1>5 DEF Trims, Identity
<1>7. DropTop(s) = [s EXCEPT !.radio = t.radio, !.stack = q]
  BY DEF DropTop
<1> HIDE DEF t, q
<1>8. DropTop(s) = [stack |-> q, radio |-> t.radio, changed |-> s.changed] /\ s.changed \in BOOLEAN
  BY <1>7 DEF Services
<1>9. DropTop(s) \in Services /\ DropTop(s).stack = q
  BY <1>4, <1>5, <1>6, <1>8 DEF Services
<1> QED
  BY <1>5, <1>6, <1>8, <1>9 DEF t, q

(* on_hide() of the view on top keeps the stack and the radio Good.        *)
LEMMA HideTopGood ==
  ASSUME NEW s \in Services, NEW m
  PROVE  LET h == HideTop(s)
         IN  /\ h \in Services /\ Len(h.stack) = Len(s.stack) /\ h.changed = s.changed
             /\ Good(s.stack, s.radio, m) => Good(h.stack, h.radio, m) /\ Trims(s.stack, h.stack)
<1> DEFINE N == Len(s.stack)
           top == Last(s.stack)
           calls == Profile(top.app).hide
           t == Perform([radio |-> s.radio, view |-> top], calls)
           w == [t.view EXCEPT !.fresh = FALSE]
           q == [s.stack EXCEPT ![N] = w]
<1>1. /\ t \in Pairs /\ w \in ViewSet /\ Identity(t.view, w) /\ w.sending = t.view.sending
      /\ HideTop(s) = [stack |-> q, radio |-> t.radio, changed |-> s.changed]
      /\ HideTop(s) \in Services
  BY HideTopIs
<1>2. /\ s.stack \in Seq(ViewSet) /\ N \in Nat \ {0} /\ s.radio \in RadioSet
      /\ top = s.stack[N] /\ top \in ViewSet /\ top.app \in AppIds \cup {"menu"}
      /\ [radio |-> s.radio, view |-> top] \in Pairs
  BY TopFacts, SMTT(40)
<1>3. Len(q) = N /\ q[N] = w /\ \A i \in 1 .. N : i # N => q[i] = s.stack[i]
  BY <1>2, SMTT(40)
<1>4. HideTop(s).stack = q /\ HideTop(s).radio = t.radio /\ HideTop(s).changed = s.changed
  BY <1>1
<1>5. ASSUME Good(s.stack, s.radio, m) PROVE Good(q, t.radio, m) /\ Trims(s.stack, q)
  <2> DEFINE kind == SendKind(top.app)
  <2>1. kind \in SendKinds /\ calls \in Seq(Ending(kind)) /\ calls \in Seq(Beginning(kind) \cup Ending(kind))
        /\ \A call \in {OpenTap, Record, MicOn} : call \notin Range(calls)
    BY <1>2, ProfileCalls, EndingInCalls
  <2>2. Send(kind) \notin Range(calls)
    BY <2>1, NoSend
  <2>3. Shape(s.stack) /\ WellKinded(top)
    BY <1>2, <1>5 DEF Good, Shape
  <2>4. calls # <<>> => top.kind = "app"
    BY <2>3, MenuIsBlank DEF WellKinded, Blank
  <2> HIDE DEF calls, kind
  <2>5. Allowed(s.stack, N, calls)
    BY <1>2, <2>1, <2>2, <2>4 DEF Allowed, kind
  <2>6. Identity(top, top)
    BY DEF Identity
  <2> HIDE DEF t, w, q
  <2>7. Good(q, t.radio, m) /\ Identity(top, w)
    BY <1>1, <1>2, <1>5, <2>5, <2>6, GoodAct, SMTT(40) DEF t, q
  <2>8. w.sending => top.sending
    <3>1. Effect([radio |-> s.radio, view |-> top], t, kind, Send(kind) \in Range(calls))
      BY <1>2, <2>1, PerformEffect DEF t
    <3> QED
      BY <1>1, <2>2, <3>1 DEF Effect
  <2>9. Trims(s.stack, q)
    BY <1>2, <1>3, <2>7, <2>8 DEF Trims, Identity
  <2> QED
    BY <2>7, <2>9
<1> HIDE DEF q, t
<1> QED
  BY <1>1, <1>3, <1>4, <1>5

LEMMA DropTopGood ==
  ASSUME NEW s \in Services, Len(s.stack) > 1, NEW m, Good(s.stack, s.radio, m)
  PROVE  Good(DropTop(s).stack, DropTop(s).radio, m)
<1> DEFINE r == Perform([radio |-> s.radio, view |-> Last(s.stack)], Profile(Last(s.stack).app).dtor).radio
<1>1. DropTop(s) = [stack |-> Front(s.stack), radio |-> r, changed |-> s.changed]
  BY DropTopIs
<1>2. Good(Front(s.stack), r, m)
  BY GoodDrop
<1> HIDE DEF r
<1> QED
  BY <1>1, <1>2

LEMMA DropAboveRootRuns ==
  ASSUME NEW s \in Services
  PROVE  \E f \in [0 .. (Len(s.stack) - 1) -> Services] :
            /\ f[0] = s
            /\ \A n \in 1 .. (Len(s.stack) - 1) : Len(f[n - 1].stack) > 1 /\ f[n] = DropTop(f[n - 1])
            /\ Len(f[Len(s.stack) - 1].stack) = 1
            /\ DropAboveRoot(s) = f[Len(s.stack) - 1]
<1> DEFINE N == Len(s.stack) - 1
           Runs(f) == f = [n \in 0 .. N |-> IF n = 0 THEN s ELSE DropTop(f[n - 1])]
           step == [p \in (1 .. N) \X Services |->
                       IF Len(p[2].stack) > 1 THEN DropTop(p[2]) ELSE p[2]]
<1>1. N \in Nat /\ s.stack \in Seq(ViewSet) /\ Len(s.stack) = N + 1
  <2>1. s.stack \in Seq(ViewSet) /\ Len(s.stack) \in Nat \ {0}
    BY TopFacts
  <2> QED
    BY <2>1
<1>2. step \in [(1 .. N) \X Services -> Services]
  BY DropTopIs
<1>3. PICK f : Unfolds(f, N, Services, s, step)
  <2> HIDE DEF step, N
  <2> QED
    BY <1>1, <1>2, Recursion
<1>4. f \in [0 .. N -> Services] /\ f[0] = s
      /\ \A n \in 1 .. N : f[n] = IF Len(f[n - 1].stack) > 1 THEN DropTop(f[n - 1]) ELSE f[n - 1]
  <2>1. \A n \in 1 .. N : n - 1 \in 0 .. N
    BY <1>1
  <2> HIDE DEF N
  <2> QED
    BY <1>3, <2>1 DEF Unfolds
<1> HIDE DEF N
<1>5. \A n \in 0 .. N : Len(f[n].stack) = N + 1 - n
  <2> DEFINE T == {n \in 0 .. N : Len(f[n].stack) = N + 1 - n}
  <2>1. 0 \in T
    BY <1>1, <1>4
  <2>2. ASSUME NEW n \in 0 .. (N - 1), n \in T PROVE n + 1 \in T
    <3>1. n + 1 \in 1 .. N /\ n + 1 \in 0 .. N /\ (n + 1) - 1 = n /\ n \in 0 .. N
      BY <1>1
    <3>2. f[n] \in Services /\ Len(f[n].stack) = N + 1 - n /\ N + 1 - n > 1
      BY <1>1, <1>4, <2>2, <3>1
    <3>3. f[n + 1] = DropTop(f[n])
      BY <1>4, <3>1, <3>2
    <3>4. Len(DropTop(f[n]).stack) = Len(f[n].stack) - 1
      BY <3>2, DropTopIs
    <3> QED
      BY <1>1, <3>1, <3>2, <3>3, <3>4
  <2>3. \A n \in 0 .. N : n \in T
    <3> HIDE DEF T
    <3> QED
      BY <1>1, <2>1, <2>2, UpTo
  <2> QED
    BY <2>3
<1>6. \A n \in 1 .. N : Len(f[n - 1].stack) > 1 /\ f[n] = DropTop(f[n - 1])
  <2> TAKE n \in 1 .. N
  <2>1. n - 1 \in 0 .. N /\ N + 1 - (n - 1) > 1
    BY <1>1
  <2> QED
    BY <1>4, <1>5, <2>1
<1>7. Runs(f)
  BY <1>1, <1>4, <1>6
<1> DEFINE g == CHOOSE h : Runs(h)
<1>8. Runs(g)
  BY <1>7
<1> HIDE DEF g
<1>9. \A n \in 0 .. N : g[n] = f[n]
  <2> DEFINE T == {n \in 0 .. N : g[n] = f[n]}
  <2>1. 0 \in T
    BY <1>1, <1>4, <1>8
  <2>2. ASSUME NEW n \in 0 .. (N - 1), n \in T PROVE n + 1 \in T
    <3>1. n + 1 \in 0 .. N /\ n + 1 # 0 /\ (n + 1) - 1 = n /\ n + 1 \in 1 .. N
      BY <1>1
    <3> QED
      BY <1>6, <1>8, <2>2, <3>1
  <2>3. \A n \in 0 .. N : n \in T
    <3> HIDE DEF T
    <3> QED
      BY <1>1, <2>1, <2>2, UpTo
  <2> QED
    BY <2>3
<1>10. DropAboveRoot(s) = g[N]
  BY DEF DropAboveRoot, g, N
<1>11. N \in 0 .. N /\ Len(f[N].stack) = 1
  <2>1. N \in 0 .. N /\ N + 1 - N = 1
    BY <1>1
  <2> QED
    BY <1>5, <2>1
<1>12. DropAboveRoot(s) = f[N]
  BY <1>9, <1>10, <1>11
<1> HIDE DEF Runs, step
<1> QED
  BY <1>4, <1>6, <1>11, <1>12 DEF N

(* What the destructor of every view keeps, menu() keeps.                  *)
LEMMA DropAboveRootKeeps ==
  ASSUME NEW s \in Services, NEW S, s \in S,
         \A t \in Services \cap S : Len(t.stack) > 1 => DropTop(t) \in S
  PROVE  DropAboveRoot(s) \in S \cap Services /\ Len(DropAboveRoot(s).stack) = 1
<1> DEFINE N == Len(s.stack) - 1
<1>1. N \in Nat
  <2>1. Len(s.stack) \in Nat \ {0}
    BY TopFacts
  <2> QED
    BY <2>1
<1>2. PICK f \in [0 .. N -> Services] :
            /\ f[0] = s
            /\ \A n \in 1 .. N : Len(f[n - 1].stack) > 1 /\ f[n] = DropTop(f[n - 1])
            /\ Len(f[N].stack) = 1
            /\ DropAboveRoot(s) = f[N]
  BY DropAboveRootRuns
<1> HIDE DEF N
<1> DEFINE T == {n \in 0 .. N : f[n] \in S}
<1>3. 0 \in T
  BY <1>1, <1>2
<1>4. ASSUME NEW n \in 0 .. (N - 1), n \in T PROVE n + 1 \in T
  <2>1. n + 1 \in 1 .. N /\ n + 1 \in 0 .. N /\ (n + 1) - 1 = n /\ n \in 0 .. N
    BY <1>1
  <2> QED
    BY <1>2, <1>4, <2>1
<1>5. N \in T
  <2> HIDE DEF T
  <2>1. \A n \in 0 .. N : n \in T
    BY <1>1, <1>3, <1>4, UpTo
  <2> QED
    BY <1>1, <2>1
<1> QED
  BY <1>1, <1>2, <1>5

LEMMA DropAboveRootIs ==
  ASSUME NEW s \in Services, NEW m
  PROVE  LET d == DropAboveRoot(s)
         IN  /\ d \in Services /\ Len(d.stack) = 1 /\ Trims(s.stack, d.stack)
             /\ Good(s.stack, s.radio, m) => Good(d.stack, d.radio, m)
<1> DEFINE S == {t \in Services : /\ Trims(s.stack, t.stack)
                                  /\ Good(s.stack, s.radio, m) => Good(t.stack, t.radio, m)}
<1>1. s \in S
  BY TopFacts DEF Trims, Identity
<1>2. ASSUME NEW t \in Services \cap S, Len(t.stack) > 1 PROVE DropTop(t) \in S
  <2>1. DropTop(t) \in Services /\ Trims(t.stack, DropTop(t).stack)
    BY <1>2, DropTopIs
  <2>2. Trims(s.stack, DropTop(t).stack)
    BY <2>1, TrimsTwice DEF Services
  <2>3. Good(s.stack, s.radio, m) => Good(DropTop(t).stack, DropTop(t).radio, m)
    BY <1>2, DropTopGood
  <2> QED
    BY <2>1, <2>2, <2>3
<1>3. DropAboveRoot(s) \in S \cap Services /\ Len(DropAboveRoot(s).stack) = 1
  <2> HIDE DEF S
  <2> QED
    BY <1>1, <1>2, DropAboveRootKeeps
<1> QED
  BY <1>3

-----------------------------------------------------------------------------
(* The queued operations, one after the other.                             *)

AllBare(stk) == \A i \in 1 .. Len(stk) : Bare(stk[i])

OnlyCovered(stk, id) ==
    \A i, j \in 1 .. Len(stk) : (stk[i].id = id /\ i < j) => stk[j].kind \in Covers

RootAmong(n) == \E k \in 1 .. n : pending[k].kind = "root"

ModalQueued == \E k \in 1 .. Len(pending) : pending[k].kind = "push" /\ pending[k].view.kind = "modal"

\* s is what service() has made of the stack and the radio after n operations.
Reached(n, s) ==
    /\ Good(s.stack, s.radio, morse)
    /\ RootAmong(n) => AllBare(s.stack)
    /\ (AllBare(stack) /\ ~ModalQueued) => AllBare(s.stack)
    /\ (ModalQueued /\ ~RootAmong(n)) => OnlyCovered(s.stack, Last(stack).id)
    /\ Len(s.stack) <= MaxDepth /\ Len(s.stack) <= Len(stack) + n
    /\ (n > 0 /\ pending[n].kind = "root") => Len(s.stack) = 1
    /\ \A i \in 1 .. Len(s.stack) :
          \/ \E j \in 1 .. Len(stack) : stack[j].id = s.stack[i].id
          \/ \E j \in 1 .. n : pending[j].kind = "push" /\ pending[j].view.id = s.stack[i].id

LEMMA OpFacts ==
  ASSUME NEW op \in Ops
  PROVE  /\ op.kind \in {"push", "pop", "root"}
         /\ op.kind = "push" => op.view \in ViewSet
BY DEF Ops, PopOp, RootOp

LEMMA ApplyPush ==
  ASSUME NEW s \in Services, NEW op \in Ops, op.kind = "push"
  PROVE  LET h == HideTop(s)
         IN  /\ Apply(s, op) = [stack |-> Append(h.stack, op.view), radio |-> h.radio, changed |-> TRUE]
             /\ Apply(s, op) \in Services
<1> DEFINE h == HideTop(s)
<1>1. h \in Services /\ op.view \in ViewSet
  BY HideTopIs, OpFacts
<1>2. Apply(s, op) = [h EXCEPT !.stack = Append(@, op.view), !.changed = TRUE]
  BY DEF Apply
<1> HIDE DEF h
<1>3. Apply(s, op) = [stack |-> Append(h.stack, op.view), radio |-> h.radio, changed |-> TRUE]
  BY <1>1, <1>2 DEF Services
<1>4. Append(h.stack, op.view) \in Seq(ViewSet) /\ Append(h.stack, op.view) # <<>>
  BY <1>1 DEF Services
<1> QED
  BY <1>1, <1>3, <1>4 DEF Services, h

LEMMA ApplyTrim ==
  ASSUME NEW s \in Services, NEW op \in Ops, op.kind # "push", NEW m
  PROVE  LET a == Apply(s, op)
         IN  /\ a \in Services
             /\ Good(s.stack, s.radio, m) => Good(a.stack, a.radio, m) /\ Trims(s.stack, a.stack)
             /\ op.kind = "root" => Len(a.stack) = 1
<1> DEFINE h == HideTop(s)
           p == DropTop(h)
           d == DropAboveRoot(h)
<1>1. /\ h \in Services /\ Len(h.stack) = Len(s.stack)
      /\ Good(s.stack, s.radio, m) => Good(h.stack, h.radio, m) /\ Trims(s.stack, h.stack)
  BY HideTopGood
<1>2. Len(s.stack) \in Nat \ {0} /\ s.stack \in Seq(ViewSet) /\ h.stack \in Seq(ViewSet)
  BY <1>1, TopFacts
<1>3. CASE Len(s.stack) = 1
  <2>1. Apply(s, op) = s
    BY <1>3 DEF Apply
  <2>2. Trims(s.stack, s.stack)
    BY <1>2 DEF Trims, Identity
  <2> QED
    BY <1>3, <2>1, <2>2
<1>4. CASE Len(s.stack) # 1 /\ op.kind = "pop"
  <2> HIDE DEF h
  <2>1. p \in Services /\ Trims(h.stack, p.stack) /\ (Good(h.stack, h.radio, m) => Good(p.stack, p.radio, m))
    <3>1. Len(h.stack) > 1
      <4>1. Len(h.stack) = Len(s.stack)
        BY <1>1
      <4>2. Len(s.stack) \in Nat /\ Len(s.stack) # 0 /\ Len(s.stack) # 1
        BY <1>2, <1>4
      <4> HIDE DEF p
      <4> QED
        BY <4>1, <4>2, SMTT(40)
    <3>2. p \in Services /\ Trims(h.stack, p.stack)
      BY <1>1, <3>1, DropTopIs
    <3>3. Good(h.stack, h.radio, m) => Good(p.stack, p.radio, m)
      BY <1>1, <3>1, DropTopGood
    <3> QED
      BY <3>2, <3>3
  <2>2. Apply(s, op) = [p EXCEPT !.changed = TRUE]
    BY <1>4 DEF Apply, h
  <2> HIDE DEF p
  <2>3. Apply(s, op) \in Services /\ Apply(s, op).stack = p.stack /\ Apply(s, op).radio = p.radio
    BY <2>1, <2>2 DEF Services
  <2>4. p.stack \in Seq(ViewSet)
    BY <2>1 DEF Services
  <2> QED
    BY <1>1, <1>2, <1>4, <2>1, <2>3, <2>4, TrimsTwice
<1>5. CASE Len(s.stack) # 1 /\ op.kind # "pop"
  <2> HIDE DEF h
  <2>1. /\ d \in Services /\ Len(d.stack) = 1 /\ Trims(h.stack, d.stack)
        /\ Good(h.stack, h.radio, m) => Good(d.stack, d.radio, m)
    BY <1>1, DropAboveRootIs
  <2>2. Apply(s, op) = [d EXCEPT !.changed = TRUE]
    BY <1>5 DEF Apply, h
  <2> HIDE DEF d
  <2>3. Apply(s, op) \in Services /\ Apply(s, op).stack = d.stack /\ Apply(s, op).radio = d.radio
    BY <2>1, <2>2 DEF Services
  <2>4. d.stack \in Seq(ViewSet)
    BY <2>1 DEF Services
  <2> QED
    BY <1>1, <1>2, <2>1, <2>3, <2>4, TrimsTwice
<1> QED
  BY <1>3, <1>4, <1>5

LEMMA AppliedRuns ==
  ASSUME pending \in Seq(Ops), stack \in Seq(ViewSet) \ {<<>>}, radio \in RadioSet
  PROVE  \E f \in [0 .. Len(pending) -> Services] :
            /\ f[0] = [stack |-> stack, radio |-> radio, changed |-> FALSE]
            /\ \A n \in 1 .. Len(pending) : f[n] = Apply(f[n - 1], pending[n])
            /\ Applied = f[Len(pending)]
<1> DEFINE N == Len(pending)
           s == [stack |-> stack, radio |-> radio, changed |-> FALSE]
           step == [p \in (1 .. N) \X Services |-> Apply(p[2], pending[p[1]])]
           Runs(f) == f = [n \in 0 .. N |-> IF n = 0 THEN s ELSE Apply(f[n - 1], pending[n])]
<1>0. N \in Nat /\ s \in Services /\ \A n \in 1 .. N : pending[n] \in Ops
  BY DEF Services
<1>1. step \in [(1 .. N) \X Services -> Services]
  <2>1. \A x \in Services, op \in Ops : Apply(x, op) \in Services
    BY ApplyPush, ApplyTrim
  <2> QED
    BY <1>0, <2>1
<1>2. PICK f : Unfolds(f, N, Services, s, step)
  <2> HIDE DEF step, N, s
  <2> QED
    BY <1>0, <1>1, Recursion
<1>3. f \in [0 .. N -> Services] /\ f[0] = s /\ \A n \in 1 .. N : f[n] = Apply(f[n - 1], pending[n])
  <2>1. \A n \in 1 .. N : n - 1 \in 0 .. N
    BY <1>0
  <2> HIDE DEF N, s
  <2> QED
    BY <1>2, <2>1 DEF Unfolds
<1>4. Runs(f)
  <2> HIDE DEF N, s
  <2> QED
    BY <1>0, <1>3
<1> DEFINE g == CHOOSE h : Runs(h)
<1>5. Runs(g)
  BY <1>4
<1>6. \A n \in 0 .. N : g[n] = f[n]
  <2> DEFINE T == {m \in 0 .. N : g[m] = f[m]}
  <2> HIDE DEF N, g, s
  <2>1. 0 \in T
    BY <1>0, <1>3, <1>5
  <2>2. ASSUME NEW n \in 0 .. (N - 1), n \in T PROVE n + 1 \in T
    <3>1. n + 1 \in 0 .. N /\ n + 1 # 0 /\ (n + 1) - 1 = n /\ n + 1 \in 1 .. N
      BY <1>0
    <3> QED
      BY <1>3, <1>5, <2>2, <3>1
  <2>3. \A n \in 0 .. N : n \in T
    <3> HIDE DEF T
    <3> QED
      BY <1>0, <2>1, <2>2, UpTo
  <2> QED
    BY <2>3
<1>7. Applied = g[N]
  BY DEF Applied
<1> HIDE DEF g, s
<1>8. Applied = f[N]
  BY <1>0, <1>6, <1>7
<1> QED
  BY <1>3, <1>8 DEF s

LEMMA TrimsBare ==
  ASSUME NEW a \in Seq(ViewSet), NEW b \in Seq(ViewSet), Trims(a, b)
  PROVE  /\ AllBare(a) => AllBare(b)
         /\ \A id : OnlyCovered(a, id) => OnlyCovered(b, id)
<1>1. Len(b) <= Len(a) /\ Len(a) \in Nat /\ Len(b) \in Nat
      /\ \A i \in 1 .. Len(b) : i \in 1 .. Len(a) /\ Identity(a[i], b[i]) /\ (b[i].sending => a[i].sending)
  BY DEF Trims
<1> QED
  BY <1>1 DEF AllBare, OnlyCovered, Identity, Bare

LEMMA RootIsBare ==
  ASSUME NEW stk, Shape(stk), Len(stk) = 1
  PROVE  AllBare(stk)
BY DEF Shape, AllBare, Bare, WellKinded

(* When a view other than a page or a prompt is queued over a view, or a   *)
(* prompt is, this is what the stack is like.                              *)
LEMMA QueuedOver ==
  ASSUME IInv, NEW n \in 1 .. Len(pending), pending[n].kind = "push"
  PROVE  /\ pending[n].view.kind \notin Covers =>
               \/ n > 1 /\ pending[n - 1].kind = "root"
               \/ AllBare(stack) /\ ~ModalQueued
         /\ pending[n].view.kind = "modal" =>
               /\ ModalQueued /\ pending[n].view.owner = Last(stack).id
               /\ \A k \in 1 .. n : pending[k].kind # "root"
<1> DEFINE top == Last(stack)
           v == pending[n].view
           N == Len(stack)
<1>1. Queued(n) /\ Shape(stack) /\ stack \in Seq(ViewSet) /\ N \in Nat /\ N > 0
      /\ \A k \in 1 .. Len(pending) : Queued(k)
  BY DEF IInv, Good, Shape
<1>2. top = stack[N] /\ N \in 1 .. N /\ top \in ViewSet /\ WellKinded(top) /\ top.app \in AppIds \cup {"menu"}
  BY <1>1, ViewFacts DEF Last, Shape
<1>3. Profile(top.app).opens # {} => top.kind = "app" /\ ~Sends(top.app) /\ ~Profile(top.app).confirm
  <2>1. top.kind # "app" => Profile(top.app).opens = {}
    BY <1>2, MenuIsBlank DEF WellKinded, Blank
  <2> QED
    BY <1>2, <2>1, ProfileCalls
<1>4. ASSUME top.kind \in {"root", "menu"} \/ Profile(top.app).opens # {}
      PROVE  AllBare(stack) /\ ~ModalQueued
  <2>1. top.kind \notin Covers /\ top.kind # "modal" /\ ~top.sending
    BY <1>2, <1>3, <1>4 DEF WellKinded, Covers
  <2>2. AllBare(stack)
    <3> SUFFICES ASSUME NEW i \in 1 .. N PROVE Bare(stack[i])
      BY DEF AllBare
    <3>1. CASE i = N
      BY <1>2, <2>1, <3>1 DEF Bare
    <3>2. CASE i < N
      BY <1>1, <1>2, <2>1, <3>2 DEF Shape
    <3> QED
      BY <1>1, <3>1, <3>2
  <2>3. ~ModalQueued
    <3> SUFFICES ASSUME NEW k \in 1 .. Len(pending), pending[k].kind = "push", pending[k].view.kind = "modal"
                 PROVE  FALSE
      BY DEF ModalQueued
    <3>1. top.kind = "app" /\ Profile(top.app).confirm
      BY <1>1 DEF Queued, Covers
    <3> QED
      BY <1>3, <1>4, <3>1
  <2> QED
    BY <2>2, <2>3
<1>5. v.kind \notin Covers => \/ n > 1 /\ pending[n - 1].kind = "root"
                              \/ top.kind \in {"root", "menu"} \/ Profile(top.app).opens # {}
  BY <1>1 DEF Queued
<1>6. v.kind = "modal" => /\ v.owner = top.id /\ \A k \in 1 .. n : pending[k].kind # "root"
  BY <1>1 DEF Queued, Covers
<1> QED
  BY <1>4, <1>5, <1>6 DEF ModalQueued

LEMMA ReachedStart ==
  ASSUME IInv
  PROVE  Reached(0, [stack |-> stack, radio |-> radio, changed |-> FALSE])
<1>1. Good(stack, radio, morse) /\ Shape(stack) /\ stack \in Seq(ViewSet) /\ Len(stack) \in Nat /\ Len(stack) > 0
      /\ Len(stack) <= MaxDepth
  BY DEF IInv, Good, Shape
<1>2. OnlyCovered(stack, Last(stack).id)
  BY <1>1 DEF OnlyCovered, Last, Shape
<1>3. ~RootAmong(0)
  BY DEF RootAmong
<1> DEFINE s == [stack |-> stack, radio |-> radio, changed |-> FALSE]
<1>4. s.stack = stack /\ s.radio = radio
  OBVIOUS
<1> HIDE DEF s
<1> QED
  BY <1>1, <1>2, <1>3, <1>4 DEF Reached

LEMMA ReachedTrim ==
  ASSUME IInv, NEW n \in 0 .. (Len(pending) - 1), NEW s \in Services, Reached(n, s),
         pending[n + 1].kind # "push"
  PROVE  Reached(n + 1, Apply(s, pending[n + 1]))
<1> DEFINE op == pending[n + 1]
           a == Apply(s, op)
<1>1. Len(pending) \in Nat /\ op \in Ops /\ n + 1 \in 1 .. Len(pending) /\ n \in Nat
  BY DEF IInv
<1>2. /\ a \in Services /\ Good(a.stack, a.radio, morse) /\ Trims(s.stack, a.stack)
      /\ op.kind = "root" => Len(a.stack) = 1
  <2> HIDE DEF op
  <2> QED
    BY <1>1, ApplyTrim DEF Reached, op
<1>3. s.stack \in Seq(ViewSet) /\ a.stack \in Seq(ViewSet) /\ Len(s.stack) \in Nat /\ Len(a.stack) \in Nat
  BY <1>2 DEF Services
<1>4. \A k \in 1 .. (n + 1) : k \in 1 .. n \/ k = n + 1
  BY <1>1
<1>5. Len(a.stack) <= Len(s.stack)
      /\ \A i \in 1 .. Len(a.stack) : i \in 1 .. Len(s.stack) /\ a.stack[i].id = s.stack[i].id
  BY <1>2, <1>3 DEF Trims, Identity
<1>6. Len(stack) \in Nat
  BY DEF IInv, Good, Shape
<1>7. (AllBare(s.stack) => AllBare(a.stack)) /\ \A id : OnlyCovered(s.stack, id) => OnlyCovered(a.stack, id)
  BY <1>2, <1>3, TrimsBare
<1> HIDE DEF a, op
<1>8. RootAmong(n + 1) => AllBare(a.stack)
  <2>1. CASE op.kind = "root"
    BY <1>2, <2>1, RootIsBare DEF Good
  <2>2. CASE op.kind # "root"
    BY <1>4, <1>7, <2>2 DEF Reached, RootAmong, op
  <2> QED
    BY <2>1, <2>2
<1>9. RootAmong(n) => RootAmong(n + 1)
  BY <1>1 DEF RootAmong
<1>10. /\ (AllBare(stack) /\ ~ModalQueued) => AllBare(a.stack)
       /\ (ModalQueued /\ ~RootAmong(n + 1)) => OnlyCovered(a.stack, Last(stack).id)
  BY <1>7, <1>9 DEF Reached
<1>11. Len(a.stack) <= MaxDepth /\ Len(a.stack) <= Len(stack) + (n + 1)
  BY <1>1, <1>3, <1>5, <1>6, BoundsAssumption, SMTT(40) DEF Reached
<1>12. \A i \in 1 .. Len(a.stack) :
          \/ \E j \in 1 .. Len(stack) : stack[j].id = a.stack[i].id
          \/ \E j \in 1 .. (n + 1) : pending[j].kind = "push" /\ pending[j].view.id = a.stack[i].id
  <2>1. \A j \in 1 .. n : j \in 1 .. (n + 1)
    BY <1>1
  <2> QED
    BY <1>5, <2>1 DEF Reached
<1> QED
  BY <1>2, <1>8, <1>10, <1>11, <1>12 DEF Reached, a, op

LEMMA ReachedPush ==
  ASSUME IInv, NEW n \in 0 .. (Len(pending) - 1), NEW s \in Services, Reached(n, s),
         pending[n + 1].kind = "push"
  PROVE  Reached(n + 1, Apply(s, pending[n + 1]))
<1> DEFINE op == pending[n + 1]
           v == op.view
           a == Apply(s, op)
           h == HideTop(s)
           N == Len(h.stack)
<1>1. Len(pending) \in Nat /\ op \in Ops /\ n + 1 \in 1 .. Len(pending) /\ n \in Nat /\ v \in ViewSet
      /\ Queued(n + 1) /\ (n + 1) - 1 = n
  BY OpFacts DEF IInv
<1>2. /\ a = [stack |-> Append(h.stack, v), radio |-> h.radio, changed |-> TRUE] /\ a \in Services
  <2> HIDE DEF op
  <2> QED
    BY <1>1, ApplyPush DEF op
<1>3. h \in Services /\ N = Len(s.stack) /\ Good(h.stack, h.radio, morse) /\ Trims(s.stack, h.stack)
  BY HideTopGood DEF Reached
<1>4. /\ s.stack \in Seq(ViewSet) /\ h.stack \in Seq(ViewSet) /\ a.stack \in Seq(ViewSet) /\ N \in Nat
      /\ a.stack = Append(h.stack, v) /\ a.radio = h.radio
      /\ Len(a.stack) = N + 1 /\ a.stack[N + 1] = v
      /\ \A i \in 1 .. N : a.stack[i] = h.stack[i] /\ h.stack[i].id = s.stack[i].id
      /\ \A i \in 1 .. (N + 1) : i \in 1 .. N \/ i = N + 1
  <2>1. /\ s.stack \in Seq(ViewSet) /\ h.stack \in Seq(ViewSet) /\ N \in Nat
        /\ a.stack = Append(h.stack, v) /\ a.radio = h.radio
    BY <1>2, <1>3 DEF Services
  <2>2. \A i \in 1 .. N : h.stack[i].id = s.stack[i].id
    BY <1>3 DEF Trims, Identity
  <2> HIDE DEF a, h
  <2> QED
    BY <1>1, <2>1, <2>2, SMTT(40)
<1>5. \A k \in 1 .. (n + 1) : k \in 1 .. n \/ k = n + 1
  BY <1>1
<1>6. (AllBare(s.stack) => AllBare(h.stack)) /\ \A id : OnlyCovered(s.stack, id) => OnlyCovered(h.stack, id)
  BY <1>3, <1>4, TrimsBare
<1>7. /\ WellKinded(v) /\ ~v.sending /\ v.kind # "root"
      /\ \A i \in 1 .. Len(stack) : stack[i].id # v.id
      /\ \A k \in 1 .. Len(pending) : (pending[k].kind = "push" /\ k # n + 1) => pending[k].view.id # v.id
      /\ (n > 0 /\ pending[n].kind = "root") \/ Len(stack) + (n + 1) <= MaxDepth
  BY <1>1 DEF Queued
<1>8. /\ v.kind \notin Covers => (n > 0 /\ pending[n].kind = "root") \/ (AllBare(stack) /\ ~ModalQueued)
      /\ v.kind = "modal" => /\ ModalQueued /\ v.owner = Last(stack).id
                             /\ \A k \in 1 .. (n + 1) : pending[k].kind # "root"
  BY <1>1, QueuedOver
<1> HIDE DEF a, h, N, v, op
<1>9. \A i \in 1 .. N : h.stack[i].id # v.id
  <2> TAKE i \in 1 .. N
  <2>1. \/ \E j \in 1 .. Len(stack) : stack[j].id = s.stack[i].id
        \/ \E j \in 1 .. n : pending[j].kind = "push" /\ pending[j].view.id = s.stack[i].id
    BY <1>3 DEF Reached
  <2>2. \A j \in 1 .. n : j \in 1 .. Len(pending) /\ j # n + 1
    BY <1>1
  <2> QED
    BY <1>4, <1>7, <2>1, <2>2
<1>10. RootAmong(n + 1) => RootAmong(n)
  BY <1>5 DEF RootAmong, op
<1>11. RootAmong(n) => RootAmong(n + 1)
  BY <1>1 DEF RootAmong
<1>12. v.kind \notin Covers => AllBare(h.stack)
  <2>1. n > 0 /\ pending[n].kind = "root" => RootAmong(n)
    BY <1>1 DEF RootAmong
  <2> QED
    BY <1>6, <1>8, <2>1 DEF Reached
<1>13. v.kind = "modal" => OnlyCovered(h.stack, v.owner)
  <2>1. v.kind = "modal" => ~RootAmong(n)
    BY <1>8, <1>11 DEF RootAmong
  <2> QED
    BY <1>6, <1>8, <2>1 DEF Reached
<1>14. Good(a.stack, a.radio, morse)
  BY <1>1, <1>3, <1>4, <1>7, <1>9, <1>12, <1>13, GoodPush DEF AllBare, OnlyCovered, N
<1>15. ASSUME AllBare(h.stack), v.kind # "modal" PROVE AllBare(a.stack)
  BY <1>4, <1>7, <1>15 DEF AllBare, Bare, N
<1>16. ASSUME NEW id, OnlyCovered(h.stack, id), v.kind \in Covers PROVE OnlyCovered(a.stack, id)
  BY <1>4, <1>16 DEF OnlyCovered, N
<1>17. RootAmong(n + 1) => AllBare(a.stack)
  <2>1. RootAmong(n + 1) => v.kind # "modal"
    BY <1>8 DEF RootAmong
  <2> QED
    BY <1>6, <1>10, <1>15, <2>1 DEF Reached
<1>18. (AllBare(stack) /\ ~ModalQueued) => AllBare(a.stack)
  BY <1>6, <1>8, <1>15 DEF Reached
<1>19. (ModalQueued /\ ~RootAmong(n + 1)) => OnlyCovered(a.stack, Last(stack).id)
  <2> SUFFICES ASSUME ModalQueued, ~RootAmong(n + 1) PROVE OnlyCovered(a.stack, Last(stack).id)
    OBVIOUS
  <2>1. v.kind \in Covers
    <3>1. ~(n > 0 /\ pending[n].kind = "root")
      BY <1>1, <1>11 DEF RootAmong
    <3> QED
      BY <1>8, <3>1
  <2> QED
    BY <1>6, <1>11, <1>16, <2>1 DEF Reached
<1>20. Len(a.stack) <= MaxDepth /\ Len(a.stack) <= Len(stack) + (n + 1)
  <2>1. Len(stack) \in Nat /\ MaxDepth \in Nat /\ MaxDepth >= 2
    BY BoundsAssumption DEF IInv, Good, Shape
  <2>2. N <= Len(stack) + n /\ ((n > 0 /\ pending[n].kind = "root") => N = 1)
    BY <1>3 DEF Reached
  <2> QED
    BY <1>1, <1>4, <1>7, <2>1, <2>2
<1>21. \A i \in 1 .. Len(a.stack) :
          \/ \E j \in 1 .. Len(stack) : stack[j].id = a.stack[i].id
          \/ \E j \in 1 .. (n + 1) : pending[j].kind = "push" /\ pending[j].view.id = a.stack[i].id
  <2> TAKE i \in 1 .. Len(a.stack)
  <2>1. CASE i = N + 1
    <3>1. n + 1 \in 1 .. (n + 1) /\ pending[n + 1].view.id = a.stack[i].id
      BY <1>1, <1>4, <2>1 DEF v, op
    <3> QED
      BY <3>1
  <2>2. CASE i \in 1 .. N
    <3>1. a.stack[i].id = s.stack[i].id /\ i \in 1 .. Len(s.stack)
      BY <1>3, <1>4, <2>2
    <3>2. \A j \in 1 .. n : j \in 1 .. (n + 1)
      BY <1>1
    <3> QED
      BY <3>1, <3>2 DEF Reached
  <2> QED
    BY <1>4, <2>1, <2>2
<1>22. ~((n + 1) > 0 /\ pending[n + 1].kind = "root")
  OBVIOUS
<1> QED
  BY <1>14, <1>17, <1>18, <1>19, <1>20, <1>21, <1>22 DEF Reached, a, op

LEMMA AppliedReached ==
  ASSUME IInv
  PROVE  Applied \in Services /\ Reached(Len(pending), Applied)
<1> DEFINE N == Len(pending)
<1>1. N \in Nat /\ pending \in Seq(Ops)
  BY DEF IInv
<1>2. stack \in Seq(ViewSet) \ {<<>>} /\ radio \in RadioSet
  BY DEF IInv, Good, Shape, Owned
<1>3. PICK f \in [0 .. N -> Services] :
            /\ f[0] = [stack |-> stack, radio |-> radio, changed |-> FALSE]
            /\ \A n \in 1 .. N : f[n] = Apply(f[n - 1], pending[n])
            /\ Applied = f[N]
  BY <1>1, <1>2, AppliedRuns
<1> DEFINE T == {n \in 0 .. N : Reached(n, f[n])}
<1>4. 0 \in T
  <2>1. Reached(0, f[0])
    BY <1>3, ReachedStart
  <2> QED
    BY <1>1, <2>1
<1>5. ASSUME NEW n \in 0 .. (N - 1), n \in T PROVE n + 1 \in T
  <2>1. n + 1 \in 1 .. N /\ n + 1 \in 0 .. N /\ (n + 1) - 1 = n /\ n \in 0 .. N
    BY <1>1
  <2>2. f[n] \in Services /\ Reached(n, f[n]) /\ f[n + 1] = Apply(f[n], pending[n + 1])
    BY <1>3, <1>5, <2>1
  <2>3. Reached(n + 1, Apply(f[n], pending[n + 1]))
    BY <2>2, ReachedTrim, ReachedPush
  <2> QED
    BY <2>1, <2>2, <2>3
<1>6. N \in T
  <2> HIDE DEF T, N
  <2>1. \A n \in 0 .. N : n \in T
    BY <1>1, <1>4, <1>5, UpTo
  <2> QED
    BY <1>1, <2>1
<1> QED
  BY <1>1, <1>3, <1>6

(* The radio changes, but not the transmitter, and nothing is opened.      *)
LEMMA GoodRadio ==
  ASSUME NEW stk, NEW r, NEW m, Good(stk, r, m), NEW u \in RadioSet,
         u.running => u.open, u.onAir = r.onAir, u.iq = r.iq, u.audio = r.audio,
         u.tap => r.tap, u.capturing => r.capturing, u.mic => r.mic
  PROVE  Good(stk, u, m)
<1>1. Owned(stk, u)
  BY DEF Good, Owned
<1>2. Carried(stk, u, m)
  BY DEF Good, Carried
<1> QED
  BY <1>1, <1>2 DEF Good

LEMMA PerformQuiet ==
  ASSUME NEW s \in Pairs, NEW calls \in Seq(QuietCalls)
  PROVE  LET t == Perform(s, calls)
         IN  /\ t \in Pairs /\ Identity(s.view, t.view) /\ t.view.sending = s.view.sending
             /\ t.radio.onAir = s.radio.onAir /\ t.radio.iq = s.radio.iq /\ t.radio.audio = s.radio.audio
             /\ (s.radio.running => s.radio.open) => (t.radio.running => t.radio.open)
<1> DEFINE Still(t) ==
             /\ Identity(s.view, t.view) /\ t.view.sending = s.view.sending
             /\ t.radio.onAir = s.radio.onAir /\ t.radio.iq = s.radio.iq /\ t.radio.audio = s.radio.audio
             /\ (s.radio.running => s.radio.open) => (t.radio.running => t.radio.open)
           S == {t \in Pairs : Still(t)}
<1>1. calls \in Seq(Calls)
  BY DEF Calls
<1>2. s \in S
  BY DEF Identity
<1>3. ASSUME NEW t \in Pairs \cap S, NEW i \in 1 .. Len(calls)
      PROVE  Do(t, calls[i]) \in S
  <2> DEFINE u == Do(t, calls[i])
  <2>1. calls[i] \in QuietCalls /\ calls[i] \in Calls
    BY <1>1
  <2>2. u \in Pairs
    BY <2>1, DoType
  <2>3. /\ Identity(t.view, u.view) /\ u.view.sending = t.view.sending
        /\ u.radio.onAir = t.radio.onAir /\ u.radio.iq = t.radio.iq /\ u.radio.audio = t.radio.audio
        /\ (t.radio.running => t.radio.open) => (u.radio.running => u.radio.open)
    BY <2>1, QuietCall
  <2>4. Still(t)
    OBVIOUS
  <2> HIDE DEF u
  <2>5. Still(u)
    BY <2>3, <2>4 DEF Identity
  <2> QED
    BY <2>2, <2>5 DEF u
<1>4. Perform(s, calls) \in S
  <2> HIDE DEF S
  <2> QED
    BY <1>1, <1>2, <1>3, PerformKeeps
<1> QED
  BY <1>4

\* Every view is what it was.
SameViews(stk, q) == Len(q) = Len(stk) /\ \A i \in 1 .. Len(stk) : Identity(stk[i], q[i])

(* Calls of the application at i.                                          *)
LEMMA ActGood ==
  ASSUME NEW stk, NEW r, NEW m, Good(stk, r, m), NEW i \in 1 .. Len(stk),
         NEW v \in ViewSet, Identity(stk[i], v), v.sending = stk[i].sending,
         NEW calls, Allowed(stk, i, calls)
  PROVE  LET t == Perform([radio |-> r, view |-> v], calls)
         IN  /\ t \in Pairs /\ Good([stk EXCEPT ![i] = t.view], t.radio, m)
             /\ SameViews(stk, [stk EXCEPT ![i] = t.view])
<1> DEFINE s == [radio |-> r, view |-> v]
           t == Perform(s, calls)
           kind == SendKind(stk[i].app)
<1>1. /\ stk[i] \in ViewSet /\ stk \in Seq(ViewSet) /\ s \in Pairs
  BY DEF Good, Shape, Owned, Pairs
<1>2. kind \in SendKinds
  BY <1>1, ViewFacts, ProfileCalls
<1>3. t \in Pairs
  <2> HIDE DEF s
  <2> QED
    BY <1>1, <1>2, PerformEffect DEF Allowed
<1>4. t.view \in ViewSet /\ Identity(t.view, t.view)
  BY <1>3 DEF Pairs, Identity
<1>5. Good([stk EXCEPT ![i] = t.view], t.radio, m) /\ Identity(stk[i], t.view)
  BY <1>4, GoodAct
<1> HIDE DEF t
<1>6. SameViews(stk, [stk EXCEPT ![i] = t.view])
  BY <1>1, <1>5 DEF SameViews, Identity
<1> QED
  BY <1>3, <1>5, <1>6 DEF t

(* Which calls the actions make.                                           *)
LEMMA AllowedCalls ==
  ASSUME NEW stk, Shape(stk), NEW i \in 1 .. Len(stk),
         \A j \in 1 .. Len(stk) : i < j => stk[j].kind \in Covers
  PROVE  /\ Allowed(stk, i, Profile(stk[i].app).show)
         /\ stk[i].kind = "app" =>
               /\ Allowed(stk, i, Profile(stk[i].app).begin)
               /\ Allowed(stk, i, Profile(stk[i].app).end)
               /\ \A w \in Profile(stk[i].app).modes : Allowed(stk, i, <<Mode(w)>>)
               /\ \A w \in Profile(stk[i].app).rates : Allowed(stk, i, <<Rate(w)>>)
<1> DEFINE app == stk[i].app
           p == Profile(app)
           kind == SendKind(app)
<1>1. stk[i] \in ViewSet /\ WellKinded(stk[i]) /\ app \in AppIds \cup {"menu"}
  BY ViewFacts DEF Shape
<1>2. /\ kind \in SendKinds /\ p.show \in Seq(QuietCalls) /\ p.end \in Seq(Ending(kind))
      /\ p.begin \in Seq(Beginning(kind)) /\ p.modes \subseteq Words /\ p.rates \subseteq Words
      /\ \A call \in {OpenTap, Record, MicOn} : call \notin Range(p.end)
  BY <1>1, ProfileCalls
<1>3. /\ p.show \in Seq(Beginning(kind) \cup Ending(kind)) /\ p.end \in Seq(Beginning(kind) \cup Ending(kind))
      /\ p.begin \in Seq(Beginning(kind) \cup Ending(kind))
      /\ Seq(QuietCalls) \subseteq Seq(Beginning(kind) \cup Ending(kind))
  BY <1>2, EndingInCalls
<1>4. Send(kind) \notin Range(p.show) /\ Send(kind) \notin Range(p.end)
  BY <1>2, NoSend
<1>5. p.show # <<>> => stk[i].kind = "app"
  BY <1>1, MenuIsBlank DEF WellKinded, Blank
<1>6. \A w \in Words : /\ <<Mode(w)>> \in Seq(QuietCalls) /\ <<Rate(w)>> \in Seq(QuietCalls)
                       /\ Range(<<Mode(w)>>) = {Mode(w)} /\ Range(<<Rate(w)>>) = {Rate(w)}
  <2> TAKE w \in Words
  <2>1. Mode(w) \in QuietCalls /\ Rate(w) \in QuietCalls
    BY DEF QuietCalls, QuietOps, OpeningOps, Mode, Rate
  <2>2. \A c : Range(<<c>>) = {c}
    BY DEF Range
  <2> QED
    BY <2>1, <2>2
<1>7. \A w : /\ Mode(w) \notin {OpenTap, Record, MicOn} /\ Rate(w) \notin {OpenTap, Record, MicOn}
             /\ Mode(w) # Send(kind) /\ Rate(w) # Send(kind)
  BY DEF Mode, Rate, OpenTap, Record, MicOn, Plain, Send
<1> HIDE DEF p, kind
<1>8. Allowed(stk, i, p.show)
  BY <1>3, <1>4, <1>5 DEF Allowed, Makes, p, kind
<1>9. ASSUME stk[i].kind = "app" PROVE Allowed(stk, i, p.begin)
  BY <1>3, <1>9 DEF Allowed, Makes, Sends, p, kind
<1>10. ASSUME stk[i].kind = "app" PROVE Allowed(stk, i, p.end)
  BY <1>2, <1>3, <1>4, <1>10 DEF Allowed, kind
<1>11. ASSUME stk[i].kind = "app", NEW w \in Words
       PROVE  Allowed(stk, i, <<Mode(w)>>) /\ Allowed(stk, i, <<Rate(w)>>)
  <2>1. /\ <<Mode(w)>> \in Seq(Beginning(kind) \cup Ending(kind)) /\ <<Rate(w)>> \in Seq(Beginning(kind) \cup Ending(kind))
        /\ Range(<<Mode(w)>>) = {Mode(w)} /\ Range(<<Rate(w)>>) = {Rate(w)}
    BY <1>3, <1>6
  <2>2. \A call \in {OpenTap, Record, MicOn} : call \notin Range(<<Mode(w)>>) \cup Range(<<Rate(w)>>)
    BY <1>7, <2>1
  <2>3. Send(kind) \notin Range(<<Mode(w)>>) \cup Range(<<Rate(w)>>)
    BY <1>7, <2>1
  <2> QED
    BY <1>11, <2>1, <2>2, <2>3 DEF Allowed, kind
<1> QED
  BY <1>2, <1>8, <1>9, <1>10, <1>11 DEF p

-----------------------------------------------------------------------------
(* service(): the view on top is shown, the radio idles at the root, and   *)
(* the Morse sender ticks.                                                 *)

LEMMA ActivateGood ==
  ASSUME NEW s \in Services, NEW m, Good(s.stack, s.radio, m)
  PROVE  LET a == ActivateTop(s)
         IN  /\ a \in Services /\ Good(a.stack, a.radio, m) /\ SameViews(s.stack, a.stack)
<1> DEFINE N == Len(s.stack)
           top == Last(s.stack)
           found == [mode |-> s.radio.mode, rate |-> s.radio.rate]
           seen == [top EXCEPT !.found = IF top.shown THEN @ ELSE found, !.shown = TRUE]
           calls == Profile(top.app).show
           t == Perform([radio |-> s.radio, view |-> seen], calls)
           q == [s.stack EXCEPT ![N] = t.view]
<1>1. /\ s.stack \in Seq(ViewSet) /\ N \in Nat \ {0} /\ s.radio \in RadioSet
      /\ top = s.stack[N] /\ top \in ViewSet
  BY TopFacts
<1>2. seen \in ViewSet /\ Identity(top, seen) /\ seen.sending = top.sending
  <2>1. found \in [mode : Words, rate : Words]
    BY <1>1 DEF RadioSet
  <2> HIDE DEF found
  <2> QED
    BY <1>1, <2>1 DEF ViewSet, Identity
<1>3. Allowed(s.stack, N, calls)
  <2>1. N \in 1 .. N /\ \A j \in 1 .. N : ~ (N < j)
    BY <1>1
  <2> QED
    BY <1>1, <2>1, AllowedCalls DEF Good
<1>4. t \in Pairs /\ Good(q, t.radio, m) /\ SameViews(s.stack, q)
  <2>1. N \in 1 .. N
    BY <1>1
  <2> HIDE DEF calls, seen
  <2> QED
    BY <1>1, <1>2, <1>3, <2>1, ActGood
<1>5. ActivateTop(s) = [s EXCEPT !.radio = t.radio, !.stack[N] = t.view]
  BY DEF ActivateTop, Returned
<1> HIDE DEF t
<1>6. ActivateTop(s) = [stack |-> q, radio |-> t.radio, changed |-> s.changed]
  BY <1>5 DEF Services
<1>7. q \in Seq(ViewSet) \ {<<>>} /\ t.radio \in RadioSet /\ s.changed \in BOOLEAN
  BY <1>4 DEF Good, Shape, Pairs, Services
<1> QED
  BY <1>4, <1>6, <1>7 DEF Services

LEMMA IdleGood ==
  ASSUME NEW s \in Services, NEW m, Good(s.stack, s.radio, m)
  PROVE  LET a == IdleAtRoot(s)
         IN  /\ a \in Services /\ a.stack = s.stack /\ Good(a.stack, a.radio, m)
<1>1. CASE Len(s.stack) > 1
  BY <1>1 DEF IdleAtRoot
<1>2. CASE ~ (Len(s.stack) > 1)
  <2> DEFINE r == s.radio
             x == IF r.running THEN StopReceiver(r) ELSE r
             u == StopTransmitter(x)
  <2>1. r \in RadioSet /\ Shape(s.stack) /\ Owned(s.stack, r) /\ Carried(s.stack, r, m) /\ Len(s.stack) \in Nat \ {0}
    BY TopFacts DEF Good
  <2>2. Len(s.stack) = 1
    <3>1. \A k \in Nat \ {0} : k > 1 \/ k = 1
      OBVIOUS
    <3> QED
      BY <1>2, <2>1, <3>1
  <2>3. /\ u \in RadioSet /\ ~u.running /\ ~u.onAir /\ u.iq = r.iq /\ u.audio = r.audio
        /\ u.tap = r.tap /\ u.mic = r.mic /\ (u.capturing => r.capturing)
    BY <2>1 DEF StopReceiver, StopTransmitter, RadioSet
  <2>4. IdleAtRoot(s) = [s EXCEPT !.radio = u]
    BY <2>2 DEF IdleAtRoot
  <2> HIDE DEF u, r
  <2>5. /\ IdleAtRoot(s) = [stack |-> s.stack, radio |-> u, changed |-> s.changed]
        /\ IdleAtRoot(s) \in Services
    BY <2>3, <2>4 DEF Services
  <2>6. \A i \in 1 .. Len(s.stack) : ~s.stack[i].sending
    BY <2>1, <2>2, RootIsBare DEF AllBare, Bare
  <2>7. Owned(s.stack, u)
    BY <2>1, <2>3 DEF Owned
  <2>8. Carried(s.stack, u, m)
    BY <2>1, <2>3, <2>6 DEF Carried
  <2> QED
    BY <2>1, <2>5, <2>7, <2>8 DEF Good
<1> QED
  BY <1>1, <1>2

LEMMA TickGood ==
  ASSUME NEW stk, NEW r, NEW m \in MorseSet, Good(stk, r, m), m.active \/ m.pending => m.asked # 0
  PROVE  LET t == Tick([radio |-> r, morse |-> m])
         IN  /\ t.morse \in MorseSet /\ Good(stk, t.radio, t.morse)
             /\ t.morse.active \/ t.morse.pending => t.morse.asked # 0
<1> DEFINE t == Tick([radio |-> r, morse |-> m])
<1>1. Shape(stk) /\ Owned(stk, r) /\ Carried(stk, r, m) /\ r \in RadioSet
  BY DEF Good, Owned
<1>2. CASE m.active /\ (m.done \/ ~r.onAir)
  <2> DEFINE u == [StopTransmitter(r) EXCEPT !.iq = NoSource]
             n == [m EXCEPT !.active = FALSE, !.done = FALSE]
  <2>1. t = [radio |-> u, morse |-> n]
    BY <1>2 DEF Tick
  <2>2. /\ u \in RadioSet /\ ~u.onAir /\ u.iq = NoSource /\ u.audio = r.audio /\ u.tap = r.tap
        /\ u.capturing = r.capturing /\ u.mic = r.mic /\ u.running = r.running /\ u.open = r.open
    <3> DEFINE x == StopTransmitter(r)
    <3>1. /\ x \in RadioSet /\ ~x.onAir /\ x.audio = r.audio /\ x.tap = r.tap
          /\ x.capturing = r.capturing /\ x.mic = r.mic /\ x.running = r.running /\ x.open = r.open
      BY <1>1 DEF StopTransmitter, RadioSet
    <3> HIDE DEF x
    <3>2. [x EXCEPT !.iq = NoSource] \in RadioSet
      BY <3>1 DEF RadioSet, NoSource
    <3> QED
      BY <3>1, <3>2 DEF x, RadioSet
  <2>3. n \in MorseSet /\ n.asked = m.asked /\ m.asked # 0
    BY <1>2 DEF MorseSet
  <2> HIDE DEF u, n
  <2>4. Owned(stk, u)
    BY <1>1, <2>2 DEF Owned
  <2>5. Carried(stk, u, n)
    BY <2>2, <2>3 DEF Carried, NoSource, WebSource
  <2> QED
    BY <1>1, <2>1, <2>3, <2>4, <2>5 DEF Good
<1>3. CASE m.active /\ ~ (m.done \/ ~r.onAir)
  <2>1. t = [radio |-> r, morse |-> m]
    BY <1>3 DEF Tick
  <2> QED
    BY <2>1
<1>4. CASE ~m.active /\ m.pending /\ r.open /\ ~r.onAir
  <2> DEFINE u == [StartTransmitter(r) EXCEPT !.raw = TRUE, !.iq = WebSource]
             n == [m EXCEPT !.pending = FALSE, !.active = TRUE, !.done = FALSE]
  <2>1. t = [radio |-> u, morse |-> n]
    BY <1>4 DEF Tick
  <2>2. /\ u \in RadioSet /\ u.iq = WebSource /\ u.audio = r.audio /\ u.tap = r.tap
        /\ u.capturing = r.capturing /\ u.mic = r.mic /\ u.running = r.running /\ u.open = r.open
    <3> DEFINE x == StartTransmitter(r)
    <3>1. /\ x \in RadioSet /\ x.audio = r.audio /\ x.tap = r.tap
          /\ x.capturing = r.capturing /\ x.mic = r.mic /\ x.running = r.running /\ x.open = r.open
      BY <1>1 DEF StartTransmitter, RadioSet
    <3> HIDE DEF x
    <3>2. [x EXCEPT !.raw = TRUE, !.iq = WebSource] \in RadioSet
      <4>1. WebSource \in Int
        BY DEF WebSource
      <4> QED
        BY <3>1, <4>1 DEF RadioSet
    <3> QED
      BY <3>1, <3>2 DEF x, RadioSet
  <2>3. n \in MorseSet /\ n.asked = m.asked /\ m.asked # 0 /\ n.active
    BY <1>4 DEF MorseSet
  <2> HIDE DEF u, n
  <2>4. Owned(stk, u)
    BY <1>1, <2>2 DEF Owned
  <2>5. Carried(stk, u, n)
    BY <2>2, <2>3 DEF Carried
  <2> QED
    BY <1>1, <2>1, <2>3, <2>4, <2>5 DEF Good
<1>5. CASE ~m.active /\ ~ (m.pending /\ r.open /\ ~r.onAir)
  <2> DEFINE n == [m EXCEPT !.pending = FALSE]
  <2>1. t = [radio |-> r, morse |-> n]
    BY <1>5 DEF Tick
  <2>2. n \in MorseSet /\ n.asked = m.asked /\ n.active = m.active /\ ~n.pending
    BY DEF MorseSet
  <2> HIDE DEF n
  <2>3. Carried(stk, r, n)
    BY <1>1, <2>2 DEF Carried
  <2> QED
    BY <1>1, <1>5, <2>1, <2>2, <2>3 DEF Good
<1>6. m.active \in BOOLEAN
  BY DEF MorseSet
<1> QED
  BY <1>2, <1>3, <1>4, <1>5, <1>6

LEMMA ServicedGood ==
  ASSUME IInv
  PROVE  /\ Serviced \in Services /\ Good(Serviced.stack, Serviced.radio, morse)
         /\ SameViews(Applied.stack, Serviced.stack) /\ Len(Serviced.stack) <= MaxDepth
<1>1. Applied \in Services /\ Good(Applied.stack, Applied.radio, morse) /\ Len(Applied.stack) <= MaxDepth
  BY AppliedReached DEF Reached
<1>2. CASE Applied.changed
  <2> DEFINE a == ActivateTop(Applied)
             b == IdleAtRoot(a)
  <2>1. a \in Services /\ Good(a.stack, a.radio, morse) /\ SameViews(Applied.stack, a.stack)
    BY <1>1, ActivateGood
  <2> HIDE DEF a
  <2>2. b \in Services /\ b.stack = a.stack /\ Good(b.stack, b.radio, morse)
    BY <2>1, IdleGood
  <2>3. Serviced = b
    BY <1>2 DEF Serviced, Settled, a
  <2> HIDE DEF b
  <2> QED
    BY <1>1, <2>1, <2>2, <2>3 DEF SameViews
<1>3. CASE ~Applied.changed
  <2>1. Serviced = Applied
    BY <1>3 DEF Serviced, Settled
  <2> QED
    BY <1>1, <2>1 DEF SameViews, Identity
<1> QED
  BY <1>2, <1>3

LEMMA ServiceStep == IInv /\ Service => IInv'
<1> SUFFICES ASSUME IInv, Service PROVE IInv'
  OBVIOUS
<1> DEFINE t == Tick([radio |-> Serviced.radio, morse |-> morse])
<1>1. /\ radio' = t.radio /\ morse' = t.morse /\ stack' = Serviced.stack /\ pending' = <<>>
      /\ phase' = "sync" /\ launched' = 0
  BY DEF Service, Refresh
<1>2. Good(Serviced.stack, Serviced.radio, morse) /\ Len(Serviced.stack) <= MaxDepth /\ Asked
  BY ServicedGood DEF IInv
<1>3. /\ t.morse \in MorseSet /\ Good(Serviced.stack, t.radio, t.morse)
      /\ t.morse.active \/ t.morse.pending => t.morse.asked # 0
  BY <1>2, TickGood DEF Asked
<1> HIDE DEF t
<1>4. Good(stack', radio', morse') /\ Asked' /\ Len(stack') <= MaxDepth
  BY <1>1, <1>2, <1>3 DEF Asked
<1>5. pending' \in Seq(Ops)' /\ Len(pending') = 0
  BY <1>1
<1>6. \A n \in 1 .. Len(pending') : Queued(n)'
  BY <1>5
<1>7. Frame'
  BY <1>1, <1>5, BoundsAssumption DEF Frame
<1> QED
  BY <1>4, <1>5, <1>6, <1>7 DEF IInv

-----------------------------------------------------------------------------
(* New views.                                                              *)

LEMMA ImageIsFinite ==
  ASSUME NEW S, IsFiniteSet(S), NEW f, f \in [S -> Range(f)]
  PROVE  IsFiniteSet(Range(f)) /\ Cardinality(Range(f)) <= Cardinality(S)
<1>1. f \in Surjection(S, Range(f))
  BY DEF Surjection, Range
<1> QED
  BY <1>1, FS_Surjection

LEMMA IntervalIsFinite ==
  ASSUME NEW n \in Nat
  PROVE  IsFiniteSet(1 .. n) /\ Cardinality(1 .. n) = n
BY FS_Interval

(* No view has the identity that the next one gets.                        *)
LEMMA FreshFacts ==
  ASSUME IInv
  PROVE  /\ FreshId \in Nat \ {0}
         /\ \A i \in 1 .. Len(stack) : stack[i].id # FreshId
         /\ \A n \in 1 .. Len(pending) : pending[n].kind = "push" => pending[n].view.id # FreshId
<1> DEFINE ids == {v.id : v \in Views}
           K == Cardinality(Views)
<1>1. stack \in Seq(ViewSet) /\ Len(stack) \in Nat /\ pending \in Seq(Ops) /\ Len(pending) \in Nat
      /\ DOMAIN stack = 1 .. Len(stack) /\ DOMAIN pending = 1 .. Len(pending)
  BY DEF IInv, Good, Shape
<1>2. IsFiniteSet(Range(stack))
  <2>1. stack \in [1 .. Len(stack) -> Range(stack)]
    BY <1>1 DEF Range
  <2> QED
    BY <1>1, <2>1, IntervalIsFinite, ImageIsFinite
<1>3. IsFiniteSet(PendingViews)
  <2> DEFINE f == [n \in 1 .. Len(pending) |-> pending[n].view]
  <2>1. f \in [1 .. Len(pending) -> Range(f)] /\ Range(f) = PendingViews
    BY <1>1 DEF Range, PendingViews
  <2> HIDE DEF f
  <2>2. IsFiniteSet(Range(f))
    BY <1>1, <2>1, IntervalIsFinite, ImageIsFinite
  <2> QED
    BY <2>1, <2>2
<1>4. IsFiniteSet(Views)
  <2>1. IsFiniteSet(PendingViews \ {NoView})
    BY <1>3, FS_Subset
  <2> QED
    BY <1>2, <2>1, FS_Union DEF Views
<1>5. K \in Nat
  BY <1>4, FS_CardinalityType
<1>6. IsFiniteSet(ids) /\ Cardinality(ids) <= K /\ Cardinality(ids) \in Nat
  <2> DEFINE f == [v \in Views |-> v.id]
  <2>1. f \in [Views -> Range(f)] /\ Range(f) = ids
    BY DEF Range
  <2> HIDE DEF f
  <2>2. IsFiniteSet(Range(f)) /\ Cardinality(Range(f)) <= K
    BY <1>4, <2>1, ImageIsFinite
  <2> HIDE DEF ids
  <2> QED
    BY <2>1, <2>2, FS_CardinalityType
<1>7. \E id \in 1 .. (K + 1) : id \notin ids
  <2> SUFFICES ASSUME (1 .. (K + 1)) \subseteq ids PROVE FALSE
    OBVIOUS
  <2>1. Cardinality(1 .. (K + 1)) <= Cardinality(ids)
    BY <1>6, FS_Subset
  <2>2. Cardinality(1 .. (K + 1)) = K + 1
    BY <1>5, IntervalIsFinite
  <2> HIDE DEF ids, K
  <2> QED
    BY <1>5, <1>6, <2>1, <2>2
<1>8. FreshId \in 1 .. (K + 1) /\ FreshId \notin ids
  BY <1>7 DEF FreshId
<1>9. ASSUME NEW i \in 1 .. Len(stack) PROVE stack[i].id # FreshId
  <2>1. stack[i] \in Views
    BY <1>1 DEF Views, Range
  <2> QED
    BY <1>8, <2>1
<1>10. ASSUME NEW n \in 1 .. Len(pending), pending[n].kind = "push" PROVE pending[n].view.id # FreshId
  <2>1. pending[n].view \in PendingViews
    BY <1>1 DEF PendingViews
  <2>2. pending[n].view # NoView
    <3>1. pending[n].view \in ViewSet
      BY <1>1, <1>10, OpFacts
    <3>2. pending[n].view.id # 0
      BY <3>1, ViewFacts
    <3> QED
      BY <3>2 DEF NoView, View
  <2>3. pending[n].view \in Views
    BY <2>1, <2>2 DEF Views
  <2> QED
    BY <1>8, <2>3
<1>11. FreshId \in Nat \ {0}
  <2> HIDE DEF K
  <2> QED
    BY <1>5, <1>8
<1> QED
  BY <1>9, <1>10, <1>11

LEMMA ViewIs ==
  ASSUME NEW kind \in ViewKinds, NEW app \in AppIds \cup {"menu"}, NEW id \in Nat \ {0},
         NEW fresh \in BOOLEAN, NEW owner \in Nat
  PROVE  LET v == View(kind, app, id, fresh, owner)
         IN  /\ v \in ViewSet /\ v.kind = kind /\ v.app = app /\ v.id = id /\ v.owner = owner
             /\ ~v.sending /\ ~v.shown /\ v.fresh = fresh
<1>1. Profile(app).fresh \in SavedSet
  BY ProfileCalls
<1>2. [mode |-> "none", rate |-> "none"] \in [mode : Words, rate : Words]
  BY DEF Words
<1> QED
  BY <1>1, <1>2 DEF View, ViewSet

LEMMA MenuViewIs ==
  ASSUME NEW kind \in ViewKinds, NEW id \in Nat \ {0}, NEW owner \in Nat
  PROVE  LET v == View(kind, "menu", id, FALSE, owner)
         IN  /\ v \in ViewSet /\ v.kind = kind /\ v.app = "menu" /\ v.id = id /\ v.owner = owner
             /\ ~v.sending
<1>1. Blank.fresh \in SavedSet
  BY MenuIsBlank, ProfileCalls
<1>2. [mode |-> "none", rate |-> "none"] \in [mode : Words, rate : Words]
  BY DEF Words
<1> QED
  BY <1>1, <1>2, MenuIsBlank DEF View, ViewSet

(* The constructor of an application leaves the transmitter alone and      *)
(* opens nothing.                                                          *)
LEMMA BuiltGood ==
  ASSUME IInv, NEW app \in AppIds, NEW fresh \in BOOLEAN
  PROVE  LET b == Built(app, fresh)
         IN  /\ b \in Pairs /\ Good(stack, b.radio, morse)
             /\ b.view.kind = "app" /\ b.view.app = app /\ b.view.id = FreshId
             /\ ~b.view.sending
<1> DEFINE v == View("app", app, FreshId, fresh, 0)
           s == [radio |-> radio, view |-> v]
           calls == Profile(app).ctor
           b == Perform(s, calls)
<1>1. v \in ViewSet /\ v.kind = "app" /\ v.app = app /\ v.id = FreshId /\ ~v.sending
  BY FreshFacts, ViewIs DEF ViewKinds
<1> HIDE DEF v
<1>2. Good(stack, radio, morse) /\ radio \in RadioSet /\ (radio.running => radio.open)
  BY DEF IInv, Good, Owned
<1>3. s \in Pairs /\ s.radio = radio /\ s.view = v
  BY <1>1, <1>2 DEF Pairs
<1>4. calls \in Seq(QuietCalls) /\ calls \in Seq(Calls)
      /\ \A call \in {OpenTap, Record, MicOn} : call \notin Range(calls)
  BY ProfileCalls, EndingInCalls
<1> HIDE DEF s, calls
<1>5. /\ b \in Pairs /\ Identity(v, b.view) /\ b.view.sending = v.sending
      /\ b.radio.onAir = radio.onAir /\ b.radio.iq = radio.iq /\ b.radio.audio = radio.audio
      /\ b.radio.running => b.radio.open
  BY <1>2, <1>3, <1>4, PerformQuiet
<1>6. /\ b.radio.tap => radio.tap
      /\ b.radio.capturing => radio.capturing
      /\ b.radio.mic => radio.mic
  <2>1. /\ b.radio.tap => radio.tap \/ OpenTap \in Range(calls)
        /\ b.radio.capturing => radio.capturing \/ Record \in Range(calls)
        /\ b.radio.mic => radio.mic \/ MicOn \in Range(calls)
    BY <1>3, <1>4, PerformOpens
  <2> QED
    BY <1>4, <2>1
<1> HIDE DEF b
<1>7. b.radio \in RadioSet
  BY <1>5 DEF Pairs
<1>8. Good(stack, b.radio, morse)
  BY <1>2, <1>5, <1>6, <1>7, GoodRadio
<1>9. Built(app, fresh) = b
  BY DEF Built, b, s, v, calls
<1> QED
  BY <1>1, <1>5, <1>8, <1>9 DEF Identity

-----------------------------------------------------------------------------
(* What is queued stays as it was when events and launches queue more.     *)

LEMMA SameTop ==
  ASSUME NEW stk \in Seq(ViewSet), Len(stk) > 0, NEW q, SameViews(stk, q)
  PROVE  /\ Identity(Last(stk), Last(q)) /\ Last(stk) = stk[Len(stk)] /\ Len(stk) \in 1 .. Len(stk)
         /\ Last(stk) \in ViewSet
BY DEF SameViews, Last

LEMMA QueuedKept ==
  ASSUME IInv, SameViews(stack, stack'), pending' \in Seq(Ops), Len(pending) <= Len(pending'),
         \A n \in 1 .. Len(pending) : pending'[n] = pending[n],
         \A n \in (Len(pending) + 1) .. Len(pending') :
            pending'[n].kind = "push" => pending'[n].view.id = FreshId,
         NEW n \in 1 .. Len(pending)
  PROVE  Queued(n)'
<1> DEFINE v == pending[n].view
           N == Len(pending)
           M == Len(pending')
<1>1. Queued(n) /\ N \in Nat /\ M \in Nat /\ N <= M
  BY DEF IInv
<1>2. /\ Identity(Last(stack), Last(stack')) /\ Len(stack') = Len(stack)
      /\ \A i \in 1 .. Len(stack) : stack'[i].id = stack[i].id
  BY SameTop DEF IInv, Good, Shape, SameViews, Identity
<1>3. pending'[n] = pending[n] /\ (\A m \in 1 .. n : pending'[m] = pending[m])
      /\ (n > 1 => pending'[n - 1] = pending[n - 1])
  BY <1>1
<1>4. SUFFICES ASSUME pending[n].kind = "push" PROVE Queued(n)'
  BY <1>3 DEF Queued
<1>5. v.id # FreshId
  BY <1>4, FreshFacts
<1>6. \A m \in 1 .. M : (pending'[m].kind = "push" /\ m # n) => pending'[m].view.id # v.id
  <2> TAKE m \in 1 .. M
  <2> HAVE pending'[m].kind = "push" /\ m # n
  <2>1. CASE m \in 1 .. N
    BY <1>1, <1>4, <2>1 DEF Queued
  <2>2. CASE m \in (N + 1) .. M
    BY <1>5, <2>2
  <2> QED
    BY <1>1, <2>1, <2>2
<1> HIDE DEF v
<1>7. /\ WellKinded(v) /\ ~v.sending /\ v.kind # "root"
      /\ \A i \in 1 .. Len(stack) : stack[i].id # v.id
  BY <1>1, <1>4 DEF Queued, v
<1>8. v.kind \in Covers =>
            /\ Last(stack').kind = "app" /\ v.owner = Last(stack').id
            /\ v.kind = "modal" => Profile(Last(stack').app).confirm
            /\ \A m \in 1 .. n : pending'[m].kind # "root"
  BY <1>1, <1>2, <1>3, <1>4 DEF Queued, v, Identity
<1>9. /\ \/ v.kind \in Covers
         \/ n > 1 /\ pending'[n - 1].kind = "root"
         \/ Last(stack').kind \in {"root", "menu"}
         \/ Profile(Last(stack').app).opens # {}
      /\ \/ n > 1 /\ pending'[n - 1].kind = "root"
         \/ Len(stack') + n <= MaxDepth
  <2>1. (n > 1 /\ pending'[n - 1].kind = "root") <=> (n > 1 /\ pending[n - 1].kind = "root")
    BY <1>3
  <2> QED
    BY <1>1, <1>2, <1>4, <2>1 DEF Queued, v, Identity
<1>10. \A i \in 1 .. Len(stack') : stack'[i].id # v.id
  BY <1>2, <1>7
<1>11. pending'[n].view = v
  BY <1>3 DEF v
<1> QED
  BY <1>6, <1>7, <1>8, <1>9, <1>10, <1>11 DEF Queued

\* The view that an event handler pushes.
Pushed(v) ==
    /\ v \in ViewSet /\ WellKinded(v) /\ ~v.sending /\ v.kind # "root" /\ v.id = FreshId
    /\ v.kind \in Covers =>
          /\ Last(stack).kind = "app" /\ v.owner = Last(stack).id
          /\ v.kind = "modal" => Profile(Last(stack).app).confirm
    /\ v.kind \notin Covers => Last(stack).kind \in {"root", "menu"} \/ Profile(Last(stack).app).opens # {}
    /\ Len(stack) + Len(pending) < MaxDepth

LEMMA AppendFacts ==
  ASSUME NEW S, NEW q \in Seq(S), NEW x \in S
  PROVE  /\ Append(q, x) \in Seq(S) /\ Len(q) \in Nat /\ Len(Append(q, x)) = Len(q) + 1
         /\ Append(q, x)[Len(q) + 1] = x
         /\ \A n \in 1 .. Len(q) : Append(q, x)[n] = q[n]
OBVIOUS

LEMMA QueueStep ==
  ASSUME IInv, NEW op \in Ops, op.kind # "root", Queue(op), op.kind = "push" => Pushed(op.view),
         SameViews(stack, stack'), Good(stack', radio', morse'), UNCHANGED <<morse, phase, launched>>,
         phase = "events"
  PROVE  IInv'
<1> DEFINE N == Len(pending)
           v == op.view
<1>1. /\ pending' \in Seq(Ops) /\ N \in Nat /\ Len(pending') = N + 1 /\ pending'[N + 1] = op
      /\ \A n \in 1 .. N : pending'[n] = pending[n]
      /\ N < MaxPending
  BY AppendFacts DEF IInv, Queue
<1>2. Len(stack') = Len(stack) /\ Len(stack) <= MaxDepth /\ Len(stack) \in Nat
      /\ stack \in Seq(ViewSet) /\ Len(stack) > 0 /\ Frame /\ Asked
  BY DEF IInv, SameViews, Good, Shape
<1>3. /\ Identity(Last(stack), Last(stack'))
      /\ \A i \in 1 .. Len(stack) : stack'[i].id = stack[i].id
  BY <1>2, SameTop DEF SameViews, Identity
<1>4. ASSUME NEW n \in 1 .. N PROVE Queued(n)'
  <2>1. \A k \in (N + 1) .. Len(pending') : pending'[k].kind = "push" => pending'[k].view.id = FreshId
    BY <1>1 DEF Pushed
  <2>2. N <= Len(pending')
    BY <1>1
  <2> QED
    BY <1>1, <2>1, <2>2, QueuedKept
<1>5. ASSUME NEW k, k = N + 1 PROVE Queued(k)'
  <2>0. pending'[k] = op /\ k \in Nat
    BY <1>1, <1>5
  <2> SUFFICES ASSUME op.kind = "push" PROVE Queued(k)'
    BY <2>0 DEF Queued
  <2>1. Pushed(v)
    OBVIOUS
  <2>2. pending'[k].view = v
    BY <2>0
  <2>3. \A i \in 1 .. Len(stack') : stack'[i].id # v.id
    BY <1>2, <1>3, <2>1, FreshFacts DEF Pushed
  <2>4. \A m \in 1 .. Len(pending') : (pending'[m].kind = "push" /\ m # k) => pending'[m].view.id # v.id
    <3> TAKE m \in 1 .. Len(pending')
    <3> HAVE pending'[m].kind = "push" /\ m # k
    <3>1. m \in 1 .. N
      BY <1>1, <1>5
    <3>2. pending'[m] = pending[m]
      BY <1>1, <3>1
    <3> QED
      BY <2>1, <3>1, <3>2, FreshFacts DEF Pushed
  <2>5. \A m \in 1 .. k : pending'[m].kind # "root"
    <3> SUFFICES ASSUME NEW m \in 1 .. k PROVE pending'[m].kind # "root"
      OBVIOUS
    <3>1. m \in 1 .. N \/ m = k
      BY <1>1, <1>5
    <3> QED
      BY <1>1, <1>2, <2>0, <3>1 DEF Frame
  <2>6. Len(stack') + k <= MaxDepth
    BY <1>1, <1>2, <1>5, <2>1, BoundsAssumption DEF Pushed
  <2> HIDE DEF v, N
  <2>7. /\ v.kind \in Covers =>
              /\ Last(stack').kind = "app" /\ v.owner = Last(stack').id
              /\ v.kind = "modal" => Profile(Last(stack').app).confirm
        /\ v.kind \notin Covers =>
              \/ Last(stack').kind \in {"root", "menu"}
              \/ Profile(Last(stack').app).opens # {}
    BY <1>3, <2>1 DEF Pushed, Identity
  <2> QED
    BY <2>1, <2>2, <2>3, <2>4, <2>5, <2>6, <2>7 DEF Queued, Pushed
<1>6. \A n \in 1 .. Len(pending') : Queued(n)'
  <2> SUFFICES ASSUME NEW n \in 1 .. Len(pending') PROVE Queued(n)'
    OBVIOUS
  <2>1. n \in 1 .. N \/ n = N + 1
    BY <1>1
  <2> HIDE DEF N
  <2> QED
    BY <1>4, <1>5, <2>1
<1>7. Frame'
  <2>1. launched = 0 /\ \A n \in 1 .. N : pending[n].kind # "root"
    BY <1>2 DEF Frame
  <2>2. \A n \in 1 .. Len(pending') : pending'[n].kind # "root"
    <3> SUFFICES ASSUME NEW n \in 1 .. Len(pending') PROVE pending'[n].kind # "root"
      OBVIOUS
    <3>1. n \in 1 .. N \/ n = N + 1
      BY <1>1
    <3> QED
      BY <1>1, <2>1, <3>1
  <2> QED
    BY <1>1, <1>2, <2>1, <2>2, BoundsAssumption DEF Frame
<1>8. Asked'
  BY <1>2 DEF Asked
<1> QED
  BY <1>1, <1>2, <1>6, <1>7, <1>8 DEF IInv

LEMMA ActStep ==
  ASSUME IInv, SameViews(stack, stack'), Good(stack', radio', morse'), Asked',
         UNCHANGED pending, Frame'
  PROVE  IInv'
<1>1. \A n \in 1 .. Len(pending) : Queued(n)'
  <2> SUFFICES ASSUME NEW n \in 1 .. Len(pending) PROVE Queued(n)'
    OBVIOUS
  <2>1. pending \in Seq(Ops) /\ Len(pending) \in Nat
    BY DEF IInv
  <2>2. \A k \in (Len(pending) + 1) .. Len(pending') : FALSE
    BY <2>1
  <2>3. Len(pending) <= Len(pending') /\ \A k \in 1 .. Len(pending) : pending'[k] = pending[k]
    BY <2>1
  <2>4. \A k \in (Len(pending) + 1) .. Len(pending') : pending'[k].kind = "push" => pending'[k].view.id = FreshId
    BY <2>2
  <2> QED
    BY <2>1, <2>3, <2>4, QueuedKept
<1>2. Len(stack') = Len(stack)
  BY DEF SameViews
<1> QED
  BY <1>1, <1>2 DEF IInv

-----------------------------------------------------------------------------
(* The actions, one after the other.                                       *)

LEMMA InvFacts ==
  ASSUME IInv
  PROVE  /\ stack \in Seq(ViewSet) /\ Len(stack) \in Nat \ {0} /\ Shape(stack) /\ radio \in RadioSet
         /\ Top = stack[Len(stack)] /\ Len(stack) \in 1 .. Len(stack) /\ Top \in ViewSet
         /\ Top.id \in Nat \ {0} /\ Top.app \in AppIds \cup {"menu"} /\ WellKinded(Top)
         /\ Good(stack, radio, morse) /\ Frame /\ Asked
<1>1. /\ stack \in Seq(ViewSet) /\ Shape(stack) /\ radio \in RadioSet /\ Len(stack) \in Nat \ {0}
      /\ Good(stack, radio, morse) /\ Frame /\ Asked
  BY DEF IInv, Good, Shape, Owned
<1>2. Top = stack[Len(stack)] /\ Len(stack) \in 1 .. Len(stack) /\ Top \in ViewSet
  BY <1>1 DEF Top, Last
<1> QED
  BY <1>1, <1>2, ViewFacts DEF Shape

LEMMA SameStack ==
  ASSUME IInv
  PROVE  SameViews(stack, stack)
BY DEF SameViews, Identity

LEMMA TopActs ==
  ASSUME IInv, NEW calls, Allowed(stack, Len(stack), calls), PerformOnTop(calls)
  PROVE  Good(stack', radio', morse) /\ SameViews(stack, stack')
<1> DEFINE N == Len(stack)
           t == Perform([radio |-> radio, view |-> stack[N]], calls)
<1>1. radio' = t.radio /\ stack' = [stack EXCEPT ![N] = t.view]
  BY DEF PerformOnTop, PerformAt
<1>2. Good(stack, radio, morse) /\ N \in 1 .. N /\ stack[N] \in ViewSet /\ Identity(stack[N], stack[N])
  BY InvFacts DEF Identity
<1>3. Good([stack EXCEPT ![N] = t.view], t.radio, morse) /\ SameViews(stack, [stack EXCEPT ![N] = t.view])
  BY <1>2, ActGood
<1> QED
  BY <1>1, <1>3

LEMMA TopMay ==
  ASSUME IInv, Top.kind = "app"
  PROVE  /\ Allowed(stack, Len(stack), Profile(Top.app).begin)
         /\ Allowed(stack, Len(stack), Profile(Top.app).end)
         /\ \A w \in Profile(Top.app).modes : Allowed(stack, Len(stack), <<Mode(w)>>)
         /\ \A w \in Profile(Top.app).rates : Allowed(stack, Len(stack), <<Rate(w)>>)
<1>1. /\ Shape(stack) /\ Len(stack) \in 1 .. Len(stack) /\ Top = stack[Len(stack)]
      /\ \A j \in 1 .. Len(stack) : ~ (Len(stack) < j)
  BY InvFacts
<1> QED
  BY <1>1, AllowedCalls

LEMMA FrameSame == IInv /\ UNCHANGED <<phase, launched, pending>> => Frame'
BY DEF IInv, Frame

LEMMA AskedSame == IInv /\ UNCHANGED morse => Asked'
BY DEF IInv, Asked

LEMMA ProperOps ==
  ASSUME NEW v \in ViewSet
  PROVE  /\ PushOp(v) \in Ops /\ PushOp(v).kind = "push" /\ PushOp(v).view = v
         /\ PopOp \in Ops /\ PopOp.kind = "pop" /\ RootOp \in Ops /\ RootOp.kind = "root"
BY DEF Ops, PushOp, PopOp, RootOp

LEMMA RoomToPush ==
  ASSUME NEW v, Queue(PushOp(v))
  PROVE  Len(stack) + Len(pending) < MaxDepth
BY DEF Queue, PushOp

LEMMA SelectStep ==
  ASSUME IInv, NEW app \in Apps, Select(app)
  PROVE  IInv'
<1> DEFINE b == Built(app, TRUE)
<1>1. app \in AppIds
  BY AppsAssumption
<1>2. /\ b \in Pairs /\ Good(stack, b.radio, morse)
      /\ b.view.kind = "app" /\ b.view.app = app /\ b.view.id = FreshId /\ ~b.view.sending
  BY <1>1, BuiltGood
<1>3. /\ phase = "events" /\ Top.kind \in {"root", "menu"} /\ Queue(PushOp(b.view)) /\ radio' = b.radio
      /\ UNCHANGED <<stack, morse, phase, launched>>
  BY DEF Select
<1> HIDE DEF b
<1>4. b.view \in ViewSet
  BY <1>2 DEF Pairs
<1>5. Pushed(b.view)
  BY <1>1, <1>2, <1>3, <1>4, RoomToPush DEF Pushed, WellKinded, Covers, Top
<1>6. SameViews(stack, stack') /\ Good(stack', radio', morse')
  BY <1>2, <1>3, SameStack
<1> QED
  BY <1>3, <1>4, <1>5, <1>6, ProperOps, QueueStep

LEMMA OpenAppStep ==
  ASSUME IInv, NEW app \in Apps, OpenApp(app)
  PROVE  IInv'
<1> DEFINE b == Built(app, FALSE)
<1>1. app \in AppIds
  BY AppsAssumption
<1>2. /\ b \in Pairs /\ Good(stack, b.radio, morse)
      /\ b.view.kind = "app" /\ b.view.app = app /\ b.view.id = FreshId /\ ~b.view.sending
  BY <1>1, BuiltGood
<1>3. /\ phase = "events" /\ Profile(Top.app).opens # {} /\ Queue(PushOp(b.view)) /\ radio' = b.radio
      /\ UNCHANGED <<stack, morse, phase, launched>>
  BY DEF OpenApp
<1> HIDE DEF b
<1>4. b.view \in ViewSet
  BY <1>2 DEF Pairs
<1>5. Pushed(b.view)
  BY <1>1, <1>2, <1>3, <1>4, RoomToPush DEF Pushed, WellKinded, Covers, Top
<1>6. SameViews(stack, stack') /\ Good(stack', radio', morse')
  BY <1>2, <1>3, SameStack
<1> QED
  BY <1>3, <1>4, <1>5, <1>6, ProperOps, QueueStep

\* A menu, a page or a prompt.
LEMMA PlainPush ==
  ASSUME IInv, NEW kind \in ViewKinds \ {"root", "app"}, NEW owner \in Nat,
         phase = "events", Queue(PushOp(View(kind, "menu", FreshId, FALSE, owner))),
         UNCHANGED <<stack, radio, morse, phase, launched>>,
         kind \in Covers => Top.kind = "app" /\ owner = Top.id,
         kind = "modal" => Profile(Top.app).confirm,
         kind \notin Covers => Top.kind = "root"
  PROVE  IInv'
<1> DEFINE v == View(kind, "menu", FreshId, FALSE, owner)
<1>1. v \in ViewSet /\ v.kind = kind /\ v.app = "menu" /\ v.id = FreshId /\ v.owner = owner /\ ~v.sending
  <2>1. kind \in ViewKinds /\ FreshId \in Nat \ {0} /\ owner \in Nat
    BY FreshFacts
  <2> QED
    BY <2>1, MenuViewIs
<1> HIDE DEF v
<1>2. Queue(PushOp(v))
  BY DEF v
<1>3. Pushed(v)
  BY <1>1, <1>2, RoomToPush DEF Pushed, WellKinded, Top
<1>4. SameViews(stack, stack') /\ Good(stack', radio', morse')
  BY SameStack, InvFacts
<1> QED
  BY <1>1, <1>2, <1>3, <1>4, ProperOps, QueueStep

LEMMA OpenMenuStep == IInv /\ OpenMenu => IInv'
<1>1. "menu" \in ViewKinds \ {"root", "app"} /\ "menu" \notin Covers /\ 0 \in Nat
  BY DEF ViewKinds, Covers
<1> QED
  BY <1>1, PlainPush DEF OpenMenu

LEMMA OpenPageStep == IInv /\ OpenPage => IInv'
<1>1. "page" \in ViewKinds \ {"root", "app"} /\ "page" \in Covers
  BY DEF ViewKinds, Covers
<1> QED
  BY <1>1, InvFacts, PlainPush DEF OpenPage

LEMMA BackStep == IInv /\ Back => IInv'
<1> SUFFICES ASSUME IInv, Back PROVE IInv'
  OBVIOUS
<1>1. phase = "events" /\ Queue(PopOp) /\ UNCHANGED <<stack, radio, morse, phase, launched>>
  BY DEF Back
<1>2. PopOp \in Ops /\ PopOp.kind = "pop"
  BY DEF Ops, PopOp
<1>3. SameViews(stack, stack') /\ Good(stack', radio', morse')
  BY <1>1, SameStack, InvFacts
<1> QED
  BY <1>1, <1>2, <1>3, QueueStep

LEMMA PressStartStep == IInv /\ PressStart => IInv'
<1> SUFFICES ASSUME IInv, PressStart PROVE IInv'
  OBVIOUS
<1>1. phase = "events" /\ Top.kind = "app" /\ UNCHANGED <<morse, phase, launched>>
  BY DEF PressStart
<1>2. CASE PerformOnTop(Profile(Top.app).begin) /\ UNCHANGED pending
  <2>1. Good(stack', radio', morse) /\ SameViews(stack, stack')
    BY <1>1, <1>2, TopActs, TopMay
  <2> QED
    BY <1>1, <1>2, <2>1, ActStep, FrameSame, AskedSame
<1>3. CASE /\ Profile(Top.app).confirm /\ Queue(PushOp(View("modal", "menu", FreshId, FALSE, Top.id)))
           /\ UNCHANGED <<stack, radio>>
  <2>1. "modal" \in ViewKinds \ {"root", "app"} /\ "modal" \in Covers
    BY DEF ViewKinds, Covers
  <2> QED
    BY <1>1, <1>3, <2>1, InvFacts, PlainPush
<1> QED
  BY <1>2, <1>3 DEF PressStart

LEMMA PressStopStep == IInv /\ PressStop => IInv'
<1> SUFFICES ASSUME IInv, PressStop PROVE IInv'
  OBVIOUS
<1>1. /\ Top.kind = "app" /\ PerformOnTop(Profile(Top.app).end)
      /\ UNCHANGED <<pending, morse, phase, launched>>
  BY DEF PressStop
<1>2. Good(stack', radio', morse) /\ SameViews(stack, stack')
  BY <1>1, TopActs, TopMay
<1> QED
  BY <1>1, <1>2, ActStep, FrameSame, AskedSame

\* The application that the prompt on top asks for.
LEMMA AskedFor ==
  ASSUME IInv, Top.kind = "modal", NEW i \in 1 .. Len(stack), stack[i].id = Top.owner
  PROVE  \A j \in 1 .. Len(stack) : i < j => stack[j].kind \in Covers
BY InvFacts DEF Shape

LEMMA AnswerStep ==
  ASSUME IInv, NEW yes \in BOOLEAN, Answer(yes)
  PROVE  IInv' /\ SameViews(stack, stack')
<1>1. phase = "events" /\ Top.kind = "modal" /\ Queue(PopOp) /\ UNCHANGED <<morse, phase, launched>>
  BY DEF Answer
<1>2. PopOp \in Ops /\ PopOp.kind = "pop"
  BY DEF Ops, PopOp
<1>3. SameViews(stack, stack') /\ Good(stack', radio', morse')
  <2>1. CASE UNCHANGED <<radio, stack>>
    BY <1>1, <2>1, SameStack, InvFacts
  <2>2. ASSUME NEW i \in DOMAIN stack, stack[i].id = Top.owner,
               radio' = Perform([radio |-> radio, view |-> [stack[i] EXCEPT !.confirmed = TRUE]],
                                Profile(stack[i].app).begin).radio,
               stack' = [stack EXCEPT ![i] =
                           Perform([radio |-> radio, view |-> [stack[i] EXCEPT !.confirmed = TRUE]],
                                   Profile(stack[i].app).begin).view]
        PROVE  SameViews(stack, stack') /\ Good(stack', radio', morse')
    <3> DEFINE v == [stack[i] EXCEPT !.confirmed = TRUE]
               calls == Profile(stack[i].app).begin
    <3>1. i \in 1 .. Len(stack) /\ stack[i] \in ViewSet
      BY InvFacts
    <3>2. [stack[i] EXCEPT !.confirmed = TRUE].app = stack[i].app
      BY <3>1 DEF ViewSet
    <3>3. v \in ViewSet /\ Identity(stack[i], v) /\ v.sending = stack[i].sending
      BY <3>1 DEF ViewSet, Identity
    <3>4. Allowed(stack, i, calls)
      <4>1. \A j \in 1 .. Len(stack) : i < j => stack[j].kind \in Covers
        BY <1>1, <2>2, <3>1, AskedFor
      <4>2. CASE stack[i].kind = "app"
        BY <3>1, <4>1, <4>2, InvFacts, AllowedCalls
      <4>3. CASE stack[i].kind # "app"
        <5>1. calls = <<>>
          BY <3>1, <4>3, InvFacts, MenuIsBlank DEF Shape, WellKinded, Blank
        <5> QED
          BY <5>1 DEF Allowed, Range
      <4> QED
        BY <4>2, <4>3
    <3> HIDE DEF v, calls
    <3>5. Good(stack, radio, morse)
      BY InvFacts
    <3> DEFINE t == Perform([radio |-> radio, view |-> v], calls)
    <3>6. Good([stack EXCEPT ![i] = t.view], t.radio, morse) /\ SameViews(stack, [stack EXCEPT ![i] = t.view])
      BY <3>1, <3>3, <3>4, <3>5, ActGood
    <3>7. radio' = t.radio /\ stack' = [stack EXCEPT ![i] = t.view]
      BY <2>2 DEF v, calls
    <3> QED
      BY <1>1, <3>6, <3>7
  <2>3. \/ UNCHANGED <<radio, stack>>
        \/ \E i \in DOMAIN stack :
              LET asked == [stack[i] EXCEPT !.confirmed = TRUE]
                  after == Perform([radio |-> radio, view |-> asked], Profile(asked.app).begin)
              IN  /\ stack[i].id = Top.owner /\ radio' = after.radio
                  /\ stack' = [stack EXCEPT ![i] = after.view]
    BY DEF Answer
  <2>4. \A i \in DOMAIN stack : [stack[i] EXCEPT !.confirmed = TRUE].app = stack[i].app
    BY InvFacts DEF ViewSet
  <2> QED
    BY <2>1, <2>2, <2>3, <2>4
<1> QED
  BY <1>1, <1>2, <1>3, QueueStep

LEMMA ChooseStep == IInv /\ (ChooseMode \/ ChooseRate) => IInv'
<1> SUFFICES ASSUME IInv, ChooseMode \/ ChooseRate PROVE IInv'
  OBVIOUS
<1>1. Top.kind = "app" /\ UNCHANGED <<pending, morse, phase, launched>>
  BY DEF ChooseMode, ChooseRate
<1>2. \/ \E w \in Profile(Top.app).modes : PerformOnTop(<<Mode(w)>>)
      \/ \E w \in Profile(Top.app).rates : PerformOnTop(<<Rate(w)>>)
  BY DEF ChooseMode, ChooseRate
<1>3. Good(stack', radio', morse) /\ SameViews(stack, stack')
  BY <1>1, <1>2, TopActs, TopMay
<1> QED
  BY <1>1, <1>3, ActStep, FrameSame, AskedSame

LEMMA ReconnectStep == IInv /\ Reconnect => IInv'
<1> SUFFICES ASSUME IInv, Reconnect PROVE IInv'
  OBVIOUS
<1>1. UNCHANGED <<stack, pending, morse, phase, launched>>
  BY DEF Reconnect
<1>2. PICK found \in BOOLEAN :
         radio' = IF radio.running THEN StartReceiver([StopReceiver(radio) EXCEPT !.open = found])
                  ELSE [StopReceiver(radio) EXCEPT !.open = found]
  BY DEF Reconnect
<1> DEFINE x == StopReceiver(radio)
           y == [x EXCEPT !.open = found]
           u == IF radio.running THEN StartReceiver(y) ELSE y
<1>3. radio \in RadioSet
  BY InvFacts
<1>4. /\ x \in RadioSet /\ ~x.running /\ ~x.capturing /\ x.onAir = radio.onAir /\ x.iq = radio.iq
      /\ x.audio = radio.audio /\ x.tap = radio.tap /\ x.mic = radio.mic
  BY <1>3 DEF StopReceiver, RadioSet
<1> HIDE DEF x
<1>5. /\ y \in RadioSet /\ ~y.running /\ ~y.capturing /\ y.onAir = radio.onAir /\ y.iq = radio.iq
      /\ y.audio = radio.audio /\ y.tap = radio.tap /\ y.mic = radio.mic
  BY <1>4 DEF RadioSet
<1> HIDE DEF y
<1>6. /\ u \in RadioSet /\ (u.running => u.open) /\ ~u.capturing /\ u.onAir = radio.onAir /\ u.iq = radio.iq
      /\ u.audio = radio.audio /\ u.tap = radio.tap /\ u.mic = radio.mic
  BY <1>5 DEF StartReceiver, RadioSet
<1>7. radio' = u
  BY <1>2 DEF x, y
<1> HIDE DEF u
<1>8. Good(stack, radio, morse)
  BY InvFacts
<1>9. Good(stack, u, morse)
  BY <1>6, <1>8, GoodRadio
<1> QED
  BY <1>1, <1>7, <1>9, SameStack, ActStep, FrameSame, AskedSame

\* A launch clears the stack to the root, and puts an application there.
LEMMA LaunchFacts ==
  ASSUME IInv, NEW tail, tail \in {<<RootOp>>} \cup {<<RootOp, PushOp(v)>> : v \in ViewSet},
         pending' = pending \o tail
  PROVE  /\ pending' \in Seq(Ops) /\ Len(pending) \in Nat /\ Len(pending') = Len(pending) + Len(tail)
         /\ \A n \in 1 .. Len(pending) : pending'[n] = pending[n]
         /\ pending'[Len(pending) + 1] = RootOp
         /\ Len(tail) \in {1, 2}
         /\ Len(tail) = 2 => pending'[Len(pending) + 2] = tail[2]
<1>1. pending \in Seq(Ops)
  BY DEF IInv
<1>2. tail \in Seq(Ops) /\ Len(tail) \in {1, 2} /\ tail[1] = RootOp
  <2>1. CASE tail = <<RootOp>>
    BY <2>1 DEF Ops
  <2>2. ASSUME NEW v \in ViewSet, tail = <<RootOp, PushOp(v)>>
        PROVE  tail \in Seq(Ops) /\ Len(tail) \in {1, 2} /\ tail[1] = RootOp
    <3>1. RootOp \in Ops /\ PushOp(v) \in Ops
      BY ProperOps
    <3> QED
      BY <2>2, <3>1
  <2> QED
    BY <2>1, <2>2
<1> QED
  BY <1>1, <1>2

LEMMA LaunchFrame ==
  ASSUME IInv, phase' = "drain", launched < MaxLaunches, launched' = launched + 1,
         Len(pending') \in Nat, Len(pending') <= Len(pending) + 2
  PROVE  Frame'
<1>1. launched \in 0 .. MaxLaunches /\ Len(pending) <= MaxPending + 2 * launched /\ Len(pending) \in Nat
  BY DEF IInv, Frame
<1>2. MaxLaunches \in Nat /\ MaxPending \in Nat
  BY BoundsAssumption
<1>3. launched' \in 0 .. MaxLaunches /\ Len(pending') <= MaxPending + 2 * launched'
  BY <1>1, <1>2
<1> QED
  BY <1>3 DEF Frame

LEMMA PortalHomeStep == IInv /\ PortalHome => IInv'
<1> SUFFICES ASSUME IInv, PortalHome PROVE IInv'
  OBVIOUS
<1> DEFINE N == Len(pending)
<1>1. /\ pending' = pending \o <<RootOp>> /\ phase' = "drain" /\ launched < MaxLaunches
      /\ launched' = launched + 1 /\ UNCHANGED <<stack, radio, morse>>
  BY DEF PortalHome
<1>2. /\ pending' \in Seq(Ops) /\ N \in Nat /\ Len(pending') = N + 1
      /\ \A n \in 1 .. N : pending'[n] = pending[n]
      /\ pending'[N + 1] = RootOp
  <2>1. Len(<<RootOp>>) = 1
    OBVIOUS
  <2> QED
    BY <1>1, <2>1, LaunchFacts
<1>3. RootOp.kind # "push"
  BY DEF RootOp
<1>4. SameViews(stack, stack')
  BY <1>1, SameStack
<1>5. ASSUME NEW n \in 1 .. Len(pending') PROVE Queued(n)'
  <2>1. CASE n \in 1 .. N
    <3>1. \A k \in (N + 1) .. Len(pending') : pending'[k].kind = "push" => pending'[k].view.id = FreshId
      BY <1>2, <1>3
    <3>2. N <= Len(pending')
      BY <1>2
    <3> QED
      BY <1>2, <1>4, <2>1, <3>1, <3>2, QueuedKept
  <2>2. CASE n = N + 1
    <3>1. pending'[n].kind # "push"
      BY <1>2, <1>3, <2>2
    <3> QED
      BY <3>1 DEF Queued
  <2> QED
    BY <1>2, <2>1, <2>2
<1>6. Frame'
  BY <1>1, <1>2, LaunchFrame
<1> QED
  BY <1>1, <1>2, <1>5, <1>6, AskedSame DEF IInv

LEMMA PortalLaunchStep ==
  ASSUME IInv, NEW app \in Apps, PortalLaunch(app)
  PROVE  IInv'
<1> DEFINE N == Len(pending)
           b == Built(app, FALSE)
           v == b.view
<1>1. app \in AppIds
  BY AppsAssumption
<1>2. b \in Pairs /\ Good(stack, b.radio, morse) /\ v.kind = "app" /\ v.app = app /\ v.id = FreshId /\ ~v.sending
  BY <1>1, BuiltGood
<1>3. /\ pending' = pending \o <<RootOp, PushOp(v)>> /\ phase' = "drain" /\ launched < MaxLaunches
      /\ launched' = launched + 1 /\ radio' = b.radio /\ UNCHANGED <<stack, morse>>
  BY DEF PortalLaunch
<1> HIDE DEF b
<1>4. v \in ViewSet
  BY <1>2 DEF Pairs
<1> HIDE DEF v
<1>5. /\ pending' \in Seq(Ops) /\ N \in Nat /\ Len(pending') = N + 2
      /\ \A n \in 1 .. N : pending'[n] = pending[n]
      /\ pending'[N + 1] = RootOp /\ pending'[N + 2] = PushOp(v)
  <2>1. Len(<<RootOp, PushOp(v)>>) = 2 /\ <<RootOp, PushOp(v)>>[2] = PushOp(v)
    OBVIOUS
  <2>2. <<RootOp, PushOp(v)>> \in {<<RootOp>>} \cup {<<RootOp, PushOp(w)>> : w \in ViewSet}
    BY <1>4
  <2> QED
    BY <1>3, <2>1, <2>2, LaunchFacts
<1>6. RootOp.kind = "root" /\ PushOp(v).kind = "push" /\ PushOp(v).view = v
  BY <1>4, ProperOps
<1>7. SameViews(stack, stack') /\ stack' = stack
  BY <1>3, SameStack
<1>8. ASSUME NEW n \in 1 .. Len(pending') PROVE Queued(n)'
  <2>1. CASE n \in 1 .. N
    <3>1. \A k \in (N + 1) .. Len(pending') : k = N + 1 \/ k = N + 2
      BY <1>5
    <3>2. \A k \in (N + 1) .. Len(pending') : pending'[k].kind = "push" => pending'[k].view.id = FreshId
      BY <1>2, <1>5, <1>6, <3>1
    <3>3. N <= Len(pending')
      BY <1>5
    <3> QED
      BY <1>5, <1>7, <2>1, <3>2, <3>3, QueuedKept
  <2>2. CASE n = N + 1
    <3>1. pending'[n].kind # "push"
      BY <1>5, <1>6, <2>2
    <3> QED
      BY <3>1 DEF Queued
  <2>3. CASE n = N + 2
    <3>1. pending'[n].view = v /\ n > 1 /\ n - 1 = N + 1 /\ pending'[n - 1].kind = "root"
      BY <1>5, <1>6, <2>3
    <3>2. \A i \in 1 .. Len(stack') : stack'[i].id # v.id
      BY <1>2, <1>7, FreshFacts
    <3>3. \A m \in 1 .. Len(pending') : (pending'[m].kind = "push" /\ m # n) => pending'[m].view.id # v.id
      <4> TAKE m \in 1 .. Len(pending')
      <4> HAVE pending'[m].kind = "push" /\ m # n
      <4>1. m \in 1 .. N
        BY <1>5, <1>6, <2>3
      <4>2. pending'[m] = pending[m]
        BY <1>5, <4>1
      <4> QED
        BY <1>2, <4>1, <4>2, FreshFacts
    <3>4. WellKinded(v) /\ v.kind \notin Covers /\ v.kind # "root"
      BY <1>1, <1>2 DEF WellKinded, Covers
    <3> QED
      BY <1>2, <3>1, <3>2, <3>3, <3>4 DEF Queued
  <2> QED
    BY <1>5, <2>1, <2>2, <2>3
<1>9. Frame'
  BY <1>3, <1>5, LaunchFrame
<1>10. Good(stack', radio', morse')
  BY <1>2, <1>3
<1>11. Len(stack') <= MaxDepth
  BY <1>3 DEF IInv
<1> QED
  BY <1>3, <1>5, <1>8, <1>9, <1>10, <1>11, AskedSame DEF IInv

LEMMA FrameSyncStep == IInv /\ FrameSync => IInv'
<1> SUFFICES ASSUME IInv, FrameSync PROVE IInv'
  OBVIOUS
<1>1. phase = "sync" /\ phase' = "events" /\ UNCHANGED <<pending, morse, launched>>
  BY DEF FrameSync
<1>2. Frame'
  <2>1. launched = 0 /\ pending = <<>> /\ launched \in 0 .. MaxLaunches /\ Len(pending) <= MaxPending + 2 * launched
    BY <1>1 DEF IInv, Frame
  <2> QED
    BY <1>1, <2>1 DEF Frame
<1>3. Good(stack', radio', morse') /\ SameViews(stack, stack')
  <2>1. CASE UNCHANGED <<stack, radio>>
    BY <1>1, <2>1, SameStack, InvFacts
  <2>2. CASE /\ Top.kind = "app"
             /\ PerformOnTop(Profile(Top.app).begin) \/ PerformOnTop(Profile(Top.app).end)
    BY <1>1, <2>2, TopMay, TopActs
  <2> QED
    BY <2>1, <2>2 DEF FrameSync, EndOfBurst
<1> QED
  BY <1>1, <1>2, <1>3, ActStep, AskedSame

LEMMA ExhaustStep ==
  ASSUME IInv, Exhaust
  PROVE  IInv' /\ SameViews(stack, stack')
<1>1. UNCHANGED <<pending, radio, phase, launched>>
  BY DEF Exhaust
<1>2. CASE morse' = [morse EXCEPT !.done = TRUE] /\ UNCHANGED stack
  <2>1. morse \in MorseSet /\ (morse.active \/ morse.pending => morse.asked # 0)
    BY DEF IInv, Asked
  <2>2. /\ morse' \in MorseSet /\ morse'.active = morse.active /\ morse'.pending = morse.pending
        /\ morse'.asked = morse.asked
    BY <1>2, <2>1 DEF MorseSet
  <2>3. Good(stack', radio', morse')
    BY <1>1, <1>2, <2>2, InvFacts DEF Good, Carried
  <2>4. Asked'
    BY <2>1, <2>2 DEF Asked
  <2> QED
    BY <1>1, <1>2, <2>3, <2>4, SameStack, ActStep, FrameSame
<1>3. ASSUME NEW i \in DOMAIN stack, stack' = [stack EXCEPT ![i].sent = TRUE], UNCHANGED morse
      PROVE  IInv' /\ SameViews(stack, stack')
  <2> DEFINE v == stack[i]
             w == [v EXCEPT !.sent = TRUE]
             s == [radio |-> radio, view |-> v]
  <2>1. i \in 1 .. Len(stack) /\ v \in ViewSet /\ Good(stack, radio, morse) /\ stack \in Seq(ViewSet)
    BY InvFacts
  <2>2. w \in ViewSet /\ Identity(v, w) /\ w.sending = v.sending
    BY <2>1 DEF ViewSet, Identity
  <2>3. stack' = [stack EXCEPT ![i] = w]
    BY <1>3
  <2>4. Allowed(stack, i, <<>>)
    BY DEF Allowed, Range
  <2>5. Perform(s, <<>>) = s /\ s.radio = radio /\ s.view = v
    <3>1. s \in Pairs
      BY <2>1, InvFacts DEF Pairs
    <3> QED
      BY <3>1, PerformNothing
  <2> HIDE DEF w
  <2>6. Identity(v, v)
    BY DEF Identity
  <2>7. Good([stack EXCEPT ![i] = w], radio, morse) /\ Identity(stack[i], w)
    <3>1. /\ Good([stack EXCEPT ![i] = w], Perform(s, <<>>).radio, morse)
          /\ Identity(stack[i], w)
      BY <2>1, <2>2, <2>4, <2>5, <2>6, GoodAct
    <3> QED
      BY <2>5, <3>1
  <2>8. SameViews(stack, stack')
    BY <2>1, <2>3, <2>7 DEF SameViews, Identity
  <2>9. Good(stack', radio', morse')
    BY <1>1, <1>3, <2>3, <2>7
  <2> QED
    BY <1>1, <1>3, <2>8, <2>9, ActStep, FrameSame, AskedSame
<1> QED
  BY <1>2, <1>3 DEF Exhaust

LEMMA MorseRequestStep == IInv /\ MorseRequest => IInv'
<1> SUFFICES ASSUME IInv, MorseRequest PROVE IInv'
  OBVIOUS
<1>1. /\ UNCHANGED <<stack, pending, radio, phase, launched>>
      /\ morse' = [morse EXCEPT !.pending = TRUE, !.asked = @ + 1]
  BY DEF MorseRequest
<1>2. morse \in MorseSet
  BY DEF IInv, Asked
<1>3. morse' \in MorseSet /\ morse'.active = morse.active /\ morse'.asked # 0
  <2>1. morse.asked \in Nat /\ morse.asked + 1 \in Nat \ {0} /\ morse' = [morse EXCEPT !.pending = TRUE, !.asked = morse.asked + 1]
    BY <1>1, <1>2 DEF MorseSet
  <2> DEFINE k == morse.asked + 1
  <2>2. k \in Nat /\ k # 0 /\ morse' = [morse EXCEPT !.pending = TRUE, !.asked = k]
    BY <2>1
  <2> HIDE DEF k
  <2> QED
    BY <1>2, <2>2 DEF MorseSet
<1>4. Good(stack', radio', morse')
  BY <1>1, <1>3, InvFacts DEF Good, Carried
<1>5. Asked'
  BY <1>3 DEF Asked
<1> QED
  BY <1>1, <1>4, <1>5, SameStack, ActStep, FrameSame

-----------------------------------------------------------------------------
(* The invariant is inductive.                                             *)

LEMMA InitIInv == Init => IInv
<1> SUFFICES ASSUME Init PROVE IInv
  OBVIOUS
<1> DEFINE root == [Root EXCEPT !.shown = TRUE]
<1>1. root \in ViewSet /\ root.kind = "root" /\ root.app = "menu" /\ ~root.sending
  <2>1. Root \in ViewSet /\ Root.kind = "root" /\ Root.app = "menu" /\ ~Root.sending
    <3>1. Blank.fresh \in SavedSet
      BY MenuIsBlank, ProfileCalls
    <3>2. [mode |-> "none", rate |-> "none"] \in [mode : Words, rate : Words]
      BY DEF Words
    <3> QED
      BY <3>1, <3>2, MenuIsBlank DEF Root, View, ViewSet, ViewKinds
  <2> HIDE DEF ViewKinds
  <2> QED
    BY <2>1 DEF ViewSet
<1> HIDE DEF root
<1>2. stack = <<root>> /\ Len(stack) = 1 /\ stack \in Seq(ViewSet) /\ stack[1] = root
  BY <1>1 DEF Init, root
<1>3. Shape(stack)
  <2>1. WellKinded(root)
    BY <1>1 DEF WellKinded
  <2>2. \A i \in 1 .. Len(stack) : i = 1 /\ stack[i] = root
    BY <1>2
  <2> HIDE DEF WellKinded
  <2> QED
    BY <1>1, <1>2, <2>1, <2>2 DEF Shape
<1>4. /\ radio \in RadioSet /\ radio.iq = NoSource /\ radio.audio = NoSource /\ ~radio.running
      /\ ~radio.onAir /\ ~radio.tap /\ ~radio.capturing /\ ~radio.mic
  <2>1. PICK open \in AtStart : radio = FreshRadio(open)
    BY DEF Init
  <2>2. open \in BOOLEAN
    BY AppsAssumption
  <2> QED
    BY <2>1, <2>2 DEF FreshRadio, RadioSet, NoSource, Words
<1>5. Owned(stack, radio)
  BY <1>4 DEF Owned
<1>6. morse \in MorseSet /\ ~morse.active /\ ~morse.pending
  BY DEF Init, MorseSet
<1>7. Carried(stack, radio, morse)
  <2>1. \A i \in 1 .. Len(stack) : ~stack[i].sending
    BY <1>1, <1>2
  <2> QED
    BY <1>4, <2>1 DEF Carried, NoSource, WebSource
<1>8. pending = <<>> /\ pending \in Seq(Ops) /\ Len(pending) = 0
  BY DEF Init
<1>9. Frame
  BY <1>8, BoundsAssumption DEF Init, Frame
<1>10. \A n \in 1 .. Len(pending) : Queued(n)
  BY <1>8
<1>11. Len(stack) <= MaxDepth
  BY <1>2, BoundsAssumption
<1> QED
  BY <1>3, <1>5, <1>6, <1>7, <1>8, <1>9, <1>10, <1>11 DEF IInv, Good, Asked

LEMMA Inductive == IInv /\ [Next]_vars => IInv'
<1> SUFFICES ASSUME IInv, [Next]_vars PROVE IInv'
  OBVIOUS
<1>1. CASE UNCHANGED vars
  <2>1. UNCHANGED <<stack, pending, radio, morse, phase, launched>>
    BY <1>1 DEF vars
  <2>2. Good(stack', radio', morse') /\ SameViews(stack, stack')
    BY <2>1, SameStack, InvFacts
  <2> QED
    BY <2>1, <2>2, ActStep, FrameSame, AskedSame
<1>2. ASSUME NEW app \in Apps, Select(app) \/ OpenApp(app) \/ PortalLaunch(app) PROVE IInv'
  BY <1>2, SelectStep, OpenAppStep, PortalLaunchStep
<1>3. ASSUME NEW yes \in BOOLEAN, Answer(yes) PROVE IInv'
  BY <1>3, AnswerStep
<1>4. CASE OpenMenu
  BY <1>4, OpenMenuStep
<1>5. CASE Back
  BY <1>5, BackStep
<1>6. CASE OpenPage
  BY <1>6, OpenPageStep
<1>7. CASE PressStart
  BY <1>7, PressStartStep
<1>8. CASE PressStop
  BY <1>8, PressStopStep
<1>9. CASE ChooseMode \/ ChooseRate
  BY <1>9, ChooseStep
<1>10. CASE Reconnect
  BY <1>10, ReconnectStep
<1>11. CASE PortalHome
  BY <1>11, PortalHomeStep
<1>12. CASE Service
  BY <1>12, ServiceStep
<1>13. CASE FrameSync
  BY <1>13, FrameSyncStep
<1>14. CASE Exhaust
  BY <1>14, ExhaustStep
<1>15. CASE MorseRequest
  BY <1>15, MorseRequestStep
<1> QED
  BY <1>1, <1>2, <1>3, <1>4, <1>5, <1>6, <1>7, <1>8, <1>9, <1>10, <1>11, <1>12, <1>13, <1>14, <1>15 DEF Next

(* No view that transmits is destroyed unnoticed, everything that the      *)
(* applications share is accounted for, and what event handlers queue      *)
(* fits the stack it is queued over: the inductive invariant.              *)
THEOREM Invariant == Spec => []IInv
BY InitIInv, Inductive, PTL DEF Spec

(* The root is at the bottom of the stack and only there, no view is on it *)
(* twice, only an application transmits, the queue and the stack stay      *)
(* within their bounds and the receiver runs only on an open device.       *)
THEOREM TypeCorrect == Spec => []TypeOK
<1>1. IInv => TypeOK
  <2> SUFFICES ASSUME IInv PROVE TypeOK
    OBVIOUS
  <2>1. /\ Shape(stack) /\ Len(stack) \in Nat \ {0} /\ DOMAIN stack = 1 .. Len(stack)
        /\ Owned(stack, radio) /\ Frame /\ pending \in Seq(Ops)
    BY InvFacts DEF IInv, Good
  <2>2. stack[1].kind = "root" /\ Len(stack) <= MaxDepth
    <3>1. 1 \in 1 .. Len(stack)
      BY <2>1
    <3> QED
      BY <2>1, <3>1 DEF Shape, IInv
  <2>3. \A i, j \in DOMAIN stack : (i # j) => stack[i].id # stack[j].id
    BY <2>1 DEF Shape
  <2>4. \A i \in DOMAIN stack : i > 1 => stack[i].kind # "root"
    BY <2>1 DEF Shape
  <2>5. ASSUME NEW v \in Views PROVE v.kind \in ViewKinds /\ (v.sending => v.kind = "app")
    <3>1. CASE v \in Range(stack)
      <4>1. PICK i \in 1 .. Len(stack) : v = stack[i]
        BY <2>1, <3>1 DEF Range
      <4> QED
        BY <2>1, <4>1, InvFacts, ViewFacts DEF Shape, WellKinded
    <3>2. CASE v \in PendingViews \ {NoView}
      <4>1. PICK n \in 1 .. Len(pending) : v = pending[n].view
        BY <2>1, <3>2 DEF PendingViews
      <4>2. pending[n] \in Ops /\ Queued(n)
        BY <2>1 DEF IInv
      <4>3. pending[n].kind = "push"
        BY <3>2, <4>1, <4>2 DEF Ops, PopOp, RootOp
      <4> QED
        BY <4>1, <4>2, <4>3, OpFacts, ViewFacts DEF Queued, WellKinded
    <3> QED
      BY <3>1, <3>2 DEF Views
  <2>6. Len(pending) <= MaxPending + 2 * MaxLaunches /\ launched <= MaxLaunches
    <3>1. launched \in 0 .. MaxLaunches /\ Len(pending) <= MaxPending + 2 * launched /\ Len(pending) \in Nat
      BY <2>1 DEF Frame
    <3>2. MaxLaunches \in Nat /\ MaxPending \in Nat
      BY BoundsAssumption
    <3> QED
      BY <3>1, <3>2
  <2>7. (radio.running => radio.open) /\ phase \in {"events", "drain", "sync"}
    BY <2>1 DEF Owned, Frame
  <2> QED
    BY <2>2, <2>3, <2>4, <2>5, <2>6, <2>7 DEF TypeOK
<1> QED
  BY <1>1, Invariant, PTL

LEMMA StackIds ==
  ASSUME IInv, NEW i \in 1 .. Len(stack)
  PROVE  stack[i].id \in Ids /\ stack[i] \in Range(stack)
<1>1. DOMAIN stack = 1 .. Len(stack)
  BY InvFacts
<1> QED
  BY <1>1 DEF Ids, Range

(* The transmitter's source belongs to a view on the stack, to a keyer     *)
(* that outlives its view, or to the browser's Morse sender while that is  *)
(* active: navigation destroys no view that the DSP thread still pulls     *)
(* samples from, in whatever order the views are hidden and destroyed.     *)
THEOREM SourcesStay == Spec => []NoDanglingSource
<1>1. IInv => NoDanglingSource
  <2> SUFFICES ASSUME IInv PROVE NoDanglingSource
    OBVIOUS
  <2>1. Owned(stack, radio) /\ Carried(stack, radio, morse)
    BY DEF IInv, Good
  <2>2. radio.iq \in Ids \cup {NoSource, KeyerSource, WebSource}
    BY <2>1, StackIds DEF Owned, Feeding
  <2>3. radio.audio \in Ids \cup {NoSource}
    BY <2>1, StackIds DEF Owned, Feeding
  <2>4. radio.iq = WebSource => morse.active
    BY <2>1 DEF Carried
  <2> QED
    BY <2>2, <2>3, <2>4 DEF NoDanglingSource
<1> QED
  BY <1>1, Invariant, PTL

(* The carrier is on the air only for a view that knows it or for the      *)
(* Morse sender, and, as long as no browser has asked for Morse, a view    *)
(* that believes it is transmitting is.                                    *)
THEOREM CarrierHasAnOwner == Spec => []CarrierIsAccountedFor
<1>1. IInv => CarrierIsAccountedFor
  <2> SUFFICES ASSUME IInv PROVE CarrierIsAccountedFor
    OBVIOUS
  <2>1. Carried(stack, radio, morse)
    BY DEF IInv, Good
  <2>2. radio.onAir => morse.active \/ \E v \in Range(stack) : v.sending
    BY <2>1, StackIds DEF Carried
  <2>3. ASSUME morse.asked = 0, NEW v \in Range(stack), v.sending PROVE radio.onAir
    <3>1. PICK i \in 1 .. Len(stack) : v = stack[i]
      BY InvFacts DEF Range
    <3> QED
      BY <2>1, <2>3, <3>1 DEF Carried
  <2> QED
    BY <2>2, <2>3 DEF CarrierIsAccountedFor
<1> QED
  BY <1>1, Invariant, PTL

(* The sample tap, a recording and the microphone are in use only while an *)
(* application that uses them is on the stack.                             *)
THEOREM ResourcesAreReturned == Spec => []ResourcesHaveOwners
<1>1. IInv => ResourcesHaveOwners
  <2> SUFFICES ASSUME IInv PROVE ResourcesHaveOwners
    OBVIOUS
  <2>1. Owned(stack, radio)
    BY DEF IInv, Good
  <2>2. ASSUME NEW call, NEW i \in 1 .. Len(stack), Makes(stack[i].app, call) PROVE Uses(call)
    BY <2>2, StackIds DEF Makes, Uses
  <2> QED
    BY <2>1, <2>2 DEF Owned, ResourcesHaveOwners
<1> QED
  BY <1>1, Invariant, PTL

-----------------------------------------------------------------------------
(* The views that prompts and pages belong to.                             *)

LEMMA AttendedSame ==
  ASSUME NEW stk, NEW q, SameViews(stk, q), Len(stk) \in Nat, Attended(stk)
  PROVE  Attended(q)
<1> SUFFICES ASSUME NEW j \in 1 .. Len(q), q[j].kind \in Covers
             PROVE  \E i \in 1 .. Len(q) : i < j /\ q[i].id = q[j].owner
  BY DEF Attended
<1>1. Len(q) = Len(stk) /\ \A i \in 1 .. Len(stk) : Identity(stk[i], q[i])
  BY DEF SameViews
<1>2. stk[j].kind = q[j].kind /\ stk[j].owner = q[j].owner
  BY <1>1 DEF Identity
<1>3. PICK i \in 1 .. Len(stk) : i < j /\ stk[i].id = stk[j].owner
  BY <1>1, <1>2 DEF Attended
<1> QED
  BY <1>1, <1>2, <1>3 DEF Identity

LEMMA AttendedTrims ==
  ASSUME NEW stk \in Seq(ViewSet), NEW q \in Seq(ViewSet), Trims(stk, q), Attended(stk)
  PROVE  Attended(q)
<1> SUFFICES ASSUME NEW j \in 1 .. Len(q), q[j].kind \in Covers
             PROVE  \E i \in 1 .. Len(q) : i < j /\ q[i].id = q[j].owner
  BY DEF Attended
<1>1. /\ Len(q) \in Nat /\ Len(stk) \in Nat /\ Len(q) <= Len(stk)
      /\ \A i \in 1 .. Len(q) : Identity(stk[i], q[i])
  BY DEF Trims
<1>2. stk[j].kind = q[j].kind /\ stk[j].owner = q[j].owner /\ j \in 1 .. Len(stk)
  BY <1>1 DEF Identity
<1>3. PICK i \in 1 .. Len(stk) : i < j /\ stk[i].id = stk[j].owner
  BY <1>2 DEF Attended
<1>4. i \in 1 .. Len(q)
  BY <1>1, <1>3
<1> QED
  BY <1>1, <1>2, <1>3, <1>4 DEF Identity

OnlyPushes(n) == \A m \in 1 .. n : pending[m].kind = "push"

\* As long as nothing is popped, the views that were on the stack stay.
Stays(n, s) ==
    /\ Attended(s.stack)
    /\ OnlyPushes(n) => /\ Len(stack) <= Len(s.stack)
                        /\ \A i \in 1 .. Len(stack) : Identity(stack[i], s.stack[i])

LEMMA StaysStep ==
  ASSUME IInv, PushesFirst, NEW n \in 0 .. (Len(pending) - 1), NEW s \in Services,
         Reached(n, s), Stays(n, s)
  PROVE  Stays(n + 1, Apply(s, pending[n + 1]))
<1> DEFINE op == pending[n + 1]
           k == n + 1
           a == Apply(s, op)
           h == HideTop(s)
           N == Len(s.stack)
<1>1. Len(pending) \in Nat /\ op \in Ops /\ k \in 1 .. Len(pending) /\ n \in Nat /\ k \in Nat
  BY DEF IInv
<1>2. Good(s.stack, s.radio, morse) /\ s.stack \in Seq(ViewSet) /\ N \in Nat
  BY TopFacts DEF Reached
<1>3. CASE op.kind # "push"
  <2>1. a \in Services /\ Trims(s.stack, a.stack)
    <3> HIDE DEF op
    <3> QED
      BY <1>1, <1>2, <1>3, ApplyTrim
  <2>2. a.stack \in Seq(ViewSet)
    BY <2>1, TopFacts
  <2>3. ~OnlyPushes(k)
    BY <1>1, <1>3 DEF OnlyPushes
  <2> HIDE DEF a, k
  <2>4. Attended(a.stack)
    BY <1>2, <2>1, <2>2, AttendedTrims DEF Stays
  <2> QED
    BY <2>3, <2>4 DEF Stays, a, k
<1>4. CASE op.kind = "push"
  <2> DEFINE v == op.view
  <2>1. v \in ViewSet /\ Queued(k)
    BY <1>1, <1>4, OpFacts DEF IInv
  <2>2. a.stack = Append(h.stack, v)
    <3>1. a = [stack |-> Append(h.stack, v), radio |-> h.radio, changed |-> TRUE]
      <4> HIDE DEF op
      <4> QED
        BY <1>1, <1>4, ApplyPush
    <3> QED
      BY <3>1
  <2>3. h \in Services /\ Len(h.stack) = N /\ Trims(s.stack, h.stack)
    BY <1>2, HideTopGood
  <2>4. h.stack \in Seq(ViewSet) /\ Attended(h.stack)
    BY <1>2, <2>3, TopFacts, AttendedTrims DEF Stays
  <2> HIDE DEF a, h, v
  <2> DEFINE q == a.stack
  <2>5. /\ Len(q) = N + 1 /\ q[N + 1] = v /\ \A i \in 1 .. N : q[i] = h.stack[i]
        /\ \A i \in 1 .. N : Identity(s.stack[i], q[i])
    BY <1>2, <2>1, <2>2, <2>3, <2>4 DEF Trims
  <2> HIDE DEF q
  <2>6. OnlyPushes(k) => /\ Len(stack) <= N
                         /\ \A i \in 1 .. Len(stack) : i \in 1 .. N /\ Identity(stack[i], q[i])
    <3> SUFFICES ASSUME OnlyPushes(k)
                 PROVE  /\ Len(stack) <= N
                        /\ \A i \in 1 .. Len(stack) : i \in 1 .. N /\ Identity(stack[i], q[i])
      OBVIOUS
    <3>1. OnlyPushes(n)
      BY <1>1 DEF OnlyPushes
    <3>2. Len(stack) <= N /\ \A i \in 1 .. Len(stack) : Identity(stack[i], s.stack[i])
      BY <3>1 DEF Stays
    <3>3. Len(stack) \in Nat
      BY InvFacts
    <3> QED
      BY <1>2, <2>5, <3>2, <3>3 DEF Identity
  <2>7. ASSUME v.kind \in Covers PROVE \E i \in 1 .. N : q[i].id = v.owner
    <3>1. v.owner = Last(stack).id /\ \A m \in 1 .. k : pending[m].kind # "root"
      BY <1>4, <2>1, <2>7 DEF Queued, v
    <3>2. OnlyPushes(k)
      BY <1>1, <1>4, <3>1 DEF PushesFirst, OnlyPushes
    <3>3. Last(stack) = stack[Len(stack)] /\ Len(stack) \in 1 .. Len(stack)
      BY InvFacts DEF Top
    <3> QED
      BY <2>6, <3>1, <3>2, <3>3 DEF Identity
  <2>8. Attended(q)
    <3> SUFFICES ASSUME NEW j \in 1 .. Len(q), q[j].kind \in Covers
                 PROVE  \E i \in 1 .. Len(q) : i < j /\ q[i].id = q[j].owner
      BY DEF Attended
    <3>1. CASE j = N + 1
      <4>1. PICK i \in 1 .. N : q[i].id = v.owner
        BY <2>5, <2>7, <3>1
      <4> QED
        BY <1>2, <2>5, <3>1, <4>1
    <3>2. CASE j \in 1 .. N
      <4>1. PICK i \in 1 .. N : i < j /\ h.stack[i].id = h.stack[j].owner
        BY <2>3, <2>4, <2>5, <3>2 DEF Attended
      <4> QED
        BY <1>2, <2>5, <3>2, <4>1, SMTT(40)
    <3> QED
      BY <1>2, <2>5, <3>1, <3>2, SMTT(40)
  <2>9. Len(stack) \in Nat
    BY InvFacts
  <2> HIDE DEF k
  <2> QED
    BY <1>2, <2>5, <2>6, <2>8, <2>9 DEF Stays, q, a, k
<1>5. op.kind = "push" \/ op.kind # "push"
  OBVIOUS
<1> QED
  BY <1>3, <1>4, <1>5

LEMMA AppliedStays ==
  ASSUME IInv, PushesFirst, Attended(stack)
  PROVE  Attended(Applied.stack)
<1> DEFINE N == Len(pending)
<1>1. N \in Nat /\ pending \in Seq(Ops)
  BY DEF IInv
<1>2. stack \in Seq(ViewSet) \ {<<>>} /\ radio \in RadioSet
  BY DEF IInv, Good, Shape, Owned
<1>3. PICK f \in [0 .. N -> Services] :
            /\ f[0] = [stack |-> stack, radio |-> radio, changed |-> FALSE]
            /\ \A n \in 1 .. N : f[n] = Apply(f[n - 1], pending[n])
            /\ Applied = f[N]
  BY <1>1, <1>2, AppliedRuns
<1> DEFINE T == {n \in 0 .. N : Reached(n, f[n]) /\ Stays(n, f[n])}
<1>4. 0 \in T
  <2>1. Reached(0, f[0])
    BY <1>3, ReachedStart
  <2>2. Stays(0, f[0])
    <3>1. f[0].stack = stack /\ Len(stack) \in Nat
      BY <1>2, <1>3
    <3> QED
      BY <3>1 DEF Stays, Identity
  <2> QED
    BY <1>1, <2>1, <2>2
<1>5. ASSUME NEW n \in 0 .. (N - 1), n \in T PROVE n + 1 \in T
  <2>1. n + 1 \in 1 .. N /\ n + 1 \in 0 .. N /\ (n + 1) - 1 = n /\ n \in 0 .. N
    BY <1>1
  <2>2. f[n] \in Services /\ Reached(n, f[n]) /\ Stays(n, f[n]) /\ f[n + 1] = Apply(f[n], pending[n + 1])
    BY <1>3, <1>5, <2>1
  <2>3. Reached(n + 1, Apply(f[n], pending[n + 1]))
    BY <2>2, ReachedTrim, ReachedPush
  <2>4. Stays(n + 1, Apply(f[n], pending[n + 1]))
    BY <2>2, StaysStep
  <2> QED
    BY <2>1, <2>2, <2>3, <2>4
<1>6. N \in T
  <2> HIDE DEF T, N
  <2>1. \A n \in 0 .. N : n \in T
    BY <1>1, <1>4, <1>5, UpTo
  <2> QED
    BY <1>1, <2>1
<1> QED
  BY <1>1, <1>3, <1>6 DEF Stays

LEMMA PushesFirstAfter ==
  ASSUME IInv, ~PushAfterPop, PushesFirst, NEW op \in Ops, op.kind # "root", Queue(op), phase = "events"
  PROVE  PushesFirst'
<1> DEFINE N == Len(pending)
<1>1. /\ N \in Nat /\ Len(pending') = N + 1 /\ pending'[N + 1] = op
      /\ \A n \in 1 .. N : pending'[n] = pending[n] /\ pending[n] \in Ops
      /\ DOMAIN pending = 1 .. N
  BY AppendFacts DEF IInv, Queue
<1>2. \A n \in 1 .. N : pending[n].kind # "root"
  BY DEF IInv, Frame
<1>3. SUFFICES ASSUME NEW n \in 1 .. Len(pending'), pending'[n].kind = "push",
                      \A m \in 1 .. n : pending'[m].kind # "root",
                      NEW m \in 1 .. n
               PROVE  pending'[m].kind = "push"
  BY DEF PushesFirst
<1>4. CASE n \in 1 .. N
  <2>1. \A k \in 1 .. n : k \in 1 .. N
    BY <1>1, <1>4
  <2>2. pending[n].kind = "push" /\ \A k \in 1 .. n : pending[k].kind # "root"
    BY <1>1, <1>2, <1>3, <1>4, <2>1
  <2>3. pending[m].kind = "push"
    BY <1>4, <2>2 DEF PushesFirst
  <2> QED
    BY <1>1, <2>1, <2>3
<1>5. CASE n = N + 1
  <2>1. op.kind = "push"
    BY <1>1, <1>3, <1>5
  <2>2. \A k \in 1 .. N : pending[k].kind # "pop"
    BY <1>1, <2>1 DEF Queue, Popped
  <2>3. CASE m = N + 1
    BY <1>1, <2>1, <2>3
  <2>4. CASE m \in 1 .. N
    <3>1. pending[m].kind \in {"push", "pop", "root"}
      BY <1>1, <2>4, OpFacts
    <3> QED
      BY <1>1, <1>2, <2>2, <2>4, <3>1
  <2> QED
    BY <1>1, <1>5, <2>3, <2>4
<1> QED
  BY <1>1, <1>4, <1>5

\* Event handlers, the portal and the DSP thread leave the views where they are.
LEMMA ViewsStay ==
  ASSUME IInv, [Next]_vars, ~Service
  PROVE  SameViews(stack, stack')
<1>1. CASE UNCHANGED stack
  BY <1>1, SameStack
<1>2. CASE /\ Top.kind = "app"
           /\ \/ PerformOnTop(Profile(Top.app).begin) \/ PerformOnTop(Profile(Top.app).end)
              \/ \E w \in Profile(Top.app).modes : PerformOnTop(<<Mode(w)>>)
              \/ \E w \in Profile(Top.app).rates : PerformOnTop(<<Rate(w)>>)
  BY <1>2, TopMay, TopActs
<1>3. CASE Exhaust
  BY <1>3, ExhaustStep
<1>4. ASSUME NEW yes \in BOOLEAN, Answer(yes) PROVE SameViews(stack, stack')
  BY <1>4, AnswerStep
<1>5. CASE UNCHANGED vars
  BY <1>1, <1>5 DEF vars
<1>6. CASE \E app \in Apps : Select(app) \/ OpenApp(app) \/ PortalLaunch(app)
  BY <1>1, <1>6 DEF Select, OpenApp, PortalLaunch
<1>7. CASE OpenMenu \/ Back \/ OpenPage \/ Reconnect \/ PortalHome \/ MorseRequest
  BY <1>1, <1>7 DEF OpenMenu, Back, OpenPage, Reconnect, PortalHome, MorseRequest
<1>8. CASE PressStart
  BY <1>1, <1>2, <1>8 DEF PressStart
<1>9. CASE PressStop \/ ChooseMode \/ ChooseRate
  BY <1>2, <1>9 DEF PressStop, ChooseMode, ChooseRate
<1>10. CASE FrameSync
  BY <1>1, <1>2, <1>10 DEF FrameSync, EndOfBurst
<1> QED
  BY <1>3, <1>4, <1>5, <1>6, <1>7, <1>8, <1>9, <1>10 DEF Next

\* What a step does to the queue.
LEMMA QueueMoves ==
  ASSUME [Next]_vars
  PROVE  \/ UNCHANGED pending
         \/ phase = "events" /\ \E op : Queue(op) /\ (op = PopOp \/ \E v : op = PushOp(v))
         \/ pending' = pending \o <<RootOp>>
         \/ \E app \in Apps : pending' = pending \o <<RootOp, PushOp(Built(app, FALSE).view)>>
         \/ Service
<1>1. CASE UNCHANGED vars
  BY <1>1 DEF vars
<1>2. CASE \E app \in Apps : Select(app) \/ OpenApp(app) \/ PortalLaunch(app)
  BY <1>2 DEF Select, OpenApp, PortalLaunch
<1>3. CASE OpenMenu \/ Back \/ OpenPage \/ PressStart
  BY <1>3 DEF OpenMenu, Back, OpenPage, PressStart
<1>4. CASE PressStop \/ ChooseMode \/ ChooseRate \/ Reconnect \/ FrameSync \/ Exhaust \/ MorseRequest
  BY <1>4 DEF PressStop, ChooseMode, ChooseRate, Reconnect, FrameSync, Exhaust, MorseRequest
<1>5. CASE (\E yes \in BOOLEAN : Answer(yes)) \/ PortalHome
  BY <1>5 DEF Answer, PortalHome
<1> QED
  BY <1>1, <1>2, <1>3, <1>4, <1>5 DEF Next

LEMMA OwnerStep ==
  ASSUME IInv, IInv', OwnerInv, [Next]_vars
  PROVE  OwnerInv'
<1> SUFFICES ASSUME ~PushAfterPop PROVE Attended(stack') /\ PushesFirst'
  BY DEF OwnerInv
<1>1. Attended(stack) /\ PushesFirst
  BY DEF OwnerInv
<1>2. CASE Service
  <2>1. stack' = Serviced.stack /\ pending' = <<>>
    BY <1>2 DEF Service, Refresh
  <2>2. SameViews(Applied.stack, Serviced.stack) /\ Applied \in Services
    BY ServicedGood, AppliedReached
  <2>3. Attended(stack')
    BY <1>1, <2>1, <2>2, AppliedStays, AttendedSame, TopFacts
  <2>4. PushesFirst'
    BY <2>1 DEF PushesFirst
  <2> QED
    BY <2>3, <2>4
<1>3. CASE ~Service
  <2>1. Attended(stack')
    BY <1>1, <1>3, ViewsStay, AttendedSame, InvFacts
  <2>2. ASSUME UNCHANGED pending PROVE PushesFirst'
    BY <1>1, <2>2 DEF PushesFirst
  <2>3. ASSUME phase = "events", NEW op, Queue(op), op = PopOp \/ \E v : op = PushOp(v)
        PROVE  PushesFirst'
    <3>1. op.kind # "root"
      BY <2>3 DEF PopOp, PushOp
    <3>2. op \in Ops
      <4>1. CASE op = PopOp
        BY <4>1 DEF Ops
      <4>2. CASE op # PopOp
        <5>1. pending' = Append(pending, op) /\ pending \in Seq(Ops) /\ pending' \in Seq(Ops)
          BY <2>3 DEF Queue, IInv
        <5>2. Len(pending) + 1 \in 1 .. Len(pending') /\ pending'[Len(pending) + 1] = op
          BY <5>1
        <5> QED
          BY <5>1, <5>2
      <4> QED
        BY <4>1, <4>2
    <3> QED
      BY <1>1, <2>3, <3>1, <3>2, PushesFirstAfter
  <2>4. ASSUME NEW tail \in Seq(Ops), Len(tail) \in {1, 2}, tail[1] = RootOp,
               pending' = pending \o tail
        PROVE  PushesFirst'
    <3> DEFINE N == Len(pending)
    <3>1. /\ N \in Nat /\ Len(pending') \in {N + 1, N + 2} /\ pending'[N + 1] = RootOp
          /\ \A n \in 1 .. N : pending'[n] = pending[n]
      <4>1. pending \in Seq(Ops) /\ Len(pending') = N + Len(tail)
        BY <2>4 DEF IInv
      <4>2. pending'[N + 1] = RootOp /\ \A n \in 1 .. N : pending'[n] = pending[n]
        BY <2>4, <4>1
      <4> QED
        BY <2>4, <4>1, <4>2
    <3>2. SUFFICES ASSUME NEW n \in 1 .. Len(pending'), pending'[n].kind = "push",
                          \A m \in 1 .. n : pending'[m].kind # "root",
                          NEW m \in 1 .. n
                   PROVE  pending'[m].kind = "push"
      BY DEF PushesFirst
    <3>3. ~ (N + 1 \in 1 .. n)
      BY <3>1, <3>2 DEF RootOp
    <3>4. n \in 1 .. N /\ \A k \in 1 .. n : k \in 1 .. N
      BY <3>1, <3>3
    <3>5. pending[n].kind = "push" /\ \A k \in 1 .. n : pending[k].kind # "root"
      BY <3>1, <3>2, <3>4
    <3>6. pending[m].kind = "push"
      BY <1>1, <3>4, <3>5 DEF PushesFirst
    <3> QED
      BY <3>1, <3>4, <3>6
  <2>5. ASSUME pending' = pending \o <<RootOp>> PROVE PushesFirst'
    <3>1. <<RootOp>> \in Seq(Ops) /\ Len(<<RootOp>>) = 1 /\ <<RootOp>>[1] = RootOp
      BY DEF Ops
    <3> QED
      BY <2>4, <2>5, <3>1
  <2>6. ASSUME NEW app \in Apps, pending' = pending \o <<RootOp, PushOp(Built(app, FALSE).view)>>
        PROVE  PushesFirst'
    <3> DEFINE w == Built(app, FALSE).view
    <3>1. app \in AppIds
      BY AppsAssumption
    <3>2. w \in ViewSet
      BY <3>1, BuiltGood DEF Pairs
    <3>3. pending' = pending \o <<RootOp, PushOp(w)>>
      BY <2>6
    <3> HIDE DEF w
    <3>4. RootOp \in Ops /\ PushOp(w) \in Ops
      BY <3>2, ProperOps
    <3>5. /\ <<RootOp, PushOp(w)>> \in Seq(Ops) /\ Len(<<RootOp, PushOp(w)>>) = 2
          /\ <<RootOp, PushOp(w)>>[1] = RootOp
      BY <3>4
    <3> QED
      BY <2>4, <3>3, <3>5
  <2>7. PushesFirst'
    BY <1>3, <2>2, <2>3, <2>5, <2>6, QueueMoves
  <2> QED
    BY <2>1, <2>7
<1> QED
  BY <1>2, <1>3

(* As long as no event handler pushes a view after another has popped the  *)
(* one it belongs to, a prompt and a page always lie over the view whose   *)
(* methods their buttons call: destroying views one after the other from   *)
(* the top never destroys an owner first.                                  *)
THEOREM OwnersStay == Spec => [](~PushAfterPop => OwnersAreAlive)
<1>1. Init => OwnerInv
  <2> SUFFICES ASSUME Init PROVE Attended(stack) /\ PushesFirst
    BY DEF OwnerInv
  <2>1. Len(stack) = 1 /\ stack[1].kind = "root" /\ pending = <<>>
    BY InitIInv, InvFacts DEF Init, Shape
  <2>2. Attended(stack)
    BY <2>1 DEF Attended, Covers
  <2>3. PushesFirst
    BY <2>1 DEF PushesFirst
  <2> QED
    BY <2>2, <2>3
<1>2. IInv /\ IInv' /\ OwnerInv /\ [Next]_vars => OwnerInv'
  BY OwnerStep
<1>3. IInv /\ OwnerInv => (~PushAfterPop => OwnersAreAlive)
  <2> SUFFICES ASSUME IInv, OwnerInv, ~PushAfterPop PROVE OwnersAreAlive
    OBVIOUS
  <2>1. DOMAIN stack = 1 .. Len(stack) /\ Attended(stack)
    BY InvFacts DEF OwnerInv
  <2>2. ASSUME NEW v \in Range(stack), v.kind \in {"page", "modal"} PROVE v.owner \in Ids
    <3>1. PICK j \in 1 .. Len(stack) : v = stack[j]
      BY <2>1 DEF Range
    <3>2. PICK i \in 1 .. Len(stack) : stack[i].id = v.owner
      BY <2>1, <2>2, <3>1 DEF Attended, Covers
    <3> QED
      BY <3>2, StackIds
  <2> QED
    BY <2>2 DEF OwnersAreAlive
<1> QED
  BY <1>1, <1>2, <1>3, Invariant, PTL DEF Spec

-----------------------------------------------------------------------------
(* What the applications leave the receiver like.                          *)

RestoringOps == {"restoreMode", "restoreModeRate", "restoreIfSaved"}
ModeOps == {"mode"} \cup RestoringOps
RateOps == {"rate"} \cup RestoringOps
HintOps == {"hint"} \cup RateOps
HaltingOps == {"stop", "restoreIfSaved"}
SaveOps == {"saveMode", "saveBoth", "saveOnce"}

Without(calls, ops) == \A n \in 1 .. Len(calls) : calls[n].op \notin ops

\* The n-th call is one of those in C, and none after it is one of the operations.
LastAt(n, calls, C, ops) ==
    /\ n \in 1 .. Len(calls) /\ calls[n] \in C
    /\ \A m \in 1 .. Len(calls) : n < m => calls[m].op \notin ops

EndsWith(calls, C, ops) == \E n : LastAt(n, calls, C, ops)

\* The calls set up everything that is needed.
Sets(calls, needs) ==
    /\ needs.mode = "any" \/ EndsWith(calls, {Mode(needs.mode)}, ModeOps)
    /\ needs.rate = "any" \/ EndsWith(calls, {Rate(needs.rate)}, RateOps)
    /\ needs.hint = "any" \/ EndsWith(calls, {Hint(needs.hint)}, HintOps)
    /\ needs.monitor = "off" => EndsWith(calls, {Mute}, ModeOps)
    /\ needs.monitor = "on" => EndsWith(calls, {Mode(needs.mode)}, {"mute"})

\* The calls touch nothing that is needed.
Spares(calls, needs) ==
    /\ needs.mode = "any" \/ Without(calls, ModeOps)
    /\ needs.rate = "any" \/ Without(calls, RateOps)
    /\ needs.hint = "any" \/ Without(calls, HintOps)
    /\ needs.monitor = "off" => Without(calls, ModeOps)
    /\ needs.monitor = "on" => Without(calls, {"mute"})

\* on_show() sets up what the application needs, or leaves alone what the
\* constructor has set up; so do its buttons, and what they offer is not needed.
Tunes(p) ==
    /\ p.needs.monitor \in {"any", "on", "off"}
    /\ \/ Sets(p.show, p.needs)
       \/ p.ctor # <<>> /\ Sets(p.ctor, p.needs) /\ Spares(p.show, p.needs)
    /\ Spares(p.begin, p.needs) /\ Spares(p.end, p.needs)
    /\ p.modes = {} \/ (p.needs.mode = "any" /\ p.needs.monitor = "any")
    /\ p.rates = {} \/ (p.needs.rate = "any" /\ p.needs.hint = "any")
    /\ \A n \in 1 .. Len(p.hide) : p.hide[n].op \in {"unsend", "unsendIfSending"}
    /\ Start \in Range(p.show) =>
          /\ EndsWith(p.show, {Start}, HaltingOps)
          /\ Without(p.begin, HaltingOps) /\ Without(p.end, HaltingOps)

\* Only on_show() saves settings.  Who gives settings back saves them first of
\* all, either once or in a view that is never covered, and restores them in
\* its destructor.
Restores(p) ==
    /\ Without(p.ctor, SaveOps) /\ Without(p.hide, SaveOps)
    /\ Without(p.begin, SaveOps) /\ Without(p.end, SaveOps)
    /\ p.gives # {} =>
          /\ p.show # <<>> /\ \A n \in 2 .. Len(p.show) : p.show[n].op \notin SaveOps
          /\ ~p.fresh.valid /\ p.opens = {} /\ ~p.confirm
          /\ \/ p.show[1] = SaveOnce /\ p.dtor = <<RestoreIfSaved>>
             \/ ~p.pages /\ p.show[1] = SaveBoth /\ p.dtor = <<RestoreModeRate>>
             \/ ~p.pages /\ p.gives = {"mode"} /\ p.show[1] = SaveMode /\ p.dtor = <<RestoreMode>>
    /\ p.opens \subseteq {"audio"}

LEMMA ProfilesTune ==
  ASSUME NEW app \in AppIds \cup {"menu"}
  PROVE  Tunes(Profile(app))
<1> USE DEF Tunes, Sets, Spares, Without, EndsWith, RestoringOps, ModeOps, RateOps, HintOps,
      HaltingOps, Range, Blank, AsItIs, Plain, Mode, Rate, Hint, Mute, Start, Stop, OpenTap,
      Record, EndRecord, MicOn, MicOff, SaveMode, SaveBoth, SaveOnce, Send, Unsend,
      UnsendIfSending, AudioModes
<1>1. Tunes(Ais)
  <2> DEFINE show == Ais.show
  <2>1. /\ Len(show) = 5 /\ show[1] = SaveOnce /\ show[2] = Mode("SPEC")
        /\ show[3] = Rate("307k") /\ show[4] = Hint("150k") /\ show[5] = Start
        /\ show[1].op = "saveOnce" /\ show[2].op = "mode" /\ show[3].op = "rate"
        /\ show[4].op = "hint" /\ show[5].op = "start"
        /\ Ais.needs = [mode |-> "SPEC", rate |-> "307k", hint |-> "150k", monitor |-> "any"]
        /\ Ais.end = <<>> /\ Ais.hide = <<>> /\ Ais.begin = <<>> /\ Ais.modes = {}
        /\ Ais.rates = {}
    BY DEF Ais
  <2> HIDE DEF show
  <2>2. /\ LastAt(2, show, {Mode("SPEC")}, ModeOps)
        /\ LastAt(3, show, {Rate("307k")}, RateOps)
        /\ LastAt(4, show, {Hint("150k")}, HintOps)
        /\ LastAt(5, show, {Start}, HaltingOps)
    BY <2>1 DEF LastAt
  <2> QED
    BY <2>1, <2>2 DEF show
<1>2. Tunes(LookingGlass)
  <2> DEFINE show == LookingGlass.show
  <2>1. /\ Len(show) = 3 /\ show[1] = SaveMode /\ show[2] = Mode("SPEC") /\ show[3] = Start
        /\ show[1].op = "saveMode" /\ show[2].op = "mode" /\ show[3].op = "start"

        /\ LookingGlass.needs = [mode |-> "SPEC", rate |-> "any", hint |-> "any", monitor |-> "any"]
        /\ LookingGlass.end = <<>> /\ LookingGlass.hide = <<>> /\ LookingGlass.begin = <<>>
        /\ LookingGlass.modes = {}
    BY DEF LookingGlass
  <2> HIDE DEF show
  <2>2. /\ LastAt(2, show, {Mode("SPEC")}, ModeOps)
        /\ LastAt(3, show, {Start}, HaltingOps)
    BY <2>1 DEF LastAt
  <2> QED
    BY <2>1, <2>2 DEF show
<1>3. Tunes(AnalogTv)
  <2> DEFINE show == AnalogTv.show
  <2>1. /\ Len(show) = 4 /\ show[1] = SaveBoth /\ show[2] = Rate("2M") /\ show[3] = Mode("SPEC")
        /\ show[4] = Start
        /\ show[1].op = "saveBoth" /\ show[2].op = "rate" /\ show[3].op = "mode"
        /\ show[4].op = "start"
        /\ AnalogTv.needs = [mode |-> "SPEC", rate |-> "2M", hint |-> "any", monitor |-> "any"]
        /\ AnalogTv.end = <<>> /\ AnalogTv.hide = <<>> /\ AnalogTv.begin = <<>>
        /\ AnalogTv.modes = {} /\ AnalogTv.rates = {}
    BY DEF AnalogTv
  <2> HIDE DEF show
  <2>2. /\ LastAt(3, show, {Mode("SPEC")}, ModeOps)
        /\ LastAt(2, show, {Rate("2M")}, RateOps)
        /\ LastAt(4, show, {Start}, HaltingOps)
    BY <2>1 DEF LastAt
  <2> QED
    BY <2>1, <2>2 DEF show
<1>4. Tunes(SearchApp)
  <2> DEFINE show == SearchApp.show
  <2>1. /\ Len(show) = 4 /\ show[1] = SaveBoth /\ show[2] = Mode("SPEC")
        /\ show[3] = Rate("2.5M") /\ show[4] = Start
        /\ show[1].op = "saveBoth" /\ show[2].op = "mode" /\ show[3].op = "rate"
        /\ show[4].op = "start"
        /\ SearchApp.needs = [mode |-> "SPEC", rate |-> "2.5M", hint |-> "any", monitor |-> "any"]
        /\ SearchApp.end = <<>> /\ SearchApp.hide = <<>> /\ SearchApp.begin = <<>>
        /\ SearchApp.modes = {} /\ SearchApp.rates = {}
    BY DEF SearchApp
  <2> HIDE DEF show
  <2>2. /\ LastAt(2, show, {Mode("SPEC")}, ModeOps)
        /\ LastAt(3, show, {Rate("2.5M")}, RateOps)
        /\ LastAt(4, show, {Start}, HaltingOps)
    BY <2>1 DEF LastAt
  <2> QED
    BY <2>1, <2>2 DEF show
<1>5. Tunes(AdsbRx)
  <2> DEFINE show == AdsbRx.show
  <2>1. /\ Len(show) = 5 /\ show[1] = Mode("SPEC") /\ show[2] = Rate("8M")
        /\ show[3] = Hint("4M") /\ show[4] = Start /\ show[5] = OpenTap
        /\ show[1].op = "mode" /\ show[2].op = "rate" /\ show[3].op = "hint"
        /\ show[4].op = "start" /\ show[5].op = "openTap"
        /\ AdsbRx.needs = [mode |-> "SPEC", rate |-> "8M", hint |-> "4M", monitor |-> "any"]
        /\ AdsbRx.end = <<>> /\ AdsbRx.hide = <<>> /\ AdsbRx.begin = <<>> /\ AdsbRx.modes = {}
        /\ AdsbRx.rates = {}
    BY DEF AdsbRx
  <2> HIDE DEF show
  <2>2. /\ LastAt(1, show, {Mode("SPEC")}, ModeOps)
        /\ LastAt(2, show, {Rate("8M")}, RateOps)
        /\ LastAt(3, show, {Hint("4M")}, HintOps)
        /\ LastAt(4, show, {Start}, HaltingOps)
    BY <2>1 DEF LastAt
  <2> QED
    BY <2>1, <2>2 DEF show
<1>6. Tunes(AcarsRx)
  <2> DEFINE show == AcarsRx.show
  <2>1. /\ Len(show) = 4 /\ show[1] = Rate("2.4M") /\ show[2] = Mode("AM") /\ show[3] = Mute
        /\ show[4] = Start
        /\ show[1].op = "rate" /\ show[2].op = "mode" /\ show[3].op = "mute"
        /\ show[4].op = "start"
        /\ AcarsRx.needs = [mode |-> "AM", rate |-> "2.4M", hint |-> "any", monitor |-> "off"]
        /\ AcarsRx.end = <<>> /\ AcarsRx.hide = <<>> /\ AcarsRx.begin = <<>>
        /\ AcarsRx.modes = {} /\ AcarsRx.rates = {}
    BY DEF AcarsRx
  <2> HIDE DEF show
  <2>2. /\ LastAt(2, show, {Mode("AM")}, ModeOps)
        /\ LastAt(1, show, {Rate("2.4M")}, RateOps)
        /\ LastAt(3, show, {Mute}, ModeOps)
        /\ LastAt(4, show, {Start}, HaltingOps)
    BY <2>1 DEF LastAt
  <2> QED
    BY <2>1, <2>2 DEF show
<1>7. Tunes(AfskRx)
  <2> DEFINE show == AfskRx.show
  <2>1. /\ Len(show) = 4 /\ show[1] = Rate("2.4M") /\ show[2] = Mode("NFM") /\ show[3] = Mute
        /\ show[4] = Start
        /\ show[1].op = "rate" /\ show[2].op = "mode" /\ show[3].op = "mute"
        /\ show[4].op = "start"
        /\ AfskRx.needs = [mode |-> "NFM", rate |-> "2.4M", hint |-> "any", monitor |-> "off"]
        /\ AfskRx.end = <<>> /\ AfskRx.hide = <<>> /\ AfskRx.begin = <<>> /\ AfskRx.modes = {}
        /\ AfskRx.rates = {}
    BY DEF AfskRx
  <2> HIDE DEF show
  <2>2. /\ LastAt(2, show, {Mode("NFM")}, ModeOps)
        /\ LastAt(1, show, {Rate("2.4M")}, RateOps)
        /\ LastAt(3, show, {Mute}, ModeOps)
        /\ LastAt(4, show, {Start}, HaltingOps)
    BY <2>1 DEF LastAt
  <2> QED
    BY <2>1, <2>2 DEF show
<1>8. Tunes(AprsRx)
  <2> DEFINE show == AprsRx.show
  <2>1. /\ Len(show) = 4 /\ show[1] = Mode("NFM") /\ show[2] = Mute /\ show[3] = Rate("500k")
        /\ show[4] = Start
        /\ show[1].op = "mode" /\ show[2].op = "mute" /\ show[3].op = "rate"
        /\ show[4].op = "start"
        /\ AprsRx.needs = [mode |-> "NFM", rate |-> "500k", hint |-> "any", monitor |-> "off"]
        /\ AprsRx.end = <<>> /\ AprsRx.hide = <<>> /\ AprsRx.begin = <<>> /\ AprsRx.modes = {}
        /\ AprsRx.rates = {}
    BY DEF AprsRx
  <2> HIDE DEF show
  <2>2. /\ LastAt(1, show, {Mode("NFM")}, ModeOps)
        /\ LastAt(3, show, {Rate("500k")}, RateOps)
        /\ LastAt(2, show, {Mute}, ModeOps)
        /\ LastAt(4, show, {Start}, HaltingOps)
    BY <2>1 DEF LastAt
  <2> QED
    BY <2>1, <2>2 DEF show
<1>9. Tunes(NoaaAptRx)
  <2> DEFINE show == NoaaAptRx.show
  <2>1. /\ Len(show) = 4 /\ show[1] = Rate("3.072M") /\ show[2] = Mode("WFM") /\ show[3] = Mute
        /\ show[4] = Start
        /\ show[1].op = "rate" /\ show[2].op = "mode" /\ show[3].op = "mute"
        /\ show[4].op = "start"

        /\ NoaaAptRx.needs = [mode |-> "WFM", rate |-> "3.072M", hint |-> "any", monitor |-> "off"]
        /\ NoaaAptRx.end = <<>> /\ NoaaAptRx.hide = <<>> /\ NoaaAptRx.begin = <<>>
        /\ NoaaAptRx.modes = {} /\ NoaaAptRx.rates = {}
    BY DEF NoaaAptRx
  <2> HIDE DEF show
  <2>2. /\ LastAt(2, show, {Mode("WFM")}, ModeOps)
        /\ LastAt(1, show, {Rate("3.072M")}, RateOps)
        /\ LastAt(3, show, {Mute}, ModeOps)
        /\ LastAt(4, show, {Start}, HaltingOps)
    BY <2>1 DEF LastAt
  <2> QED
    BY <2>1, <2>2 DEF show
<1>10. Tunes(WeFaxRx)
  <2> DEFINE show == WeFaxRx.show
  <2>1. /\ Len(show) = 4 /\ show[1] = Rate("3.072M") /\ show[2] = Mode("AM") /\ show[3] = Mute
        /\ show[4] = Start
        /\ show[1].op = "rate" /\ show[2].op = "mode" /\ show[3].op = "mute"
        /\ show[4].op = "start"
        /\ WeFaxRx.needs = [mode |-> "AM", rate |-> "3.072M", hint |-> "any", monitor |-> "off"]
        /\ WeFaxRx.end = <<>> /\ WeFaxRx.hide = <<>> /\ WeFaxRx.begin = <<>>
        /\ WeFaxRx.modes = {} /\ WeFaxRx.rates = {}
    BY DEF WeFaxRx
  <2> HIDE DEF show
  <2>2. /\ LastAt(2, show, {Mode("AM")}, ModeOps)
        /\ LastAt(1, show, {Rate("3.072M")}, RateOps)
        /\ LastAt(3, show, {Mute}, ModeOps)
        /\ LastAt(4, show, {Start}, HaltingOps)
    BY <2>1 DEF LastAt
  <2> QED
    BY <2>1, <2>2 DEF show
<1>11. Tunes(GfxEq)
  <2> DEFINE show == GfxEq.show
  <2>1. /\ Len(show) = 3 /\ show[1] = Mode("WFM") /\ show[2] = Rate("1.536M") /\ show[3] = Start
        /\ show[1].op = "mode" /\ show[2].op = "rate" /\ show[3].op = "start"
        /\ GfxEq.needs = [mode |-> "WFM", rate |-> "1.536M", hint |-> "any", monitor |-> "on"]
        /\ GfxEq.end = <<>> /\ GfxEq.hide = <<>> /\ GfxEq.begin = <<>> /\ GfxEq.modes = {}
        /\ GfxEq.rates = {}
    BY DEF GfxEq
  <2> HIDE DEF show
  <2>2. /\ LastAt(1, show, {Mode("WFM")}, ModeOps)
        /\ LastAt(2, show, {Rate("1.536M")}, RateOps)
        /\ LastAt(1, show, {Mode("WFM")}, {"mute"})
        /\ LastAt(3, show, {Start}, HaltingOps)
    BY <2>1 DEF LastAt
  <2> QED
    BY <2>1, <2>2 DEF show
<1>12. Tunes(ErtRx)
  <2> DEFINE show == ErtRx.show
  <2>1. /\ Len(show) = 3 /\ show[1] = Rate("4.194M") /\ show[2] = Mode("SPEC") /\ show[3] = Start
        /\ show[1].op = "rate" /\ show[2].op = "mode" /\ show[3].op = "start"
        /\ ErtRx.needs = [mode |-> "SPEC", rate |-> "4.194M", hint |-> "any", monitor |-> "any"]
        /\ ErtRx.end = <<>> /\ ErtRx.hide = <<>> /\ ErtRx.begin = <<>> /\ ErtRx.modes = {}
        /\ ErtRx.rates = {}
    BY DEF ErtRx
  <2> HIDE DEF show
  <2>2. /\ LastAt(2, show, {Mode("SPEC")}, ModeOps)
        /\ LastAt(1, show, {Rate("4.194M")}, RateOps)
        /\ LastAt(3, show, {Start}, HaltingOps)
    BY <2>1 DEF LastAt
  <2> QED
    BY <2>1, <2>2 DEF show
<1>13. Tunes(WeatherRx)
  <2> DEFINE show == WeatherRx.show
  <2>1. /\ Len(show) = 3 /\ show[1] = Rate("2.457M") /\ show[2] = Mode("SPEC") /\ show[3] = Start
        /\ show[1].op = "rate" /\ show[2].op = "mode" /\ show[3].op = "start"

        /\ WeatherRx.needs = [mode |-> "SPEC", rate |-> "2.457M", hint |-> "any", monitor |-> "any"]
        /\ WeatherRx.end = <<>> /\ WeatherRx.hide = <<>> /\ WeatherRx.begin = <<>>
        /\ WeatherRx.modes = {} /\ WeatherRx.rates = {}
    BY DEF WeatherRx
  <2> HIDE DEF show
  <2>2. /\ LastAt(2, show, {Mode("SPEC")}, ModeOps)
        /\ LastAt(1, show, {Rate("2.457M")}, RateOps)
        /\ LastAt(3, show, {Start}, HaltingOps)
    BY <2>1 DEF LastAt
  <2> QED
    BY <2>1, <2>2 DEF show
<1>14. Tunes(FpvDetect)
  <2> DEFINE show == FpvDetect.show
  <2>1. /\ Len(show) = 3 /\ show[1] = Mode("SPEC") /\ show[2] = Rate("750k") /\ show[3] = Start
        /\ show[1].op = "mode" /\ show[2].op = "rate" /\ show[3].op = "start"
        /\ FpvDetect.needs = [mode |-> "SPEC", rate |-> "750k", hint |-> "any", monitor |-> "any"]
        /\ FpvDetect.end = <<>> /\ FpvDetect.hide = <<>> /\ FpvDetect.begin = <<>>
        /\ FpvDetect.modes = {} /\ FpvDetect.rates = {}
    BY DEF FpvDetect
  <2> HIDE DEF show
  <2>2. /\ LastAt(1, show, {Mode("SPEC")}, ModeOps)
        /\ LastAt(2, show, {Rate("750k")}, RateOps)
        /\ LastAt(3, show, {Start}, HaltingOps)
    BY <2>1 DEF LastAt
  <2> QED
    BY <2>1, <2>2 DEF show
<1>15. Tunes(VorRx)
  <2> DEFINE show == VorRx.show
  <2>1. /\ Len(show) = 3 /\ show[1] = Mode("AM") /\ show[2] = Rate("vor") /\ show[3] = Start
        /\ show[1].op = "mode" /\ show[2].op = "rate" /\ show[3].op = "start"
        /\ VorRx.needs = [mode |-> "AM", rate |-> "vor", hint |-> "any", monitor |-> "on"]
        /\ VorRx.end = <<>> /\ VorRx.hide = <<>> /\ VorRx.begin = <<>> /\ VorRx.modes = {}
        /\ VorRx.rates = {}
    BY DEF VorRx
  <2> HIDE DEF show
  <2>2. /\ LastAt(1, show, {Mode("AM")}, ModeOps)
        /\ LastAt(2, show, {Rate("vor")}, RateOps)
        /\ LastAt(1, show, {Mode("AM")}, {"mute"})
        /\ LastAt(3, show, {Start}, HaltingOps)
    BY <2>1 DEF LastAt
  <2> QED
    BY <2>1, <2>2 DEF show
<1>16. Tunes(PocsagRx)
  <2> DEFINE show == PocsagRx.show  ctor == PocsagRx.ctor
  <2>1. /\ Len(show) = 1 /\ show[1] = Start
        /\ show[1].op = "start"
        /\ Len(ctor) = 2 /\ ctor[1] = Mode("NFM") /\ ctor[2] = Mute
        /\ ctor[1].op = "mode" /\ ctor[2].op = "mute"
        /\ PocsagRx.needs = [mode |-> "NFM", rate |-> "any", hint |-> "any", monitor |-> "off"]
        /\ PocsagRx.end = <<>> /\ PocsagRx.hide = <<>> /\ PocsagRx.begin = <<>>
        /\ PocsagRx.modes = {} /\ PocsagRx.rates = {} /\ ctor # <<>>
    BY DEF PocsagRx
  <2> HIDE DEF show, ctor
  <2>2. /\ LastAt(1, ctor, {Mode("NFM")}, ModeOps)
        /\ LastAt(2, ctor, {Mute}, ModeOps)
        /\ LastAt(1, show, {Start}, HaltingOps)
    BY <2>1 DEF LastAt
  <2> QED
    BY <2>1, <2>2 DEF show, ctor
<1>17. Tunes(FlexRx)
  <2> DEFINE show == FlexRx.show  ctor == FlexRx.ctor
  <2>1. /\ Len(show) = 1 /\ show[1] = Start
        /\ show[1].op = "start"
        /\ Len(ctor) = 2 /\ ctor[1] = Mode("NFM") /\ ctor[2] = Mute
        /\ ctor[1].op = "mode" /\ ctor[2].op = "mute"
        /\ FlexRx.needs = [mode |-> "NFM", rate |-> "any", hint |-> "any", monitor |-> "off"]
        /\ FlexRx.end = <<>> /\ FlexRx.hide = <<>> /\ FlexRx.begin = <<>> /\ FlexRx.modes = {}
        /\ FlexRx.rates = {} /\ ctor # <<>>
    BY DEF FlexRx
  <2> HIDE DEF show, ctor
  <2>2. /\ LastAt(1, ctor, {Mode("NFM")}, ModeOps)
        /\ LastAt(2, ctor, {Mute}, ModeOps)
        /\ LastAt(1, show, {Start}, HaltingOps)
    BY <2>1 DEF LastAt
  <2> QED
    BY <2>1, <2>2 DEF show, ctor
<1>18. Tunes(DetectorRx)
  <2> DEFINE show == DetectorRx.show  ctor == DetectorRx.ctor
  <2>1. /\ Len(show) = 1 /\ show[1] = Start
        /\ show[1].op = "start"
        /\ Len(ctor) = 2 /\ ctor[1] = Mode("SPEC") /\ ctor[2] = Rate("750k")
        /\ ctor[1].op = "mode" /\ ctor[2].op = "rate"

        /\ DetectorRx.needs = [mode |-> "SPEC", rate |-> "750k", hint |-> "any", monitor |-> "any"]
        /\ DetectorRx.end = <<>> /\ DetectorRx.hide = <<>> /\ DetectorRx.begin = <<>>
        /\ DetectorRx.modes = {} /\ DetectorRx.rates = {} /\ ctor # <<>>
    BY DEF DetectorRx
  <2> HIDE DEF show, ctor
  <2>2. /\ LastAt(1, ctor, {Mode("SPEC")}, ModeOps)
        /\ LastAt(2, ctor, {Rate("750k")}, RateOps)
        /\ LastAt(1, show, {Start}, HaltingOps)
    BY <2>1 DEF LastAt
  <2> QED
    BY <2>1, <2>2 DEF show, ctor
<1>19. Tunes(FoxhuntRx)
  <2> DEFINE show == FoxhuntRx.show  ctor == FoxhuntRx.ctor
  <2>1. /\ Len(show) = 1 /\ show[1] = Start
        /\ show[1].op = "start"
        /\ Len(ctor) = 1 /\ ctor[1] = Mode("AM")
        /\ ctor[1].op = "mode"
        /\ FoxhuntRx.needs = [mode |-> "AM", rate |-> "any", hint |-> "any", monitor |-> "any"]
        /\ FoxhuntRx.end = <<>> /\ FoxhuntRx.hide = <<>> /\ FoxhuntRx.begin = <<>>
        /\ FoxhuntRx.modes = {} /\ FoxhuntRx.rates = {} /\ ctor # <<>>
    BY DEF FoxhuntRx
  <2> HIDE DEF show, ctor
  <2>2. /\ LastAt(1, ctor, {Mode("AM")}, ModeOps)
        /\ LastAt(1, show, {Start}, HaltingOps)
    BY <2>1 DEF LastAt
  <2> QED
    BY <2>1, <2>2 DEF show, ctor
<1>20. Tunes(SignalHunter)
  <2> DEFINE show == SignalHunter.show  ctor == SignalHunter.ctor
  <2>1. /\ Len(show) = 1 /\ show[1] = Start
        /\ show[1].op = "start"
        /\ Len(ctor) = 2 /\ ctor[1] = Mode("SPEC") /\ ctor[2] = Rate("2M")
        /\ ctor[1].op = "mode" /\ ctor[2].op = "rate"

        /\ SignalHunter.needs = [mode |-> "SPEC", rate |-> "2M", hint |-> "any", monitor |-> "any"]
        /\ SignalHunter.end = <<>> /\ SignalHunter.hide = <<>>
        /\ SignalHunter.begin = <<Record>> /\ SignalHunter.modes = {} /\ SignalHunter.rates = {}
        /\ ctor # <<>>
    BY DEF SignalHunter
  <2> HIDE DEF show, ctor
  <2>2. /\ LastAt(1, ctor, {Mode("SPEC")}, ModeOps)
        /\ LastAt(2, ctor, {Rate("2M")}, RateOps)
        /\ LastAt(1, show, {Start}, HaltingOps)
    BY <2>1 DEF LastAt
  <2> QED
    BY <2>1, <2>2 DEF show, ctor
<1>21. Tunes(SondeRx)
  <2> DEFINE show == SondeRx.show  ctor == SondeRx.ctor
  <2>1. /\ Len(show) = 1 /\ show[1] = Start
        /\ show[1].op = "start"
        /\ Len(ctor) = 3 /\ ctor[1] = Rate("2.457M") /\ ctor[2] = Hint("800k")
        /\ ctor[3] = Mode("SPEC")
        /\ ctor[1].op = "rate" /\ ctor[2].op = "hint" /\ ctor[3].op = "mode"

        /\ SondeRx.needs = [mode |-> "SPEC", rate |-> "2.457M", hint |-> "800k", monitor |-> "any"]
        /\ SondeRx.end = <<>> /\ SondeRx.hide = <<>> /\ SondeRx.begin = <<>>
        /\ SondeRx.modes = {} /\ SondeRx.rates = {} /\ ctor # <<>>
    BY DEF SondeRx
  <2> HIDE DEF show, ctor
  <2>2. /\ LastAt(3, ctor, {Mode("SPEC")}, ModeOps)
        /\ LastAt(1, ctor, {Rate("2.457M")}, RateOps)
        /\ LastAt(2, ctor, {Hint("800k")}, HintOps)
        /\ LastAt(1, show, {Start}, HaltingOps)
    BY <2>1 DEF LastAt
  <2> QED
    BY <2>1, <2>2 DEF show, ctor
<1>22. Tunes(SubCarRx)
  <2> DEFINE show == SubCarRx.show  ctor == SubCarRx.ctor
  <2>1. /\ Len(show) = 1 /\ show[1] = Start
        /\ show[1].op = "start"
        /\ Len(ctor) = 2 /\ ctor[1] = Mode("SPEC") /\ ctor[2] = Rate("4M")
        /\ ctor[1].op = "mode" /\ ctor[2].op = "rate"
        /\ SubCarRx.needs = [mode |-> "SPEC", rate |-> "4M", hint |-> "any", monitor |-> "any"]
        /\ SubCarRx.end = <<>> /\ SubCarRx.hide = <<>> /\ SubCarRx.begin = <<>>
        /\ SubCarRx.modes = {} /\ SubCarRx.rates = {} /\ ctor # <<>>
    BY DEF SubCarRx
  <2> HIDE DEF show, ctor
  <2>2. /\ LastAt(1, ctor, {Mode("SPEC")}, ModeOps)
        /\ LastAt(2, ctor, {Rate("4M")}, RateOps)
        /\ LastAt(1, show, {Start}, HaltingOps)
    BY <2>1 DEF LastAt
  <2> QED
    BY <2>1, <2>2 DEF show, ctor
<1>23. Tunes(TetraRx)
  <2> DEFINE show == TetraRx.show  ctor == TetraRx.ctor
  <2>1. /\ Len(show) = 1 /\ show[1] = Start
        /\ show[1].op = "start"
        /\ Len(ctor) = 2 /\ ctor[1] = Mode("SPEC") /\ ctor[2] = Rate("3.072M")
        /\ ctor[1].op = "mode" /\ ctor[2].op = "rate"
        /\ TetraRx.needs = [mode |-> "SPEC", rate |-> "3.072M", hint |-> "any", monitor |-> "any"]
        /\ TetraRx.end = <<>> /\ TetraRx.hide = <<>> /\ TetraRx.begin = <<>>
        /\ TetraRx.modes = {} /\ TetraRx.rates = {} /\ ctor # <<>>
    BY DEF TetraRx
  <2> HIDE DEF show, ctor
  <2>2. /\ LastAt(1, ctor, {Mode("SPEC")}, ModeOps)
        /\ LastAt(2, ctor, {Rate("3.072M")}, RateOps)
        /\ LastAt(1, show, {Start}, HaltingOps)
    BY <2>1 DEF LastAt
  <2> QED
    BY <2>1, <2>2 DEF show, ctor
<1>24. Tunes(TimeSink)
  <2> DEFINE show == TimeSink.show  ctor == TimeSink.ctor
  <2>1. /\ Len(show) = 1 /\ show[1] = Start
        /\ show[1].op = "start"
        /\ Len(ctor) = 2 /\ ctor[1] = Mode("SPEC") /\ ctor[2] = Rate("1M")
        /\ ctor[1].op = "mode" /\ ctor[2].op = "rate"
        /\ TimeSink.needs = [mode |-> "SPEC", rate |-> "any", hint |-> "any", monitor |-> "any"]
        /\ TimeSink.end = <<>> /\ TimeSink.hide = <<>> /\ TimeSink.begin = <<>>
        /\ TimeSink.modes = {} /\ ctor # <<>>
    BY DEF TimeSink
  <2> HIDE DEF show, ctor
  <2>2. /\ LastAt(1, ctor, {Mode("SPEC")}, ModeOps)
        /\ LastAt(1, show, {Start}, HaltingOps)
    BY <2>1 DEF LastAt
  <2> QED
    BY <2>1, <2>2 DEF show, ctor
<1>25. Tunes(Scanner)
  <2> DEFINE show == Scanner.show  ctor == Scanner.ctor
  <2>1. /\ Len(show) = 1 /\ show[1] = Start
        /\ show[1].op = "start"
        /\ Len(ctor) = 1 /\ ctor[1] = Mode("NFM")
        /\ ctor[1].op = "mode"
        /\ Scanner.needs = AsItIs
        /\ Scanner.end = <<>> /\ Scanner.hide = <<>> /\ Scanner.begin = <<>>
        /\ Scanner.rates = {} /\ ctor # <<>>
    BY DEF Scanner
  <2> HIDE DEF show, ctor
  <2>2. /\ LastAt(1, show, {Start}, HaltingOps)
    BY <2>1 DEF LastAt
  <2> QED
    BY <2>1, <2>2 DEF show, ctor
<1>26. Tunes(Recon)
  <2> DEFINE show == Recon.show  ctor == Recon.ctor
  <2>1. /\ Len(show) = 1 /\ show[1] = Start
        /\ show[1].op = "start"
        /\ Len(ctor) = 1 /\ ctor[1] = Mode("AM")
        /\ ctor[1].op = "mode"
        /\ Recon.needs = AsItIs
        /\ Recon.end = <<>> /\ Recon.hide = <<>> /\ Recon.begin = <<>> /\ Recon.rates = {}
        /\ ctor # <<>>
    BY DEF Recon
  <2> HIDE DEF show, ctor
  <2>2. /\ LastAt(1, show, {Start}, HaltingOps)
    BY <2>1 DEF LastAt
  <2> QED
    BY <2>1, <2>2 DEF show, ctor
<1>27. Tunes(FmRadio)
  <2> DEFINE show == FmRadio.show  ctor == FmRadio.ctor
  <2>1. /\ Len(show) = 1 /\ show[1] = Start
        /\ show[1].op = "start"
        /\ Len(ctor) = 2 /\ ctor[1] = Mode("WFM") /\ ctor[2] = Rate("3.072M")
        /\ ctor[1].op = "mode" /\ ctor[2].op = "rate"
        /\ FmRadio.needs = [mode |-> "any", rate |-> "3.072M", hint |-> "any", monitor |-> "any"]
        /\ FmRadio.end = <<>> /\ FmRadio.hide = <<>> /\ FmRadio.begin = <<>>
        /\ FmRadio.rates = {} /\ ctor # <<>>
    BY DEF FmRadio
  <2> HIDE DEF show, ctor
  <2>2. /\ LastAt(2, ctor, {Rate("3.072M")}, RateOps)
        /\ LastAt(1, show, {Start}, HaltingOps)
    BY <2>1 DEF LastAt
  <2> QED
    BY <2>1, <2>2 DEF show, ctor
<1>28. Tunes(MorseRx)
  <2> DEFINE show == MorseRx.show  ctor == MorseRx.ctor
  <2>1. /\ Len(show) = 2 /\ show[1] = Rate("3.072M") /\ show[2] = Start
        /\ show[1].op = "rate" /\ show[2].op = "start"
        /\ Len(ctor) = 1 /\ ctor[1] = Mode("AM")
        /\ ctor[1].op = "mode"
        /\ MorseRx.needs = [mode |-> "any", rate |-> "3.072M", hint |-> "any", monitor |-> "any"]
        /\ MorseRx.end = <<>> /\ MorseRx.hide = <<>> /\ MorseRx.begin = <<>>
        /\ MorseRx.rates = {} /\ ctor # <<>>
    BY DEF MorseRx
  <2> HIDE DEF show, ctor
  <2>2. /\ LastAt(1, show, {Rate("3.072M")}, RateOps)
        /\ LastAt(2, show, {Start}, HaltingOps)
    BY <2>1 DEF LastAt
  <2> QED
    BY <2>1, <2>2 DEF show, ctor
<1>29. LastAt(1, <<Start>>, {Start}, HaltingOps)
  BY DEF LastAt
<1>30. Tunes(AnalogAudio)
  <2>1. AnalogAudio.show = <<Start>> /\ AnalogAudio.needs = AsItIs
    BY DEF AnalogAudio
  <2> QED
    BY <1>29, <2>1 DEF AnalogAudio
<1>31. Tunes(Level)
  <2>1. Level.show = <<Start>> /\ Level.needs = AsItIs
    BY DEF Level
  <2> QED
    BY <1>29, <2>1 DEF Level
<1>32. Tunes(Capture)
  <2>1. Capture.show = <<Start>> /\ Capture.needs = AsItIs
    BY DEF Capture
  <2> QED
    BY <1>29, <2>1 DEF Capture
<1>33. Tunes(RttyRx)
  <2>1. RttyRx.show = <<Start>> /\ RttyRx.needs = AsItIs
    BY DEF RttyRx
  <2> QED
    BY <1>29, <2>1 DEF RttyRx
<1>34. Tunes(SstvRx)
  <2>1. SstvRx.show = <<Start>> /\ SstvRx.needs = AsItIs
    BY DEF SstvRx
  <2> QED
    BY <1>29, <2>1 DEF SstvRx
<1>35. Tunes(BleRx) /\ Tunes(NrfRx) /\ Tunes(EpirbRx) /\ Tunes(TwoToneRx) /\ Tunes(Tuner) /\
      Tunes(RadioSetup)
  <2>1. Tunes(BleRx) /\ Tunes(NrfRx)
    BY DEF BleRx, NrfRx
  <2>2. Tunes(EpirbRx) /\ Tunes(TwoToneRx)
    BY DEF EpirbRx, TwoToneRx
  <2>3. Tunes(Tuner) /\ Tunes(RadioSetup)
    BY DEF Tuner, RadioSetup
  <2> HIDE DEF Tunes
  <2> QED
    BY <2>1, <2>2, <2>3
<1>36. Tunes(AdsbTx) /\ Tunes(BhtTx) /\ Tunes(CoasterTx) /\ Tunes(EpirbTx) /\ Tunes(KeeloqTx) /\
      Tunes(KeyfobTx)
  <2>1. Tunes(AdsbTx) /\ Tunes(BhtTx)
    BY DEF AdsbTx, BhtTx
  <2>2. Tunes(CoasterTx) /\ Tunes(EpirbTx)
    BY DEF CoasterTx, EpirbTx
  <2>3. Tunes(KeeloqTx) /\ Tunes(KeyfobTx)
    BY DEF KeeloqTx, KeyfobTx
  <2> HIDE DEF Tunes
  <2> QED
    BY <2>1, <2>2, <2>3
<1>37. Tunes(SecplusTx) /\ Tunes(VorTx) /\ Tunes(AprsTx) /\ Tunes(BleTx) /\ Tunes(OokTx) /\
      Tunes(FlexTx)
  <2>1. Tunes(SecplusTx) /\ Tunes(VorTx)
    BY DEF SecplusTx, VorTx
  <2>2. Tunes(AprsTx) /\ Tunes(BleTx)
    BY DEF AprsTx, BleTx
  <2>3. Tunes(OokTx) /\ Tunes(FlexTx)
    BY DEF OokTx, FlexTx
  <2> HIDE DEF Tunes
  <2> QED
    BY <2>1, <2>2, <2>3
<1>38. Tunes(GpsSim) /\ Tunes(Jammer) /\ Tunes(KissTnc) /\ Tunes(MicTx) /\ Tunes(MorseTx) /\
      Tunes(OokEditor)
  <2>1. Tunes(GpsSim) /\ Tunes(Jammer)
    BY DEF GpsSim, Jammer
  <2>2. Tunes(KissTnc) /\ Tunes(MicTx)
    BY DEF KissTnc, MicTx
  <2>3. Tunes(MorseTx) /\ Tunes(OokEditor)
    BY DEF MorseTx, OokEditor
  <2> HIDE DEF Tunes
  <2> QED
    BY <2>1, <2>2, <2>3
<1>39. Tunes(OokBrute) /\ Tunes(Playlist) /\ Tunes(PocsagTx) /\ Tunes(RdsTx) /\
      Tunes(RemoteTx) /\ Tunes(RttyTx)
  <2>1. Tunes(OokBrute) /\ Tunes(Playlist)
    BY DEF OokBrute, Playlist
  <2>2. Tunes(PocsagTx) /\ Tunes(RdsTx)
    BY DEF PocsagTx, RdsTx
  <2>3. Tunes(RemoteTx) /\ Tunes(RttyTx)
    BY DEF RemoteTx, RttyTx
  <2> HIDE DEF Tunes
  <2> QED
    BY <2>1, <2>2, <2>3
<1>40. Tunes(SameTx) /\ Tunes(SoundBoard) /\ Tunes(SstvTx) /\ Tunes(TouchTunes) /\
      Tunes(SigGen) /\ Tunes(TwoTonePager)
  <2>1. Tunes(SameTx) /\ Tunes(SoundBoard)
    BY DEF SameTx, SoundBoard
  <2>2. Tunes(SstvTx) /\ Tunes(TouchTunes)
    BY DEF SstvTx, TouchTunes
  <2>3. Tunes(SigGen) /\ Tunes(TwoTonePager)
    BY DEF SigGen, TwoTonePager
  <2> HIDE DEF Tunes
  <2> QED
    BY <2>1, <2>2, <2>3
<1>41. Tunes(Blank)
  OBVIOUS
<1> HIDE DEF Tunes, Blank
<1>42. app \in AppIds => Tunes(Profiles[app])
  BY ProfileIsListed,
     <1>1, <1>2, <1>3, <1>4, <1>5, <1>6, <1>7, <1>8, <1>9, <1>10, <1>11, <1>12, <1>13, <1>14,
     <1>15, <1>16, <1>17, <1>18, <1>19, <1>20, <1>21, <1>22, <1>23, <1>24, <1>25, <1>26, <1>27,
     <1>28, <1>29, <1>30, <1>31, <1>32, <1>33, <1>34, <1>35, <1>36, <1>37, <1>38, <1>39, <1>40 DEF Catalogue
<1> QED
  BY <1>41, <1>42 DEF Profile, AppIds

LEMMA ProfilesRestore ==
  ASSUME NEW app \in AppIds \cup {"menu"}
  PROVE  Restores(Profile(app))
<1> USE DEF Restores, Without, SaveOps, Blank, Unsaved, AsItIs, AudioModes, Plain, Mode, Rate, Hint,
      Mute, Start, Stop, OpenTap, Record, MicOn, SaveMode, SaveBoth, SaveOnce, Send, Unsend,
      UnsendIfSending, RestoreMode, RestoreModeRate, RestoreIfSaved
<1>1. Restores(Ais) /\ Restores(LookingGlass) /\ Restores(AnalogTv) /\ Restores(SearchApp) /\
      Restores(AdsbRx) /\ Restores(AcarsRx)
  BY DEF Ais, LookingGlass, AnalogTv, SearchApp, AdsbRx, AcarsRx
<1>2. Restores(AfskRx) /\ Restores(AprsRx) /\ Restores(NoaaAptRx) /\ Restores(WeFaxRx) /\
      Restores(GfxEq) /\ Restores(ErtRx)
  BY DEF AfskRx, AprsRx, NoaaAptRx, WeFaxRx, GfxEq, ErtRx
<1>3. Restores(WeatherRx) /\ Restores(FpvDetect) /\ Restores(VorRx) /\ Restores(PocsagRx) /\
      Restores(FlexRx) /\ Restores(DetectorRx)
  BY DEF WeatherRx, FpvDetect, VorRx, PocsagRx, FlexRx, DetectorRx
<1>4. Restores(FoxhuntRx) /\ Restores(SignalHunter) /\ Restores(SondeRx) /\
      Restores(SubCarRx) /\ Restores(TetraRx) /\ Restores(TimeSink)
  BY DEF FoxhuntRx, SignalHunter, SondeRx, SubCarRx, TetraRx, TimeSink
<1>5. Restores(Scanner) /\ Restores(Recon) /\ Restores(FmRadio) /\ Restores(MorseRx) /\
      Restores(BleRx) /\ Restores(NrfRx)
  BY DEF Scanner, Recon, FmRadio, MorseRx, BleRx, NrfRx
<1>6. Restores(EpirbRx) /\ Restores(TwoToneRx) /\ Restores(AnalogAudio) /\ Restores(Level) /\
      Restores(Capture) /\ Restores(RttyRx)
  BY DEF EpirbRx, TwoToneRx, AnalogAudio, Level, Capture, RttyRx
<1>7. Restores(SstvRx) /\ Restores(Tuner) /\ Restores(RadioSetup) /\ Restores(AdsbTx) /\
      Restores(BhtTx) /\ Restores(CoasterTx)
  BY DEF SstvRx, Tuner, RadioSetup, AdsbTx, BhtTx, CoasterTx
<1>8. Restores(EpirbTx) /\ Restores(KeeloqTx) /\ Restores(KeyfobTx) /\ Restores(SecplusTx) /\
      Restores(VorTx) /\ Restores(AprsTx)
  BY DEF EpirbTx, KeeloqTx, KeyfobTx, SecplusTx, VorTx, AprsTx
<1>9. Restores(BleTx) /\ Restores(OokTx) /\ Restores(FlexTx) /\ Restores(GpsSim) /\
      Restores(Jammer) /\ Restores(KissTnc)
  BY DEF BleTx, OokTx, FlexTx, GpsSim, Jammer, KissTnc
<1>10. Restores(MicTx) /\ Restores(MorseTx) /\ Restores(OokEditor) /\ Restores(OokBrute) /\
      Restores(Playlist) /\ Restores(PocsagTx)
  BY DEF MicTx, MorseTx, OokEditor, OokBrute, Playlist, PocsagTx
<1>11. Restores(RdsTx) /\ Restores(RemoteTx) /\ Restores(RttyTx) /\ Restores(SameTx) /\
      Restores(SoundBoard) /\ Restores(SstvTx)
  BY DEF RdsTx, RemoteTx, RttyTx, SameTx, SoundBoard, SstvTx
<1>12. Restores(TouchTunes) /\ Restores(SigGen) /\ Restores(TwoTonePager)
  BY DEF TouchTunes, SigGen, TwoTonePager
<1>13. Restores(Blank)
  OBVIOUS
<1> HIDE DEF Restores, Blank
<1>14. app \in AppIds => Restores(Profiles[app])
  BY ProfileIsListed,
     <1>1, <1>2, <1>3, <1>4, <1>5, <1>6, <1>7, <1>8, <1>9, <1>10, <1>11, <1>12 DEF Catalogue
<1> QED
  BY <1>13, <1>14 DEF Profile, AppIds

-----------------------------------------------------------------------------
(* What a call does to the settings of the receiver.                       *)

LEMMA CallTunes ==
  ASSUME NEW t \in Pairs, NEW c \in Calls
  PROVE  LET r == t.radio
             u == Do(t, c).radio
         IN  /\ u.open = r.open
             /\ c.op \notin ModeOps => u.mode = r.mode
             /\ c.op \notin RateOps => u.rate = r.rate
             /\ c.op \notin HintOps => u.hint = r.hint
             /\ c.op \notin ModeOps \cup {"mute"} => u.monitor = r.monitor
             /\ c.op # "mute" => (r.monitor => u.monitor)
             /\ c.op \notin HaltingOps /\ (r.open => r.running) => (u.open => u.running)
<1> DEFINE Tuned(r, u) ==
             /\ u.open = r.open
             /\ c.op \notin ModeOps => u.mode = r.mode
             /\ c.op \notin RateOps => u.rate = r.rate
             /\ c.op \notin HintOps => u.hint = r.hint
             /\ c.op \notin ModeOps \cup {"mute"} => u.monitor = r.monitor
             /\ c.op # "mute" => (r.monitor => u.monitor)
             /\ c.op \notin HaltingOps /\ (r.open => r.running) => (u.open => u.running)
<1> USE DEF ModeOps, RateOps, HintOps, RestoringOps, HaltingOps
<1>1. t.radio \in RadioSet /\ t.view \in ViewSet
  BY DEF Pairs
<1>2. CASE c.op \in {"mode", "rate", "start", "stop"}
  <2>1. c.arg \in Words
    BY <1>2 DEF Calls, QuietCalls, QuietOps
  <2>2. Do(t, c).radio = CASE c.op = "mode" -> SetMode(t.radio, c.arg)
                           [] c.op = "rate" -> SetSamplingRate(t.radio, c.arg)
                           [] c.op = "start" -> StartReceiver(t.radio)
                           [] c.op = "stop" -> StopReceiver(t.radio)
    BY <1>2 DEF Do, Pairs
  <2>3. c.op = "mode" => Tuned(t.radio, SetMode(t.radio, c.arg))
    BY <1>1 DEF SetMode, RadioSet
  <2>4. c.op = "rate" => Tuned(t.radio, SetSamplingRate(t.radio, c.arg))
    BY <1>1, <2>1 DEF SetSamplingRate, StartReceiver, StopReceiver, RadioSet
  <2>5. /\ c.op = "start" => Tuned(t.radio, StartReceiver(t.radio))
        /\ c.op = "stop" => Tuned(t.radio, StopReceiver(t.radio))
    BY <1>1 DEF StartReceiver, StopReceiver, RadioSet
  <2>6. Tuned(t.radio, Do(t, c).radio)
    <3> HIDE DEF Tuned
    <3> QED
      BY <1>2, <2>2, <2>3, <2>4, <2>5
  <2> QED
    BY <2>6
<1>3. CASE c.op \in RestoringOps
  <2>1. t.view.saved.mode \in Words /\ t.view.saved.rate \in Words
    BY <1>1 DEF ViewSet, SavedSet
  <2>2. \/ c.op = "restoreMode" /\ Do(t, c).radio = SetMode(t.radio, t.view.saved.mode)
        \/ c.op = "restoreModeRate" /\ Do(t, c).radio = RestoreSettings(t.radio, t.view)
        \/ c.op = "restoreIfSaved" /\ Do(t, c).radio = RestoreSettings(StopReceiver(t.radio), t.view)
        \/ c.op = "restoreIfSaved" /\ Do(t, c).radio = RestoreSettings(t.radio, t.view)
        \/ c.op = "restoreIfSaved" /\ Do(t, c).radio = t.radio
    BY <1>3, ZenonT(60) DEF Do, Pairs
  <2>3. ASSUME NEW r \in RadioSet
        PROVE  LET m == SetMode(r, t.view.saved.mode)
               IN  /\ m \in RadioSet /\ m.open = r.open /\ m.running = r.running
                   /\ m.hint = r.hint /\ m.rate = r.rate /\ m.monitor
    BY <2>1 DEF SetMode, RadioSet
  <2>4. ASSUME NEW r \in RadioSet
        PROVE  LET x == SetSamplingRate(r, t.view.saved.rate)
               IN  /\ x.open = r.open /\ ((r.open => r.running) => (x.open => x.running))
                   /\ x.monitor = r.monitor
    BY <2>1 DEF SetSamplingRate, StartReceiver, StopReceiver, RadioSet
  <2>5. ASSUME NEW r \in RadioSet
        PROVE  LET x == RestoreSettings(r, t.view)
               IN  /\ x.open = r.open /\ ((r.open => r.running) => (x.open => x.running))
                   /\ x.monitor
    <3> DEFINE m == SetMode(r, t.view.saved.mode)
    <3>1. m \in RadioSet /\ m.open = r.open /\ m.running = r.running /\ m.monitor
      BY <2>3
    <3> HIDE DEF m
    <3> QED
      BY <2>4, <3>1 DEF RestoreSettings, m
  <2>6. StopReceiver(t.radio) \in RadioSet /\ StopReceiver(t.radio).open = t.radio.open
    BY <1>1 DEF StopReceiver, RadioSet
  <2> DEFINE x == StopReceiver(t.radio)
  <2> HIDE DEF x
  <2>7. x \in RadioSet /\ x.open = t.radio.open
    BY <2>6 DEF x
  <2>8. \/ c.op = "restoreMode" /\ Do(t, c).radio = SetMode(t.radio, t.view.saved.mode)
        \/ c.op = "restoreModeRate" /\ Do(t, c).radio = RestoreSettings(t.radio, t.view)
        \/ c.op = "restoreIfSaved" /\ Do(t, c).radio = RestoreSettings(x, t.view)
        \/ c.op = "restoreIfSaved" /\ Do(t, c).radio = RestoreSettings(t.radio, t.view)
        \/ c.op = "restoreIfSaved" /\ Do(t, c).radio = t.radio
    BY <2>2 DEF x
  <2> QED
    BY <1>1, <1>3, <2>3, <2>5, <2>7, <2>8
<1>4. CASE c.op \in {"hint", "mute", "openTap", "closeTap", "record", "endRecord", "micOn", "micOff"}
  BY <1>1, <1>4, ZenonT(60) DEF Do, Pairs, RadioSet
<1>5. CASE c.op \in SaveOps
  <2>1. Do(t, c).radio = t.radio
    BY <1>5, ZenonT(60) DEF Do, Pairs, SaveOps
  <2> QED
    BY <2>1
<1>6. CASE c.op \in {"send", "unsend", "unsendIfSending"}
  BY <1>1, <1>6, ZenonT(60) DEF Do, BeginSend, EndSend, StartTransmitter, StopTransmitter, Pairs, RadioSet
<1> QED
  BY <1>2, <1>3, <1>4, <1>5, <1>6 DEF Calls, QuietCalls, QuietOps, SaveOps

(* What is set is set.                                                     *)
LEMMA CallSets ==
  ASSUME NEW t \in Pairs, NEW w \in Words
  PROVE  /\ Do(t, Mode(w)).radio.mode = w /\ Do(t, Mode(w)).radio.monitor
         /\ Do(t, Rate(w)).radio.rate = w
         /\ Do(t, Hint(w)).radio.hint = w
         /\ ~Do(t, Mute).radio.monitor
         /\ Do(t, Start).radio.open => Do(t, Start).radio.running
<1>1. t.radio \in RadioSet
  BY DEF Pairs
<1>2. SetMode(t.radio, w).mode = w /\ SetMode(t.radio, w).monitor
  BY <1>1 DEF SetMode, RadioSet
<1>3. SetSamplingRate(t.radio, w).rate = w
  BY <1>1 DEF SetSamplingRate, StartReceiver, StopReceiver, RadioSet
<1>4. StartReceiver(t.radio).open => StartReceiver(t.radio).running
  BY <1>1 DEF StartReceiver, RadioSet
<1>5. Do(t, Mode(w)).radio = SetMode(t.radio, w)
  BY DEF Do, Mode, Pairs
<1>6. Do(t, Rate(w)).radio = SetSamplingRate(t.radio, w)
  BY DEF Do, Rate, Pairs
<1>7. Do(t, Start).radio = StartReceiver(t.radio)
  BY DEF Do, Start, Plain, Pairs
<1>8. Do(t, Hint(w)).radio.hint = w /\ ~Do(t, Mute).radio.monitor
  BY <1>1 DEF Do, Hint, Mute, Plain, Pairs, RadioSet
<1> QED
  BY <1>2, <1>3, <1>4, <1>5, <1>6, <1>7, <1>8

(* What a call leaves alone in the view that makes it.                     *)
LEMMA CallViews ==
  ASSUME NEW t \in Pairs, NEW c \in Calls
  PROVE  LET v == t.view
             w == Do(t, c).view
         IN  /\ Identity(v, w) /\ w.fresh = v.fresh /\ w.shown = v.shown /\ w.found = v.found
             /\ c.op \notin SaveOps => w.saved = v.saved
<1> USE DEF Identity
<1>1. t.view \in ViewSet
  BY DEF Pairs
<1>2. CASE c.op \in {"mode", "rate", "start", "stop", "hint", "mute", "openTap", "closeTap", "record",
                     "endRecord", "micOn", "micOff"}
  <2>1. Do(t, c).view = t.view
    BY <1>2, ZenonT(60) DEF Do, Pairs
  <2> QED
    BY <2>1
<1>3. CASE c.op \in RestoringOps
  <2>1. Do(t, c).view = t.view
    BY <1>3, ZenonT(60) DEF Do, Pairs, RestoringOps
  <2> QED
    BY <2>1
<1>4. CASE c.op \in SaveOps
  BY <1>1, <1>4, ZenonT(60) DEF Do, Pairs, ViewSet, SaveOps
<1>5. CASE c.op \in {"send", "unsend", "unsendIfSending"}
  BY <1>1, <1>5, ZenonT(60) DEF Do, BeginSend, EndSend, Pairs, ViewSet
<1> QED
  BY <1>2, <1>3, <1>4, <1>5 DEF Calls, QuietCalls, QuietOps, SaveOps, RestoringOps

(* What the last of certain calls brings about stays when no call after    *)
(* it undoes it.                                                           *)
LEMMA PerformSettles ==
  ASSUME NEW s \in Pairs, NEW calls \in Seq(Calls), NEW C, NEW ops, EndsWith(calls, C, ops), NEW S,
         \A t \in Pairs, c \in Calls \cap C : Do(t, c) \in S,
         \A t \in Pairs \cap S, c \in Calls : c.op \notin ops => Do(t, c) \in S
  PROVE  Perform(s, calls) \in S \cap Pairs
<1> DEFINE N == Len(calls)
<1>1. PICK f \in [0 .. N -> Pairs] :
            /\ f[0] = s
            /\ \A n \in 1 .. N : f[n] = Do(f[n - 1], calls[n])
            /\ Perform(s, calls) = f[N]
  BY PerformRuns
<1>2. PICK k : LastAt(k, calls, C, ops)
  BY DEF EndsWith
<1>3. /\ N \in Nat /\ k \in 1 .. N /\ calls[k] \in C
      /\ \A m \in 1 .. N : k < m => calls[m].op \notin ops
      /\ \A m \in 1 .. N : calls[m] \in Calls
  BY <1>2 DEF LastAt
<1> DEFINE T == {n \in 0 .. N : k <= n => f[n] \in S}
<1>4. 0 \in T
  BY <1>3
<1>5. ASSUME NEW n \in 0 .. (N - 1), n \in T PROVE n + 1 \in T
  <2>1. n + 1 \in 1 .. N /\ n + 1 \in 0 .. N /\ (n + 1) - 1 = n /\ n \in 0 .. N
    BY <1>3
  <2>2. f[n] \in Pairs /\ f[n + 1] = Do(f[n], calls[n + 1]) /\ calls[n + 1] \in Calls
    BY <1>1, <1>3, <2>1
  <2>3. CASE k = n + 1
    BY <1>3, <2>1, <2>2, <2>3
  <2>4. CASE k <= n
    <3>1. f[n] \in S /\ k < n + 1
      BY <1>3, <1>5, <2>1, <2>4
    <3> QED
      BY <1>3, <2>1, <2>2, <3>1
  <2>5. CASE n + 1 < k
    BY <1>3, <2>1, <2>5
  <2> QED
    BY <1>3, <2>1, <2>3, <2>4, <2>5
<1>6. N \in T
  <2> HIDE DEF T, N
  <2>1. \A n \in 0 .. N : n \in T
    BY <1>3, <1>4, <1>5, UpTo
  <2> QED
    BY <1>3, <2>1
<1> QED
  BY <1>1, <1>3, <1>6

LEMMA PerformSpares ==
  ASSUME NEW s \in Pairs, NEW calls \in Seq(Calls), NEW ops, Without(calls, ops), NEW S, s \in S,
         \A t \in Pairs \cap S, c \in Calls : c.op \notin ops => Do(t, c) \in S
  PROVE  Perform(s, calls) \in S \cap Pairs
<1>1. \A i \in 1 .. Len(calls) : calls[i] \in Calls /\ calls[i].op \notin ops
  BY DEF Without
<1>2. \A t \in Pairs \cap S, i \in 1 .. Len(calls) : Do(t, calls[i]) \in S
  BY <1>1
<1> QED
  BY <1>2, PerformKeeps

\* The receiver is as it is needed, and runs if there is a device.
Fits(r, needs) ==
    /\ needs.mode \in {"any", r.mode}
    /\ needs.rate \in {"any", r.rate}
    /\ needs.hint \in {"any", r.hint}
    /\ needs.monitor = "any" \/ needs.monitor = (IF r.monitor THEN "on" ELSE "off")

Running(r) == r.open => r.running

LEMMA SetsFits ==
  ASSUME NEW s \in Pairs, NEW calls \in Seq(Calls), NEW needs, needs.monitor \in {"any", "on", "off"},
         Sets(calls, needs)
  PROVE  Fits(Perform(s, calls).radio, needs)
<1> DEFINE u == Perform(s, calls)
           M == {t \in Pairs : t.radio.mode = needs.mode}
           R == {t \in Pairs : t.radio.rate = needs.rate}
           H == {t \in Pairs : t.radio.hint = needs.hint}
           On == {t \in Pairs : t.radio.monitor}
           Off == {t \in Pairs : ~t.radio.monitor}
<1>0. \A t \in Pairs, c \in Calls : Do(t, c) \in Pairs
  BY DoType
<1>1. \A w : /\ Mode(w) \in Calls => w \in Words
             /\ Rate(w) \in Calls => w \in Words
             /\ Hint(w) \in Calls => w \in Words
  BY DEF Calls, QuietCalls, Mode, Rate, Hint
<1>2. ASSUME needs.mode # "any" PROVE u \in M
  <2>1. EndsWith(calls, {Mode(needs.mode)}, ModeOps)
    BY <1>2 DEF Sets
  <2>2. \A t \in Pairs, c \in Calls \cap {Mode(needs.mode)} : Do(t, c) \in M
    BY <1>0, <1>1, CallSets
  <2>3. \A t \in Pairs \cap M, c \in Calls : c.op \notin ModeOps => Do(t, c) \in M
    BY <1>0, CallTunes
  <2> HIDE DEF M
  <2> QED
    BY <2>1, <2>2, <2>3, PerformSettles
<1>3. ASSUME needs.rate # "any" PROVE u \in R
  <2>1. EndsWith(calls, {Rate(needs.rate)}, RateOps)
    BY <1>3 DEF Sets
  <2>2. \A t \in Pairs, c \in Calls \cap {Rate(needs.rate)} : Do(t, c) \in R
    BY <1>0, <1>1, CallSets
  <2>3. \A t \in Pairs \cap R, c \in Calls : c.op \notin RateOps => Do(t, c) \in R
    BY <1>0, CallTunes
  <2> HIDE DEF R
  <2> QED
    BY <2>1, <2>2, <2>3, PerformSettles
<1>4. ASSUME needs.hint # "any" PROVE u \in H
  <2>1. EndsWith(calls, {Hint(needs.hint)}, HintOps)
    BY <1>4 DEF Sets
  <2>2. \A t \in Pairs, c \in Calls \cap {Hint(needs.hint)} : Do(t, c) \in H
    BY <1>0, <1>1, CallSets
  <2>3. \A t \in Pairs \cap H, c \in Calls : c.op \notin HintOps => Do(t, c) \in H
    BY <1>0, CallTunes
  <2> HIDE DEF H
  <2> QED
    BY <2>1, <2>2, <2>3, PerformSettles
<1>5. ASSUME needs.monitor = "on" PROVE u \in On
  <2>1. EndsWith(calls, {Mode(needs.mode)}, {"mute"})
    BY <1>5 DEF Sets
  <2>2. \A t \in Pairs, c \in Calls \cap {Mode(needs.mode)} : Do(t, c) \in On
    BY <1>0, <1>1, CallSets
  <2>3. \A t \in Pairs \cap On, c \in Calls : c.op \notin {"mute"} => Do(t, c) \in On
    BY <1>0, CallTunes
  <2> HIDE DEF On
  <2> QED
    BY <2>1, <2>2, <2>3, PerformSettles
<1>6. ASSUME needs.monitor = "off" PROVE u \in Off
  <2>1. EndsWith(calls, {Mute}, ModeOps)
    BY <1>6 DEF Sets
  <2>2. \A t \in Pairs, c \in Calls \cap {Mute} : Do(t, c) \in Off
    <3>1. "none" \in Words
      BY DEF Words
    <3> QED
      BY <1>0, <3>1, CallSets
  <2>3. \A t \in Pairs \cap Off, c \in Calls : c.op \notin ModeOps => Do(t, c) \in Off
    <3> TAKE t \in Pairs \cap Off, c \in Calls
    <3> HAVE c.op \notin ModeOps
    <3>1. CASE c.op = "mute"
      <4>1. Do(t, c).radio.monitor = FALSE
        <5>1. t.radio \in RadioSet
          BY DEF Pairs
        <5> QED
          BY <3>1, <5>1 DEF Do, Pairs, RadioSet
      <4> QED
        BY <1>0, <4>1
    <3>2. CASE c.op # "mute"
      BY <1>0, <3>2, CallTunes
    <3> QED
      BY <3>1, <3>2
  <2> HIDE DEF Off
  <2> QED
    BY <2>1, <2>2, <2>3, PerformSettles
<1> HIDE DEF u
<1> QED
  BY <1>2, <1>3, <1>4, <1>5, <1>6 DEF Fits, u

LEMMA SparesFits ==
  ASSUME NEW s \in Pairs, NEW calls \in Seq(Calls), NEW needs, needs.monitor \in {"any", "on", "off"},
         Spares(calls, needs), Fits(s.radio, needs)
  PROVE  Fits(Perform(s, calls).radio, needs)
<1> DEFINE u == Perform(s, calls)
           M == {t \in Pairs : t.radio.mode = needs.mode}
           R == {t \in Pairs : t.radio.rate = needs.rate}
           H == {t \in Pairs : t.radio.hint = needs.hint}
           On == {t \in Pairs : t.radio.monitor}
           Off == {t \in Pairs : ~t.radio.monitor}
<1>0. \A t \in Pairs, c \in Calls : Do(t, c) \in Pairs
  BY DoType
<1>2. ASSUME needs.mode # "any" PROVE u \in M
  <2>1. Without(calls, ModeOps) /\ s \in M
    BY <1>2 DEF Spares, Fits
  <2>2. \A t \in Pairs \cap M, c \in Calls : c.op \notin ModeOps => Do(t, c) \in M
    BY <1>0, CallTunes
  <2> HIDE DEF M
  <2> QED
    BY <2>1, <2>2, PerformSpares
<1>3. ASSUME needs.rate # "any" PROVE u \in R
  <2>1. Without(calls, RateOps) /\ s \in R
    BY <1>3 DEF Spares, Fits
  <2>2. \A t \in Pairs \cap R, c \in Calls : c.op \notin RateOps => Do(t, c) \in R
    BY <1>0, CallTunes
  <2> HIDE DEF R
  <2> QED
    BY <2>1, <2>2, PerformSpares
<1>4. ASSUME needs.hint # "any" PROVE u \in H
  <2>1. Without(calls, HintOps) /\ s \in H
    BY <1>4 DEF Spares, Fits
  <2>2. \A t \in Pairs \cap H, c \in Calls : c.op \notin HintOps => Do(t, c) \in H
    BY <1>0, CallTunes
  <2> HIDE DEF H
  <2> QED
    BY <2>1, <2>2, PerformSpares
<1>5. ASSUME needs.monitor = "on" PROVE u \in On
  <2>1. Without(calls, {"mute"}) /\ s \in On
    BY <1>5 DEF Spares, Fits
  <2>2. \A t \in Pairs \cap On, c \in Calls : c.op \notin {"mute"} => Do(t, c) \in On
    BY <1>0, CallTunes
  <2> HIDE DEF On
  <2> QED
    BY <2>1, <2>2, PerformSpares
<1>6. ASSUME needs.monitor = "off" PROVE u \in Off
  <2>1. Without(calls, ModeOps) /\ s \in Off
    BY <1>6 DEF Spares, Fits
  <2>2. \A t \in Pairs \cap Off, c \in Calls : c.op \notin ModeOps => Do(t, c) \in Off
    <3> TAKE t \in Pairs \cap Off, c \in Calls
    <3> HAVE c.op \notin ModeOps
    <3>1. CASE c.op = "mute"
      <4>1. Do(t, c).radio.monitor = FALSE
        <5>1. t.radio \in RadioSet
          BY DEF Pairs
        <5> QED
          BY <3>1, <5>1 DEF Do, Pairs, RadioSet
      <4> QED
        BY <1>0, <4>1
    <3>2. CASE c.op # "mute"
      BY <1>0, <3>2, CallTunes
    <3> QED
      BY <3>1, <3>2
  <2> HIDE DEF Off
  <2> QED
    BY <2>1, <2>2, PerformSpares
<1> HIDE DEF u
<1> QED
  BY <1>2, <1>3, <1>4, <1>5, <1>6 DEF Fits, u

LEMMA PerformStartsReceiver ==
  ASSUME NEW s \in Pairs, NEW calls \in Seq(Calls)
  PROVE  LET r == Perform(s, calls).radio
         IN  /\ r.open = s.radio.open
             /\ EndsWith(calls, {Start}, HaltingOps) => Running(r)
             /\ Without(calls, HaltingOps) /\ Running(s.radio) => Running(r)
<1> DEFINE O == {t \in Pairs : t.radio.open = s.radio.open}
           R == {t \in Pairs : Running(t.radio)}
<1>0. \A t \in Pairs, c \in Calls : Do(t, c) \in Pairs
  BY DoType
<1>1. Perform(s, calls) \in O
  <2>1. \A t \in Pairs \cap O, i \in 1 .. Len(calls) : Do(t, calls[i]) \in O
    <3>1. \A i \in 1 .. Len(calls) : calls[i] \in Calls
      OBVIOUS
    <3> QED
      BY <1>0, <3>1, CallTunes
  <2>2. s \in O
    OBVIOUS
  <2> HIDE DEF O
  <2> QED
    BY <2>1, <2>2, PerformKeeps
<1>2. \A t \in Pairs \cap R, c \in Calls : c.op \notin HaltingOps => Do(t, c) \in R
  BY <1>0, CallTunes DEF Running
<1>3. ASSUME EndsWith(calls, {Start}, HaltingOps) PROVE Perform(s, calls) \in R
  <2>1. \A t \in Pairs, c \in Calls \cap {Start} : Do(t, c) \in R
    <3>1. "none" \in Words
      BY DEF Words
    <3> QED
      BY <1>0, <3>1, CallSets DEF Running
  <2> HIDE DEF R
  <2> QED
    BY <1>2, <1>3, <2>1, PerformSettles
<1>4. ASSUME Without(calls, HaltingOps), Running(s.radio) PROVE Perform(s, calls) \in R
  <2>1. s \in R
    BY <1>4
  <2> HIDE DEF R
  <2> QED
    BY <1>2, <1>4, <2>1, PerformSpares
<1> QED
  BY <1>1, <1>3, <1>4

(* Calls leave alone what the view is and when it was shown first.         *)
LEMMA PerformViews ==
  ASSUME NEW s \in Pairs, NEW calls \in Seq(Calls)
  PROVE  LET v == s.view
             w == Perform(s, calls).view
         IN  /\ Perform(s, calls) \in Pairs
             /\ Identity(v, w) /\ w.fresh = v.fresh /\ w.shown = v.shown /\ w.found = v.found
             /\ Without(calls, SaveOps) => w.saved = v.saved
<1> DEFINE v == s.view
           A == {t \in Pairs : /\ Identity(v, t.view) /\ t.view.fresh = v.fresh
                               /\ t.view.shown = v.shown /\ t.view.found = v.found}
           B == {t \in Pairs : t.view.saved = v.saved}
<1>0. \A t \in Pairs, c \in Calls : Do(t, c) \in Pairs
  BY DoType
<1>1. Perform(s, calls) \in A \cap Pairs
  <2>1. s \in A
    BY DEF Identity
  <2>2. ASSUME NEW t \in Pairs \cap A, NEW i \in 1 .. Len(calls) PROVE Do(t, calls[i]) \in A
    <3>1. calls[i] \in Calls
      OBVIOUS
    <3> QED
      BY <1>0, <3>1, CallViews DEF Identity
  <2> HIDE DEF A
  <2> QED
    BY <2>1, <2>2, PerformKeeps
<1>2. ASSUME Without(calls, SaveOps) PROVE Perform(s, calls) \in B
  <2>1. s \in B
    OBVIOUS
  <2>2. \A t \in Pairs \cap B, c \in Calls : c.op \notin SaveOps => Do(t, c) \in B
    BY <1>0, CallViews
  <2> HIDE DEF B
  <2> QED
    BY <1>2, <2>1, <2>2, PerformSpares
<1> QED
  BY <1>1, <1>2

-----------------------------------------------------------------------------
(* The view that is shown finds the receiver as it needs it.               *)

\* What a view remembers.
Alike(v, w) ==
    /\ Identity(v, w)
    /\ w.fresh = v.fresh /\ w.shown = v.shown /\ w.found = v.found /\ w.saved = v.saved

AllAlike(stk, q) == Len(q) = Len(stk) /\ \A i \in 1 .. Len(stk) : Alike(stk[i], q[i])

\* What an event or a frame may make the application on top do.
Work(app) ==
    {Profile(app).begin, Profile(app).end}
      \cup {<<Mode(w)>> : w \in Profile(app).modes}
      \cup {<<Rate(w)>> : w \in Profile(app).rates}

LEMMA WorkFacts ==
  ASSUME NEW app \in AppIds \cup {"menu"}, NEW calls \in Work(app)
  PROVE  LET p == Profile(app)
         IN  /\ calls \in Seq(Calls) /\ Without(calls, SaveOps) /\ Spares(calls, p.needs)
             /\ Start \in Range(p.show) => Without(calls, HaltingOps)
<1> DEFINE p == Profile(app)
           Fine(c) == /\ c \in Seq(Calls) /\ Without(c, SaveOps) /\ Spares(c, p.needs)
                      /\ Start \in Range(p.show) => Without(c, HaltingOps)
<1>1. Tunes(p) /\ Restores(p)
  BY ProfilesTune, ProfilesRestore
<1>2. p.modes \subseteq Words /\ p.rates \subseteq Words /\ p.begin \in Seq(Calls) /\ p.end \in Seq(Calls)
  BY ProfileCalls, EndingInCalls
<1>3. Fine(p.begin) /\ Fine(p.end)
  BY <1>1, <1>2 DEF Tunes, Restores
<1>4. \A w \in Words : /\ Mode(w) \in Calls /\ Rate(w) \in Calls
                       /\ Mode(w).op = "mode" /\ Rate(w).op = "rate"
  BY DEF Calls, QuietCalls, QuietOps, OpeningOps, Mode, Rate
<1>5. ASSUME NEW w \in p.modes PROVE Fine(<<Mode(w)>>)
  <2>1. p.needs.mode = "any" /\ p.needs.monitor = "any"
    BY <1>1 DEF Tunes
  <2>2. \A n \in 1 .. Len(<<Mode(w)>>) : <<Mode(w)>>[n].op = "mode"
    BY <1>2, <1>4
  <2>3. <<Mode(w)>> \in Seq(Calls)
    BY <1>2, <1>4
  <2>4. \A ops : "mode" \notin ops => Without(<<Mode(w)>>, ops)
    BY <2>2 DEF Without
  <2>5. "mode" \notin SaveOps /\ "mode" \notin RateOps /\ "mode" \notin HintOps /\ "mode" \notin HaltingOps
    BY DEF SaveOps, RateOps, HintOps, HaltingOps, RestoringOps
  <2>6. Spares(<<Mode(w)>>, p.needs)
    BY <2>1, <2>4, <2>5 DEF Spares
  <2> QED
    BY <2>3, <2>4, <2>5, <2>6
<1>6. ASSUME NEW w \in p.rates PROVE Fine(<<Rate(w)>>)
  <2>1. p.needs.rate = "any" /\ p.needs.hint = "any"
    BY <1>1 DEF Tunes
  <2>2. \A n \in 1 .. Len(<<Rate(w)>>) : <<Rate(w)>>[n].op = "rate"
    BY <1>2, <1>4
  <2>3. <<Rate(w)>> \in Seq(Calls)
    BY <1>2, <1>4
  <2>4. \A ops : "rate" \notin ops => Without(<<Rate(w)>>, ops)
    BY <2>2 DEF Without
  <2>5. "rate" \notin SaveOps /\ "rate" \notin ModeOps /\ "rate" \notin HaltingOps /\ "rate" \notin {"mute"}
    BY DEF SaveOps, ModeOps, HaltingOps, RestoringOps
  <2>6. Spares(<<Rate(w)>>, p.needs)
    BY <2>1, <2>4, <2>5 DEF Spares
  <2> QED
    BY <2>3, <2>4, <2>5, <2>6
<1>7. Fine(calls)
  <2> HIDE DEF Fine
  <2> QED
    BY <1>3, <1>5, <1>6 DEF Work
<1> QED
  BY <1>7

LEMMA ActAlike ==
  ASSUME NEW stk \in Seq(ViewSet), NEW i \in 1 .. Len(stk), NEW r \in RadioSet, NEW v \in ViewSet,
         Alike(stk[i], v), NEW calls \in Seq(Calls), Without(calls, SaveOps)
  PROVE  LET t == Perform([radio |-> r, view |-> v], calls)
         IN  t \in Pairs /\ AllAlike(stk, [stk EXCEPT ![i] = t.view])
<1> DEFINE s == [radio |-> r, view |-> v]
           t == Perform(s, calls)
<1>1. s \in Pairs /\ s.view = v
  BY DEF Pairs
<1> HIDE DEF s
<1>2. /\ t \in Pairs /\ Identity(v, t.view) /\ t.view.fresh = v.fresh /\ t.view.shown = v.shown
      /\ t.view.found = v.found /\ t.view.saved = v.saved
  BY <1>1, PerformViews
<1> HIDE DEF t
<1>3. Alike(stk[i], t.view)
  BY <1>2 DEF Alike, Identity
<1>4. t.view \in ViewSet
  BY <1>2 DEF Pairs
<1>5. \A j \in 1 .. Len(stk) : Alike(stk[j], stk[j])
  BY DEF Alike, Identity
<1>6. AllAlike(stk, [stk EXCEPT ![i] = t.view])
  BY <1>3, <1>5 DEF AllAlike
<1> QED
  BY <1>2, <1>6 DEF t, s

\* Which work the steps do.
LEMMA StepWorks ==
  ASSUME [Next]_vars, ~Service
  PROVE  \/ UNCHANGED stack
         \/ Top.kind = "app" /\ \E calls \in Work(Top.app) : PerformOnTop(calls)
         \/ \E yes \in BOOLEAN : Answer(yes)
         \/ Exhaust
<1>1. CASE UNCHANGED vars
  BY <1>1 DEF vars
<1>2. CASE \E app \in Apps : Select(app) \/ OpenApp(app) \/ PortalLaunch(app)
  BY <1>2 DEF Select, OpenApp, PortalLaunch
<1>3. CASE OpenMenu \/ Back \/ OpenPage \/ Reconnect \/ PortalHome \/ MorseRequest
  BY <1>3 DEF OpenMenu, Back, OpenPage, Reconnect, PortalHome, MorseRequest
<1>4. CASE PressStart \/ PressStop \/ ChooseMode \/ ChooseRate
  BY <1>4 DEF PressStart, PressStop, ChooseMode, ChooseRate, Work
<1>5. CASE FrameSync
  BY <1>5 DEF FrameSync, EndOfBurst, Work
<1>6. CASE Exhaust \/ \E yes \in BOOLEAN : Answer(yes)
  BY <1>6
<1> QED
  BY <1>1, <1>2, <1>3, <1>4, <1>5, <1>6 DEF Next

\* Only service() hides, shows and destroys views.
LEMMA AlikeAfterEvents ==
  ASSUME IInv, [Next]_vars, ~Service
  PROVE  AllAlike(stack, stack')
<1>0. stack \in Seq(ViewSet) /\ \A i \in 1 .. Len(stack) : Alike(stack[i], stack[i])
  BY InvFacts DEF Alike, Identity
<1>1. CASE UNCHANGED stack
  BY <1>0, <1>1 DEF AllAlike
<1>2. ASSUME NEW calls \in Work(Top.app), PerformOnTop(calls) PROVE AllAlike(stack, stack')
  <2> DEFINE N == Len(stack)
             t == Perform([radio |-> radio, view |-> stack[N]], calls)
  <2>1. N \in 1 .. N /\ Top = stack[N] /\ stack[N] \in ViewSet /\ radio \in RadioSet
        /\ Top.app \in AppIds \cup {"menu"}
    BY InvFacts
  <2>2. calls \in Seq(Calls) /\ Without(calls, SaveOps)
    BY <1>2, <2>1, WorkFacts
  <2>3. stack' = [stack EXCEPT ![N] = t.view]
    BY <1>2 DEF PerformOnTop, PerformAt
  <2>4. AllAlike(stack, [stack EXCEPT ![N] = t.view])
    BY <1>0, <2>1, <2>2, ActAlike
  <2> QED
    BY <2>3, <2>4
<1>3. ASSUME NEW yes \in BOOLEAN, Answer(yes) PROVE AllAlike(stack, stack')
  <2> SUFFICES ASSUME NEW i \in DOMAIN stack,
                      stack' = [stack EXCEPT ![i] =
                                  Perform([radio |-> radio, view |-> [stack[i] EXCEPT !.confirmed = TRUE]],
                                          Profile([stack[i] EXCEPT !.confirmed = TRUE].app).begin).view]
               PROVE  AllAlike(stack, stack')
    BY <1>1, <1>3 DEF Answer
  <2> DEFINE v == [stack[i] EXCEPT !.confirmed = TRUE]
             calls == Profile(v.app).begin
             t == Perform([radio |-> radio, view |-> v], calls)
  <2>1. i \in 1 .. Len(stack) /\ stack[i] \in ViewSet /\ radio \in RadioSet
    BY InvFacts
  <2>2. v \in ViewSet /\ Alike(stack[i], v) /\ v.app \in AppIds \cup {"menu"}
    BY <2>1 DEF ViewSet, Alike, Identity
  <2>3. calls \in Work(v.app)
    BY DEF Work
  <2>4. calls \in Seq(Calls) /\ Without(calls, SaveOps)
    <3> HIDE DEF calls, v
    <3> QED
      BY <2>2, <2>3, WorkFacts
  <2>5. stack' = [stack EXCEPT ![i] = t.view]
    OBVIOUS
  <2>6. AllAlike(stack, [stack EXCEPT ![i] = t.view])
    <3> HIDE DEF calls, v
    <3> QED
      BY <1>0, <2>1, <2>2, <2>4, ActAlike
  <2> QED
    BY <2>5, <2>6
<1>4. CASE Exhaust
  <2> SUFFICES ASSUME NEW i \in DOMAIN stack, stack' = [stack EXCEPT ![i].sent = TRUE]
               PROVE  AllAlike(stack, stack')
    BY <1>1, <1>4 DEF Exhaust
  <2> DEFINE w == [stack[i] EXCEPT !.sent = TRUE]
  <2>1. i \in 1 .. Len(stack) /\ stack[i] \in ViewSet
    BY InvFacts
  <2>2. w \in ViewSet /\ Alike(stack[i], w)
    BY <2>1 DEF ViewSet, Alike, Identity
  <2>3. stack' = [stack EXCEPT ![i] = w]
    OBVIOUS
  <2> HIDE DEF w
  <2>4. Len(stack') = Len(stack)
    BY <1>0, <2>1, <2>2, <2>3
  <2>5. \A j \in 1 .. Len(stack) : stack'[j] = IF j = i THEN w ELSE stack[j]
    <3>1. DOMAIN stack = 1 .. Len(stack)
      BY <1>0
    <3> QED
      BY <2>3, <3>1
  <2> QED
    BY <1>0, <2>2, <2>4, <2>5 DEF AllAlike
<1> QED
  BY <1>1, <1>2, <1>3, <1>4, StepWorks

\* The receiver is ready for the view.
Ready(v, r) ==
    v.kind = "app" =>
      /\ (Profile(v.app).ctor = <<>> \/ v.fresh) => Fits(r, Profile(v.app).needs)
      /\ Start \in Range(Profile(v.app).show) => Running(r)

\* A view is fresh only on top of others.
FreshOnTop(stk) == \A i \in 1 .. Len(stk) : stk[i].fresh => i = Len(stk) /\ i > 1

\* Whoever was opened from a menu is shown next, and finds the receiver as its
\* constructor has left it.
ReadyToPush ==
    LET n == Len(pending)
        p == Profile(pending[n].view.app)
    IN  (n > 0 /\ pending[n].kind = "push" /\ pending[n].view.fresh) =>
          /\ phase = "events" /\ Top.kind \in {"root", "menu"}
          /\ Sets(p.show, p.needs) \/ Fits(radio, p.needs)

ShownInv ==
    /\ FreshOnTop(stack)
    /\ pending = <<>> => Ready(Top, radio)
    /\ ReadyToPush

LEMMA WorkReady ==
  ASSUME NEW v \in ViewSet, NEW r \in RadioSet, Ready(v, r), NEW calls \in Work(v.app)
  PROVE  Ready(v, Perform([radio |-> r, view |-> v], calls).radio)
<1> DEFINE s == [radio |-> r, view |-> v]
           p == Profile(v.app)
<1>1. s \in Pairs /\ s.radio = r /\ v.app \in AppIds \cup {"menu"}
  BY ViewFacts DEF Pairs
<1>2. /\ calls \in Seq(Calls) /\ Spares(calls, p.needs)
      /\ Start \in Range(p.show) => Without(calls, HaltingOps)
      /\ p.needs.monitor \in {"any", "on", "off"}
  BY <1>1, WorkFacts, ProfilesTune DEF Tunes
<1> HIDE DEF s, p
<1>3. Fits(r, p.needs) => Fits(Perform(s, calls).radio, p.needs)
  BY <1>1, <1>2, SparesFits
<1>4. (Start \in Range(p.show) /\ Running(r)) => Running(Perform(s, calls).radio)
  BY <1>1, <1>2, PerformStartsReceiver
<1> QED
  BY <1>3, <1>4 DEF Ready, s, p

LEMMA ReadyAlike ==
  ASSUME NEW v, NEW w, Alike(v, w), NEW r, Ready(v, r)
  PROVE  Ready(w, r)
BY DEF Alike, Identity, Ready

\* What the steps other than service() do to the queue and the receiver.
LEMMA EventMoves ==
  ASSUME IInv, [Next]_vars, ~Service
  PROVE  \/ UNCHANGED <<pending, radio>> /\ (phase' = phase \/ phase = "sync")
         \/ /\ UNCHANGED pending /\ Top.kind = "app"
            /\ \E calls \in Work(Top.app) : PerformOnTop(calls)
         \/ Reconnect
         \/ /\ Len(pending') > 0
            /\ pending'[Len(pending')].kind = "push" => ~pending'[Len(pending')].view.fresh
         \/ \E app \in Apps : Select(app)
<1>0. pending \in Seq(Ops)
  BY DEF IInv
<1> DEFINE Stale == /\ Len(pending') > 0
                    /\ pending'[Len(pending')].kind = "push" => ~pending'[Len(pending')].view.fresh
<1>1. ASSUME NEW op, pending' = Append(pending, op), op.kind = "push" => ~op.view.fresh PROVE Stale
  <2>1. Len(pending') = Len(pending) + 1 /\ Len(pending) \in Nat /\ pending'[Len(pending')] = op
    BY <1>0, <1>1
  <2> QED
    BY <1>1, <2>1
<1>2. ASSUME NEW op, pending' = pending \o <<RootOp, op>>, op.kind = "push" => ~op.view.fresh PROVE Stale
  <2>1. Len(pending') = Len(pending) + 2 /\ Len(pending) \in Nat /\ pending'[Len(pending')] = op
    BY <1>0, <1>2
  <2> QED
    BY <1>2, <2>1
<1>3. ASSUME NEW app \in Apps PROVE ~Built(app, FALSE).view.fresh
  <2> DEFINE v == View("app", app, FreshId, FALSE, 0)
  <2>1. app \in AppIds /\ radio \in RadioSet
    BY AppsAssumption, InvFacts
  <2>2. v \in ViewSet /\ ~v.fresh
    <3>1. v \in ViewSet
      BY <2>1, FreshFacts, ViewIs, ZenonT(60) DEF ViewKinds
    <3> QED
      BY <3>1 DEF View
  <2>3. [radio |-> radio, view |-> v] \in Pairs /\ Profile(app).ctor \in Seq(Calls)
    BY <2>1, <2>2, ProfileCalls, EndingInCalls DEF Pairs
  <2>4. Built(app, FALSE) = Perform([radio |-> radio, view |-> v], Profile(app).ctor)
    BY DEF Built
  <2> DEFINE s == [radio |-> radio, view |-> v]
             calls == Profile(app).ctor
  <2> HIDE DEF v
  <2>5. s \in Pairs /\ calls \in Seq(Calls) /\ s.view = v
    BY <2>3
  <2> HIDE DEF s, calls
  <2>6. Perform(s, calls).view.fresh = v.fresh
    BY <2>5, PerformViews
  <2> QED
    BY <2>2, <2>4, <2>6 DEF s, calls
<1>4. \A v : PushOp(v).view = v /\ PopOp.kind = "pop" /\ RootOp.kind = "root"
  BY DEF PushOp, PopOp, RootOp
<1>5. \A kind, owner : ~View(kind, "menu", FreshId, FALSE, owner).fresh
  BY DEF View
<1>6. CASE \E app \in Apps : OpenApp(app)
  BY <1>1, <1>3, <1>4, <1>6 DEF OpenApp, Queue
<1>7. CASE \E app \in Apps : PortalLaunch(app)
  BY <1>2, <1>3, <1>4, <1>7 DEF PortalLaunch
<1>8. CASE PortalHome
  <2>1. pending' = Append(pending, RootOp)
    BY <1>0, <1>8 DEF PortalHome
  <2> QED
    BY <1>1, <1>4, <2>1
<1>16. ASSUME NEW kind, NEW owner, Queue(PushOp(View(kind, "menu", FreshId, FALSE, owner))) PROVE Stale
  <2> DEFINE v == View(kind, "menu", FreshId, FALSE, owner)
             op == PushOp(v)
  <2>1. pending' = Append(pending, op)
    BY <1>16 DEF Queue
  <2>2. ~v.fresh
    BY <1>5
  <2> HIDE DEF v
  <2>3. ~op.view.fresh
    BY <1>4, <2>2
  <2> HIDE DEF op
  <2> QED
    BY <1>1, <2>1, <2>3
<1>17. ASSUME Queue(PopOp) PROVE Stale
  <2>1. pending' = Append(pending, PopOp)
    BY <1>17 DEF Queue
  <2> QED
    BY <1>1, <1>4, <2>1
<1>9. CASE OpenMenu \/ Back \/ OpenPage \/ \E yes \in BOOLEAN : Answer(yes)
  BY <1>9, <1>16, <1>17 DEF OpenMenu, Back, OpenPage, Answer
<1>10. CASE PressStart
  <2>1. CASE Queue(PushOp(View("modal", "menu", FreshId, FALSE, Top.id)))
    BY <1>16, <2>1
  <2> QED
    BY <1>10, <2>1 DEF PressStart, Work
<1>11. CASE PressStop \/ ChooseMode \/ ChooseRate
  BY <1>11 DEF PressStop, ChooseMode, ChooseRate, Work
<1>12. CASE FrameSync
  BY <1>12 DEF FrameSync, EndOfBurst, Work
<1>13. CASE Exhaust \/ MorseRequest \/ UNCHANGED vars
  BY <1>13 DEF Exhaust, MorseRequest, vars
<1>14. CASE Reconnect \/ \E app \in Apps : Select(app)
  BY <1>14
<1> QED
  BY <1>6, <1>7, <1>8, <1>9, <1>10, <1>11, <1>12, <1>13, <1>14 DEF Next

-----------------------------------------------------------------------------
(* service() and what the view that it shows finds.                        *)

NoneFresh(stk) == \A i \in 1 .. Len(stk) : ~stk[i].fresh

SameTuning(r, u) == u.mode = r.mode /\ u.rate = r.rate /\ u.hint = r.hint /\ u.monitor = r.monitor

\* What hiding a view does not change.
Recalls(v, w) ==
    /\ Identity(v, w)
    /\ w.shown = v.shown /\ w.found = v.found /\ w.saved = v.saved

TuningOps == {"mode", "rate", "hint", "mute"} \cup RestoringOps

LEMMA PerformTuning ==
  ASSUME NEW s \in Pairs, NEW calls \in Seq(Calls), Without(calls, TuningOps)
  PROVE  SameTuning(s.radio, Perform(s, calls).radio)
<1> DEFINE S == {t \in Pairs : SameTuning(s.radio, t.radio)}
<1>1. s \in S
  BY DEF SameTuning
<1>2. \A t \in Pairs \cap S, c \in Calls : c.op \notin TuningOps => Do(t, c) \in S
  <2> TAKE t \in Pairs \cap S, c \in Calls
  <2> HAVE c.op \notin TuningOps
  <2>1. Do(t, c) \in Pairs
    BY DoType
  <2>2. /\ c.op \notin ModeOps /\ c.op \notin RateOps /\ c.op \notin HintOps
        /\ c.op \notin ModeOps \cup {"mute"}
    BY DEF TuningOps, ModeOps, RateOps, HintOps
  <2>3. SameTuning(t.radio, Do(t, c).radio)
    BY <2>2, CallTunes DEF SameTuning
  <2>4. SameTuning(s.radio, t.radio)
    OBVIOUS
  <2> QED
    BY <2>1, <2>3, <2>4 DEF SameTuning
<1> HIDE DEF S
<1>3. Perform(s, calls) \in S
  BY <1>1, <1>2, PerformSpares
<1> QED
  BY <1>3 DEF S

(* on_hide() leaves the receiver as it is.                                 *)
LEMMA HideTopSpares ==
  ASSUME NEW s \in Services
  PROVE  LET h == HideTop(s)
         IN  /\ h \in Services /\ Len(h.stack) = Len(s.stack) /\ h.changed = s.changed
             /\ FreshOnTop(s.stack) => NoneFresh(h.stack)
             /\ SameTuning(s.radio, h.radio)
             /\ \A i \in 1 .. Len(h.stack) : Recalls(s.stack[i], h.stack[i])
<1> DEFINE N == Len(s.stack)
           top == Last(s.stack)
           calls == Profile(top.app).hide
           x == [radio |-> s.radio, view |-> top]
           t == Perform(x, calls)
           w == [t.view EXCEPT !.fresh = FALSE]
           q == [s.stack EXCEPT ![N] = w]
           h == HideTop(s)
<1>1. /\ t \in Pairs /\ w \in ViewSet /\ Identity(t.view, w)
      /\ h = [stack |-> q, radio |-> t.radio, changed |-> s.changed]
      /\ h \in Services
  BY HideTopIs
<1>2. /\ s.stack \in Seq(ViewSet) /\ N \in Nat \ {0} /\ top = s.stack[N] /\ top \in ViewSet
      /\ top.app \in AppIds \cup {"menu"} /\ x \in Pairs /\ x.radio = s.radio /\ x.view = top
  BY TopFacts
<1>3. calls \in Seq(Calls) /\ Without(calls, TuningOps) /\ Without(calls, SaveOps)
  <2>1. calls \in Seq(Calls)
    BY <1>2, ProfileCalls, EndingInCalls
  <2>2. \A n \in 1 .. Len(calls) : calls[n].op \in {"unsend", "unsendIfSending"}
    BY <1>2, ProfilesTune DEF Tunes
  <2>3. \A op \in {"unsend", "unsendIfSending"} : op \notin TuningOps /\ op \notin SaveOps
    BY DEF TuningOps, RestoringOps, SaveOps
  <2> HIDE DEF calls
  <2> QED
    BY <2>1, <2>2, <2>3 DEF Without
<1> HIDE DEF x, calls, h
<1>4. SameTuning(s.radio, t.radio)
  BY <1>2, <1>3, PerformTuning
<1>5. Identity(top, t.view) /\ t.view.shown = top.shown /\ t.view.found = top.found /\ t.view.saved = top.saved
  BY <1>2, <1>3, PerformViews
<1>6. ~w.fresh /\ w.shown = t.view.shown /\ w.found = t.view.found /\ w.saved = t.view.saved
  <2>1. t.view \in ViewSet
    BY <1>1 DEF Pairs
  <2> HIDE DEF t
  <2> QED
    BY <2>1 DEF ViewSet
<1> HIDE DEF w, t
<1>7. Recalls(top, w)
  BY <1>1, <1>5, <1>6 DEF Recalls, Identity
<1>8. Len(q) = N /\ \A i \in 1 .. N : q[i] = IF i = N THEN w ELSE s.stack[i]
  <2>1. DOMAIN s.stack = 1 .. N
    BY <1>2
  <2>2. q \in Seq(ViewSet) /\ Len(q) = N
    BY <1>1, <1>2
  <2> QED
    BY <2>1, <2>2
<1> HIDE DEF q
<1>9. \A i \in 1 .. N : /\ FreshOnTop(s.stack) => ~q[i].fresh
                        /\ Recalls(s.stack[i], q[i])
  <2> TAKE i \in 1 .. N
  <2>1. CASE i = N
    BY <1>2, <1>6, <1>7, <1>8, <2>1
  <2>2. CASE i # N
    BY <1>8, <2>2 DEF FreshOnTop, Recalls, Identity
  <2> QED
    BY <2>1, <2>2
<1>10. h.stack = q /\ h.radio = t.radio /\ h.changed = s.changed
  BY <1>1
<1> QED
  BY <1>1, <1>4, <1>8, <1>9, <1>10 DEF NoneFresh, h

LEMMA DropTopFresh ==
  ASSUME NEW s \in Services, Len(s.stack) > 1, NoneFresh(s.stack)
  PROVE  NoneFresh(DropTop(s).stack)
<1>1. DropTop(s).stack = Front(s.stack)
  <2> DEFINE r == Perform([radio |-> s.radio, view |-> Last(s.stack)], Profile(Last(s.stack).app).dtor).radio
  <2>1. DropTop(s) = [stack |-> Front(s.stack), radio |-> r, changed |-> s.changed]
    BY DropTopIs
  <2> HIDE DEF r
  <2> QED
    BY <2>1
<1>2. Len(Front(s.stack)) = Len(s.stack) - 1 /\ \A i \in 1 .. Len(Front(s.stack)) : Front(s.stack)[i] = s.stack[i]
  BY TopFacts, FrontFacts
<1>3. Len(s.stack) \in Nat
  BY TopFacts
<1> QED
  BY <1>1, <1>2, <1>3 DEF NoneFresh

\* s is what service() has made of the stack and the radio after n operations.
Kept(n, s) ==
    /\ FreshOnTop(s.stack)
    /\ (s.changed /\ Last(s.stack).fresh) =>
          n > 0 /\ pending[n].kind = "push" /\ Last(s.stack) = pending[n].view
    /\ OnlyPushes(n) => SameTuning(radio, s.radio)
    /\ ~s.changed => s.stack = stack /\ s.radio = radio /\ (n = 0 \/ Len(stack) = 1)

LEMMA KeptStep ==
  ASSUME IInv, NEW n \in 0 .. (Len(pending) - 1), NEW s \in Services, Kept(n, s)
  PROVE  Kept(n + 1, Apply(s, pending[n + 1]))
<1> DEFINE op == pending[n + 1]
           a == Apply(s, op)
           h == HideTop(s)
           N == Len(s.stack)
<1>1. /\ Len(pending) \in Nat /\ n \in Nat /\ n + 1 \in 1 .. Len(pending) /\ op \in Ops
      /\ op.kind \in {"push", "pop", "root"} /\ (op.kind = "push" => op.view \in ViewSet)
  <2>1. pending \in Seq(Ops)
    BY DEF IInv
  <2>2. Len(pending) \in Nat /\ n \in Nat /\ n + 1 \in 1 .. Len(pending) /\ op \in Ops
    BY <2>1
  <2> QED
    BY <2>2, OpFacts
<1>2. /\ FreshOnTop(s.stack) /\ s.stack \in Seq(ViewSet) /\ N \in Nat \ {0} /\ Last(s.stack) = s.stack[N]
      /\ s.changed \in BOOLEAN
  BY TopFacts DEF Kept, Services
<1>3. /\ h \in Services /\ Len(h.stack) = N /\ NoneFresh(h.stack) /\ SameTuning(s.radio, h.radio)
  BY <1>2, HideTopSpares
<1>4. OnlyPushes(n + 1) => OnlyPushes(n) /\ op.kind = "push"
  BY <1>1 DEF OnlyPushes
<1>5. ASSUME NEW q, NoneFresh(q), Len(q) \in Nat \ {0} PROVE FreshOnTop(q) /\ ~Last(q).fresh
  BY <1>5 DEF NoneFresh, FreshOnTop, Last
<1>6. CASE op.kind = "push"
  <2>1. a = [stack |-> Append(h.stack, op.view), radio |-> h.radio, changed |-> TRUE]
    BY <1>1, <1>6, ApplyPush
  <2> DEFINE q == Append(h.stack, op.view)
  <2>2. /\ Len(q) = N + 1 /\ q[N + 1] = op.view /\ \A i \in 1 .. N : q[i] = h.stack[i]
    <3>1. h.stack \in Seq(ViewSet)
      BY <1>3, TopFacts
    <3> HIDE DEF h
    <3> QED
      BY <1>1, <1>3, <1>6, <3>1, SMTT(40)
  <2> HIDE DEF h, q, op
  <2>3. FreshOnTop(q) /\ Last(q) = op.view
    <3>1. Len(q) \in Nat \ {0} /\ Len(q) - 1 = N
      BY <1>2, <2>2
    <3>2. Last(q) = op.view
      BY <2>2 DEF Last
    <3>3. \A i \in 1 .. N : ~q[i].fresh
      BY <1>3, <2>2 DEF NoneFresh
    <3>4. N \in Nat \ {0}
      BY <1>2
    <3> HIDE DEF N
    <3>5. \A i \in 1 .. Len(q) : i \in 1 .. N \/ (i = Len(q) /\ i > 1)
      BY <3>1, <3>4
    <3> QED
      BY <3>2, <3>3, <3>5 DEF FreshOnTop
  <2>4. a.stack = q /\ a.radio = h.radio /\ a.changed
    BY <2>1 DEF q
  <2>5. OnlyPushes(n) => SameTuning(radio, h.radio)
    BY <1>3 DEF Kept, SameTuning
  <2> HIDE DEF a
  <2>6. Kept(n + 1, a)
    BY <1>1, <1>4, <1>6, <2>3, <2>4, <2>5 DEF Kept, op
  <2> QED
    BY <2>6 DEF a, op
<1>7. CASE op.kind # "push" /\ N = 1
  <2>1. a = s
    BY <1>7 DEF Apply
  <2>2. ~Last(s.stack).fresh
    BY <1>2, <1>7 DEF FreshOnTop
  <2>3. Kept(n + 1, s)
    BY <1>4, <1>7, <2>2 DEF Kept
  <2> QED
    BY <2>1, <2>3
<1>8. ASSUME op.kind # "push", NEW d \in Services, a = [d EXCEPT !.changed = TRUE], NoneFresh(d.stack)
      PROVE  Kept(n + 1, a)
  <2>1. a.stack = d.stack /\ a.changed /\ Len(d.stack) \in Nat \ {0}
    BY <1>8, TopFacts DEF Services
  <2>2. FreshOnTop(a.stack) /\ ~Last(a.stack).fresh
    BY <1>5, <1>8, <2>1
  <2> HIDE DEF a, op
  <2> QED
    BY <1>4, <1>8, <2>1, <2>2 DEF Kept
<1>9. CASE op.kind = "pop" /\ N # 1
  <2>1. Len(h.stack) > 1
    <3>1. \A k \in Nat \ {0} : k # 1 => k > 1
      OBVIOUS
    <3> HIDE DEF h, N, op
    <3> QED
      BY <1>2, <1>3, <1>9, <3>1
  <2>2. DropTop(h) \in Services /\ NoneFresh(DropTop(h).stack)
    BY <1>3, <2>1, DropTopIs, DropTopFresh
  <2>3. a = [DropTop(h) EXCEPT !.changed = TRUE]
    BY <1>9 DEF Apply
  <2> HIDE DEF h, a
  <2>4. Kept(n + 1, a)
    BY <1>8, <1>9, <2>2, <2>3
  <2> QED
    BY <2>4 DEF a
<1>10. CASE op.kind = "root" /\ N # 1
  <2> DEFINE S == {t \in Services : NoneFresh(t.stack)}
  <2>1. h \in S
    BY <1>3
  <2>2. \A t \in Services \cap S : Len(t.stack) > 1 => DropTop(t) \in S
    BY DropTopIs, DropTopFresh
  <2>3. DropAboveRoot(h) \in S \cap Services
    <3> HIDE DEF S, h
    <3> QED
      BY <1>3, <2>1, <2>2, DropAboveRootKeeps
  <2>4. a = [DropAboveRoot(h) EXCEPT !.changed = TRUE]
    BY <1>10 DEF Apply
  <2>5. DropAboveRoot(h) \in Services /\ NoneFresh(DropAboveRoot(h).stack)
    BY <2>3
  <2> HIDE DEF h, a
  <2>6. Kept(n + 1, a)
    BY <1>8, <1>10, <2>4, <2>5
  <2> QED
    BY <2>6 DEF a
<1> QED
  BY <1>1, <1>6, <1>7, <1>9, <1>10

LEMMA AppliedKept ==
  ASSUME IInv, ShownInv
  PROVE  Kept(Len(pending), Applied)
<1> DEFINE N == Len(pending)
           s == [stack |-> stack, radio |-> radio, changed |-> FALSE]
<1>1. N \in Nat /\ pending \in Seq(Ops)
  BY DEF IInv
<1>2. stack \in Seq(ViewSet) \ {<<>>} /\ radio \in RadioSet
  BY DEF IInv, Good, Shape, Owned
<1>3. PICK f \in [0 .. N -> Services] :
            /\ f[0] = s
            /\ \A n \in 1 .. N : f[n] = Apply(f[n - 1], pending[n])
            /\ Applied = f[N]
  BY <1>1, <1>2, AppliedRuns
<1>4. Kept(0, s)
  BY DEF Kept, ShownInv, SameTuning
<1> HIDE DEF s
<1> DEFINE T == {n \in 0 .. N : Kept(n, f[n])}
<1>5. 0 \in T
  BY <1>1, <1>3, <1>4
<1>6. ASSUME NEW n \in 0 .. (N - 1), n \in T PROVE n + 1 \in T
  <2>1. n + 1 \in 1 .. N /\ n + 1 \in 0 .. N /\ (n + 1) - 1 = n /\ n \in 0 .. N
    BY <1>1
  <2>2. f[n] \in Services /\ Kept(n, f[n]) /\ f[n + 1] = Apply(f[n], pending[n + 1])
    BY <1>3, <1>6, <2>1
  <2>3. Kept(n + 1, Apply(f[n], pending[n + 1]))
    BY <2>2, KeptStep
  <2> QED
    BY <2>1, <2>2, <2>3
<1>7. N \in T
  <2> HIDE DEF T, N
  <2>1. \A n \in 0 .. N : n \in T
    BY <1>1, <1>5, <1>6, UpTo
  <2> QED
    BY <1>1, <2>1
<1> QED
  BY <1>3, <1>7

(* on_show() gets the receiver ready.                                      *)
LEMMA ActivateReady ==
  ASSUME NEW s \in Services, FreshOnTop(s.stack),
         LET p == Profile(Last(s.stack).app)
         IN  Last(s.stack).fresh => Sets(p.show, p.needs) \/ Fits(s.radio, p.needs)
  PROVE  LET a == ActivateTop(s)
         IN  a \in Services /\ FreshOnTop(a.stack) /\ Len(a.stack) = Len(s.stack) /\ Ready(Last(a.stack), a.radio)
<1> DEFINE N == Len(s.stack)
           top == Last(s.stack)
           p == Profile(top.app)
           found == [mode |-> s.radio.mode, rate |-> s.radio.rate]
           seen == [top EXCEPT !.found = IF top.shown THEN @ ELSE found, !.shown = TRUE]
           calls == p.show
           x == [radio |-> s.radio, view |-> seen]
           t == Perform(x, calls)
           q == [s.stack EXCEPT ![N] = t.view]
           a == ActivateTop(s)
<1>1. /\ s.stack \in Seq(ViewSet) /\ N \in Nat \ {0} /\ s.radio \in RadioSet
      /\ top = s.stack[N] /\ top \in ViewSet /\ top.app \in AppIds \cup {"menu"}
  BY TopFacts
<1>2. seen \in ViewSet /\ Identity(top, seen) /\ seen.fresh = top.fresh
  <2>1. found \in [mode : Words, rate : Words]
    BY <1>1 DEF RadioSet
  <2> HIDE DEF found
  <2> QED
    BY <1>1, <2>1 DEF ViewSet, Identity
<1>3. x \in Pairs /\ x.radio = s.radio /\ x.view = seen
  BY <1>1, <1>2 DEF Pairs
<1>4. calls \in Seq(Calls) /\ Tunes(p)
  BY <1>1, ProfileCalls, EndingInCalls, ProfilesTune
<1>5. a = [s EXCEPT !.radio = t.radio, !.stack[N] = t.view]
  BY DEF ActivateTop, Returned
<1>6. top.fresh => Sets(calls, p.needs) \/ Fits(s.radio, p.needs)
  OBVIOUS
<1> HIDE DEF seen, x, calls, p, a
<1>7. t \in Pairs /\ Identity(seen, t.view) /\ t.view.fresh = seen.fresh
  BY <1>3, <1>4, PerformViews
<1>8. ASSUME p.ctor = <<>> \/ top.fresh PROVE Fits(t.radio, p.needs)
  <2>1. p.needs.monitor \in {"any", "on", "off"} /\ (Sets(calls, p.needs) \/ (p.ctor # <<>> /\ Spares(calls, p.needs)))
    BY <1>4 DEF Tunes, calls
  <2>2. CASE Sets(calls, p.needs)
    BY <1>3, <1>4, <2>1, <2>2, SetsFits
  <2>3. CASE ~Sets(calls, p.needs)
    <3>1. Spares(calls, p.needs) /\ Fits(x.radio, p.needs)
      BY <1>3, <1>6, <1>8, <2>1, <2>3
    <3> QED
      BY <1>3, <1>4, <2>1, <3>1, SparesFits
  <2> QED
    BY <2>2, <2>3
<1>9. Start \in Range(calls) => Running(t.radio)
  <2>1. Start \in Range(calls) => EndsWith(calls, {Start}, HaltingOps)
    BY <1>4 DEF Tunes, calls
  <2> QED
    BY <1>3, <1>4, <2>1, PerformStartsReceiver
<1> HIDE DEF t
<1>10. t.view \in ViewSet /\ t.radio \in RadioSet
  BY <1>7 DEF Pairs
<1>11. a = [stack |-> q, radio |-> t.radio, changed |-> s.changed] /\ s.changed \in BOOLEAN
  BY <1>5 DEF Services
<1>12. /\ q \in Seq(ViewSet) /\ Len(q) = N /\ q # <<>>
       /\ \A i \in 1 .. N : q[i] = IF i = N THEN t.view ELSE s.stack[i]
  <2>1. DOMAIN s.stack = 1 .. N /\ N # 0
    BY <1>1
  <2>2. q \in Seq(ViewSet) /\ Len(q) = N
    BY <1>1, <1>10
  <2> QED
    BY <2>1, <2>2
<1> HIDE DEF q
<1>13. a.stack = q /\ a.radio = t.radio /\ a \in Services /\ Last(q) = t.view
  BY <1>1, <1>10, <1>11, <1>12 DEF Services, Last
<1>14. FreshOnTop(q)
  <2>1. t.view.fresh = s.stack[N].fresh
    BY <1>1, <1>2, <1>7
  <2> QED
    BY <1>12, <2>1 DEF FreshOnTop
<1>15. t.view.app = top.app /\ t.view.fresh = top.fresh
  BY <1>2, <1>7 DEF Identity
<1>16. Ready(t.view, t.radio)
  BY <1>8, <1>9, <1>15 DEF Ready, p, calls
<1> QED
  BY <1>12, <1>13, <1>14, <1>16 DEF a

(* The Morse sender does not touch the receiver.                           *)
LEMMA TickSpares ==
  ASSUME NEW r \in RadioSet, NEW m \in MorseSet
  PROVE  LET u == Tick([radio |-> r, morse |-> m]).radio
         IN  SameTuning(r, u) /\ u.running = r.running /\ u.open = r.open
<1> DEFINE t == Tick([radio |-> r, morse |-> m])
           Spared(u) == SameTuning(r, u) /\ u.running = r.running /\ u.open = r.open
<1>1. Spared([StopTransmitter(r) EXCEPT !.iq = NoSource])
  <2>1. StopTransmitter(r) \in RadioSet /\ Spared(StopTransmitter(r))
    BY DEF StopTransmitter, RadioSet, SameTuning
  <2> DEFINE x == StopTransmitter(r)
  <2> HIDE DEF x
  <2>2. SameTuning(x, [x EXCEPT !.iq = NoSource]) /\ [x EXCEPT !.iq = NoSource].running = x.running
        /\ [x EXCEPT !.iq = NoSource].open = x.open
    BY <2>1 DEF RadioSet, SameTuning, x
  <2> QED
    BY <2>1, <2>2 DEF x, SameTuning
<1>2. Spared([StartTransmitter(r) EXCEPT !.raw = TRUE, !.iq = WebSource])
  <2>1. StartTransmitter(r) \in RadioSet /\ Spared(StartTransmitter(r))
    BY DEF StartTransmitter, RadioSet, SameTuning
  <2> DEFINE x == StartTransmitter(r)
             y == [x EXCEPT !.raw = TRUE, !.iq = WebSource]
  <2> HIDE DEF x
  <2>2. SameTuning(x, y) /\ y.running = x.running /\ y.open = x.open
    BY <2>1 DEF RadioSet, SameTuning, x
  <2> QED
    BY <2>1, <2>2 DEF x, SameTuning
<1>3. Spared(r)
  BY DEF SameTuning
<1>4. t.radio \in {[StopTransmitter(r) EXCEPT !.iq = NoSource],
                   [StartTransmitter(r) EXCEPT !.raw = TRUE, !.iq = WebSource], r}
  BY DEF Tick
<1> HIDE DEF t, Spared
<1>5. Spared(t.radio)
  BY <1>1, <1>2, <1>3, <1>4
<1> QED
  BY <1>5 DEF t, Spared

LEMMA ReadySame ==
  ASSUME NEW v, NEW r, NEW u, Ready(v, r), SameTuning(r, u), u.running = r.running, u.open = r.open
  PROVE  Ready(v, u)
BY DEF Ready, SameTuning, Fits, Running

LEMMA ServicedReady ==
  ASSUME IInv, OwnerInv, ~PushAfterPop, ShownInv
  PROVE  FreshOnTop(Serviced.stack) /\ Ready(Last(Serviced.stack), Serviced.radio)
<1> DEFINE N == Len(pending)
           s == Applied
           p == Profile(Last(s.stack).app)
<1>1. s \in Services /\ Shape(s.stack) /\ Kept(N, s)
  BY AppliedReached, AppliedKept DEF Reached, Good
<1>2. N \in Nat /\ pending \in Seq(Ops)
  BY DEF IInv
<1>3. ASSUME NEW stk, Shape(stk), ~(Len(stk) > 1), NEW r PROVE Ready(Last(stk), r)
  <2>1. Len(stk) \in Nat /\ Len(stk) > 0 /\ stk[1].kind = "root"
    BY <1>3 DEF Shape
  <2>2. Len(stk) = 1
    <3>1. \A k \in Nat : k > 0 /\ ~(k > 1) => k = 1
      OBVIOUS
    <3> QED
      BY <1>3, <2>1, <3>1
  <2> QED
    BY <2>1, <2>2 DEF Last, Ready
<1>4. CASE ~s.changed
  <2>1. Serviced = s
    BY <1>4 DEF Serviced, Settled
  <2>2. s.stack = stack /\ s.radio = radio /\ (N = 0 \/ Len(stack) = 1)
    BY <1>1, <1>4 DEF Kept
  <2>3. CASE N = 0
    <3>1. pending = <<>>
      BY <1>2, <2>3
    <3> QED
      BY <2>1, <2>2, <3>1 DEF ShownInv, Top
  <2>4. CASE Len(stack) = 1
    <3>1. Shape(stack) /\ ~(Len(stack) > 1)
      BY <1>1, <2>2, <2>4
    <3>2. Ready(Last(stack), radio)
      BY <1>3, <3>1
    <3>3. FreshOnTop(stack)
      BY DEF ShownInv
    <3> QED
      BY <2>1, <2>2, <3>2, <3>3
  <2> QED
    BY <2>2, <2>3, <2>4
<1>5. CASE s.changed
  <2> DEFINE a == ActivateTop(s)
             b == IdleAtRoot(a)
  <2>1. ASSUME Last(s.stack).fresh PROVE Sets(p.show, p.needs) \/ Fits(s.radio, p.needs)
    <3>1. N > 0 /\ pending[N].kind = "push" /\ Last(s.stack) = pending[N].view
      BY <1>1, <1>5, <2>1 DEF Kept
    <3>2. phase = "events" /\ (Sets(p.show, p.needs) \/ Fits(radio, p.needs))
      BY <2>1, <3>1 DEF ShownInv, ReadyToPush
    <3>3. \A m \in 1 .. N : pending[m].kind # "root"
      BY <3>2 DEF IInv, Frame
    <3>4. N \in 1 .. N
      BY <1>2, <3>1
    <3>5. OnlyPushes(N)
      BY <3>1, <3>3, <3>4 DEF OwnerInv, PushesFirst, OnlyPushes
    <3>6. SameTuning(radio, s.radio)
      BY <1>1, <3>5 DEF Kept
    <3> HIDE DEF p, s
    <3> QED
      BY <3>2, <3>6 DEF Fits, SameTuning
  <2>2. FreshOnTop(s.stack)
    BY <1>1 DEF Kept
  <2>3. a \in Services /\ FreshOnTop(a.stack) /\ Len(a.stack) = Len(s.stack) /\ Ready(Last(a.stack), a.radio)
    <3> HIDE DEF s
    <3> QED
      BY <1>1, <2>1, <2>2, ActivateReady
  <2>4. Good(a.stack, a.radio, morse)
    BY <1>1, AppliedReached, ActivateGood DEF Reached
  <2>5. Serviced = b
    BY <1>5 DEF Serviced, Settled
  <2> HIDE DEF a
  <2>6. CASE Len(a.stack) > 1
    <3>1. b = a
      BY <2>6 DEF IdleAtRoot
    <3> QED
      BY <2>3, <2>5, <3>1
  <2>7. CASE ~(Len(a.stack) > 1)
    <3>1. b.stack = a.stack
      BY <2>3, <2>4, IdleGood
    <3>2. Shape(a.stack)
      BY <2>4 DEF Good
    <3>3. Ready(Last(a.stack), b.radio)
      BY <1>3, <2>7, <3>2
    <3> QED
      BY <2>3, <2>5, <3>1, <3>3
  <2> QED
    BY <2>6, <2>7
<1>6. s.changed \in BOOLEAN
  BY <1>1 DEF Services
<1> QED
  BY <1>4, <1>5, <1>6

LEMMA ShownService ==
  ASSUME IInv, OwnerInv, ~PushAfterPop, ShownInv, Service
  PROVE  ShownInv'
<1> DEFINE u == Tick([radio |-> Serviced.radio, morse |-> morse]).radio
<1>1. stack' = Serviced.stack /\ radio' = u /\ pending' = <<>>
  BY DEF Service, Refresh
<1>2. FreshOnTop(Serviced.stack) /\ Ready(Last(Serviced.stack), Serviced.radio)
  BY ServicedReady
<1>3. Serviced.radio \in RadioSet /\ morse \in MorseSet
  BY ServicedGood, InvFacts DEF Services, Asked
<1>4. Ready(Last(Serviced.stack), u)
  <2>1. SameTuning(Serviced.radio, u) /\ u.running = Serviced.radio.running /\ u.open = Serviced.radio.open
    BY <1>3, TickSpares
  <2> HIDE DEF u
  <2> QED
    BY <1>2, <2>1, ReadySame
<1> HIDE DEF u
<1>5. ReadyToPush'
  BY <1>1 DEF ReadyToPush
<1> QED
  BY <1>1, <1>2, <1>4, <1>5 DEF ShownInv, Top

\* The constructor sets the receiver up, if on_show() does not.
LEMMA BuiltReady ==
  ASSUME IInv, NEW app \in AppIds, NEW fresh \in BOOLEAN
  PROVE  LET p == Profile(app)
         IN  Sets(p.show, p.needs) \/ Fits(Built(app, fresh).radio, p.needs)
<1> DEFINE v == View("app", app, FreshId, fresh, 0)
           s == [radio |-> radio, view |-> v]
           p == Profile(app)
<1>1. v \in ViewSet /\ radio \in RadioSet
  BY FreshFacts, ViewIs, InvFacts DEF ViewKinds
<1> HIDE DEF v
<1>2. s \in Pairs
  BY <1>1 DEF Pairs
<1>3. Tunes(p) /\ p.ctor \in Seq(Calls)
  BY ProfilesTune, ProfileCalls, EndingInCalls
<1>4. Built(app, fresh) = Perform(s, p.ctor)
  BY DEF Built, s, v
<1> HIDE DEF s, p
<1>5. p.needs.monitor \in {"any", "on", "off"} /\ (Sets(p.show, p.needs) \/ Sets(p.ctor, p.needs))
  BY <1>3 DEF Tunes
<1>6. Sets(p.ctor, p.needs) => Fits(Perform(s, p.ctor).radio, p.needs)
  BY <1>2, <1>3, <1>5, SetsFits
<1> QED
  BY <1>4, <1>5, <1>6 DEF p

LEMMA ShownStep ==
  ASSUME IInv, IInv', OwnerInv, ~PushAfterPop, ShownInv, [Next]_vars
  PROVE  ShownInv'
<1> DEFINE N == Len(pending)
<1>1. CASE Service
  BY <1>1, ShownService
<1>2. CASE ~Service
  <2>1. AllAlike(stack, stack')
    BY <1>2, AlikeAfterEvents
  <2>2. /\ Top = stack[Len(stack)] /\ Len(stack) \in 1 .. Len(stack) /\ Top \in ViewSet
        /\ WellKinded(Top) /\ Frame /\ radio \in RadioSet /\ pending \in Seq(Ops)
    BY InvFacts DEF IInv
  <2>3. Alike(Top, Top')
    BY <2>1, <2>2 DEF AllAlike, Top, Last
  <2>4. FreshOnTop(stack')
    BY <2>1 DEF AllAlike, Alike, FreshOnTop, ShownInv
  <2>5. CASE UNCHANGED <<pending, radio>> /\ (phase' = phase \/ phase = "sync")
    <3>1. (pending = <<>>)' => Ready(Top, radio)'
      BY <2>3, <2>5, ReadyAlike DEF ShownInv
    <3>2. N > 0 => phase' = phase
      BY <2>2, <2>5 DEF Frame
    <3>3. Top'.kind = Top.kind
      BY <2>3 DEF Alike, Identity
    <3>4. ReadyToPush'
      BY <2>5, <3>2, <3>3 DEF ShownInv, ReadyToPush
    <3> QED
      BY <2>4, <3>1, <3>4 DEF ShownInv
  <2>6. ASSUME UNCHANGED pending, Top.kind \notin {"root", "menu"} PROVE ReadyToPush'
    BY <2>6 DEF ShownInv, ReadyToPush
  <2>7. ASSUME UNCHANGED pending, Top.kind = "app", NEW calls \in Work(Top.app), PerformOnTop(calls)
        PROVE  ShownInv'
    <3>1. radio' = Perform([radio |-> radio, view |-> Top], calls).radio
      BY <2>2, <2>7 DEF PerformOnTop, PerformAt
    <3>2. (pending = <<>>)' => Ready(Top, radio')
      BY <2>2, <2>7, <3>1, WorkReady DEF ShownInv
    <3>3. (pending = <<>>)' => Ready(Top, radio)'
      BY <2>3, <3>2, ReadyAlike
    <3>4. ReadyToPush'
      BY <2>6, <2>7
    <3> QED
      BY <2>4, <3>3, <3>4 DEF ShownInv
  <2>8. CASE Reconnect
    <3>1. UNCHANGED <<stack, pending>> /\ Top.app = "radio"
      BY <2>8 DEF Reconnect
    <3>2. Top.kind = "app"
      BY <2>2, <3>1 DEF WellKinded
    <3>3. Profile("radio") = RadioSetup
      BY DEF Profile, Profiles
    <3>4. RadioSetup.needs = AsItIs /\ Start \notin Range(RadioSetup.show)
      BY DEF RadioSetup, Blank, Range
    <3>5. Ready(Top, radio')
      BY <3>1, <3>3, <3>4 DEF Ready, Fits, AsItIs
    <3>6. Ready(Top, radio)'
      BY <3>1, <3>5 DEF Top
    <3>7. ReadyToPush'
      BY <2>6, <3>1, <3>2
    <3> QED
      BY <2>4, <3>6, <3>7 DEF ShownInv
  <2>9. CASE /\ Len(pending') > 0
             /\ pending'[Len(pending')].kind = "push" => ~pending'[Len(pending')].view.fresh
    <3>1. pending' # <<>> /\ ReadyToPush'
      BY <2>9 DEF ReadyToPush
    <3> QED
      BY <2>4, <3>1 DEF ShownInv
  <2>10. ASSUME NEW app \in Apps, Select(app) PROVE ShownInv'
    <3> DEFINE b == Built(app, TRUE)
    <3>1. app \in AppIds
      BY AppsAssumption
    <3>2. /\ UNCHANGED <<stack, phase>> /\ phase = "events" /\ radio' = b.radio
          /\ Top.kind \in {"root", "menu"} /\ pending' = Append(pending, PushOp(b.view))
      BY <2>10 DEF Select, Queue
    <3>3. b.view.app = app
      BY <3>1, BuiltGood
    <3>4. Sets(Profile(app).show, Profile(app).needs) \/ Fits(b.radio, Profile(app).needs)
      BY <3>1, BuiltReady
    <3> HIDE DEF b
    <3>5. Len(pending') = N + 1 /\ N \in Nat /\ pending'[Len(pending')] = PushOp(b.view)
      BY <2>2, <3>2
    <3>6. pending'[Len(pending')].view = b.view
      BY <3>5 DEF PushOp
    <3>7. Top' = Top
      BY <3>2 DEF Top
    <3>8. ReadyToPush'
      BY <3>2, <3>3, <3>4, <3>6, <3>7 DEF ReadyToPush
    <3>9. pending' # <<>>
      BY <3>5
    <3> QED
      BY <2>4, <3>8, <3>9 DEF ShownInv
  <2> QED
    BY <1>2, <2>5, <2>7, <2>8, <2>9, <2>10, EventMoves
<1> QED
  BY <1>1, <1>2

(* Whatever ran before, however the application came to the top, and       *)
(* whatever else was queued, launched or chosen in between: the receiver   *)
(* is in the mode, at the rate, with the filter and the monitor that the   *)
(* application on top is built for, and it runs if there is a device.  As  *)
(* with the prompts, no event handler pushes after a pop.                  *)
THEOREM ShownConfigured == Spec => [](~PushAfterPop => ShownAsConfigured)
<1> DEFINE Inv == OwnerInv /\ (~PushAfterPop => ShownInv)
<1>1. Init => Inv
  <2> SUFFICES ASSUME Init PROVE OwnerInv /\ ShownInv
    OBVIOUS
  <2>1. /\ Len(stack) = 1 /\ stack[1].kind = "root" /\ ~stack[1].fresh /\ pending = <<>>
        /\ Top = stack[1]
    <3>1. IInv
      BY InitIInv
    <3>2. Len(stack) = 1 /\ pending = <<>> /\ stack[1] = [Root EXCEPT !.shown = TRUE]
      BY DEF Init
    <3>3. ~[Root EXCEPT !.shown = TRUE].fresh
      BY DEF Root, View
    <3> QED
      BY <3>1, <3>2, <3>3, InvFacts DEF Shape
  <2>2. Attended(stack) /\ PushesFirst
    BY <2>1 DEF Attended, Covers, PushesFirst
  <2>3. FreshOnTop(stack) /\ Ready(Top, radio) /\ ReadyToPush
    BY <2>1 DEF FreshOnTop, Ready, ReadyToPush
  <2> QED
    BY <2>2, <2>3 DEF OwnerInv, ShownInv
<1>2. IInv /\ IInv' /\ Inv /\ [Next]_vars => Inv'
  BY OwnerStep, ShownStep
<1>3. IInv /\ Inv => (~PushAfterPop => ShownAsConfigured)
  <2> SUFFICES ASSUME IInv, ShownInv, phase = "sync", Top.kind = "app"
               PROVE  /\ (Profile(Top.app).ctor = <<>> \/ Top.fresh) => Configured(Top)
                      /\ (Start \in Range(Profile(Top.app).show) /\ radio.open) => radio.running
    BY DEF ShownAsConfigured
  <2>1. Ready(Top, radio)
    BY DEF IInv, Frame, ShownInv
  <2> QED
    BY <2>1 DEF Ready, Fits, Running, Configured
<1> QED
  <2> HIDE DEF Inv
  <2> QED
    BY <1>1, <1>2, <1>3, Invariant, PTL DEF Spec

-----------------------------------------------------------------------------
(* The settings that an application gives back.                            *)

Gives(v) == Profile(v.app).gives

\* What the view saved when it was first shown is what it found.
Remembers(v) ==
    Gives(v) # {} =>
        IF v.shown
        THEN /\ "mode" \in Gives(v) => v.saved.mode = v.found.mode
             /\ "rate" \in Gives(v) => v.saved.rate = v.found.rate
             /\ Profile(v.app).dtor = <<RestoreIfSaved>> => v.saved.valid
        ELSE ~v.saved.valid

\* Something can come to lie over the application.
Coverable(app) == Profile(app).pages \/ Profile(app).confirm \/ Profile(app).opens # {}

Harmless(v) == v.kind \in Covers \cup {"app"} /\ Gives(v) = {}

\* w may lie over v.
MayCover(w, v) == (v.kind = "app" /\ v.shown) => Coverable(v.app) /\ Harmless(w)

FoundStack(stk) ==
    /\ \A i \in 1 .. Len(stk) : Remembers(stk[i])
    /\ \A i, j \in 1 .. Len(stk) : i < j => MayCover(stk[j], stk[i])

GivesBack(v, r) ==
    /\ "mode" \in Gives(v) => r.mode = v.found.mode
    /\ "rate" \in Gives(v) => r.rate = v.found.rate

\* Views are hidden and destroyed from the top.
Retains(stk, q) == Len(q) <= Len(stk) /\ \A i \in 1 .. Len(q) : Recalls(stk[i], q[i])

LEMMA RetainsTwice ==
  ASSUME NEW a \in Seq(ViewSet), NEW b \in Seq(ViewSet), NEW c \in Seq(ViewSet),
         Retains(a, b), Retains(b, c)
  PROVE  Retains(a, c)
<1>1. Len(a) \in Nat /\ Len(b) \in Nat /\ Len(c) \in Nat
  OBVIOUS
<1>2. Len(c) <= Len(a) /\ \A i \in 1 .. Len(c) : i \in 1 .. Len(b)
  BY <1>1 DEF Retains
<1> QED
  BY <1>2 DEF Retains, Recalls, Identity

LEMMA RetainsFound ==
  ASSUME NEW a \in Seq(ViewSet), NEW b \in Seq(ViewSet), Retains(a, b), FoundStack(a)
  PROVE  FoundStack(b)
<1>1. \A i \in 1 .. Len(b) : i \in 1 .. Len(a) /\ Recalls(a[i], b[i])
  BY DEF Retains
<1>2. ASSUME NEW v, NEW w, Recalls(v, w), Remembers(v) PROVE Remembers(w)
  BY <1>2 DEF Recalls, Identity, Remembers, Gives
<1>3. ASSUME NEW v, NEW w, Recalls(v, w), NEW x, NEW y, Recalls(x, y), MayCover(x, v) PROVE MayCover(y, w)
  BY <1>3 DEF Recalls, Identity, MayCover, Harmless, Gives
<1>4. \A i \in 1 .. Len(b) : Remembers(b[i])
  BY <1>1, <1>2 DEF FoundStack
<1>5. \A i, j \in 1 .. Len(b) : i < j => MayCover(b[j], b[i])
  BY <1>1, <1>3 DEF FoundStack
<1> QED
  BY <1>4, <1>5 DEF FoundStack

LEMMA PerformOne ==
  ASSUME NEW s \in Pairs, NEW c \in Calls
  PROVE  Perform(s, <<c>>) = Do(s, c)
<1> DEFINE calls == <<c>>
           S == {Do(s, c)}
<1>1. calls \in Seq(Calls) /\ calls # <<>> /\ calls[1] = c /\ Len(calls) = 1
  OBVIOUS
<1> HIDE DEF calls
<1>2. \A i \in 2 .. Len(calls) : FALSE
  BY <1>1
<1>3. Do(s, calls[1]) \in S /\ \A t \in Pairs \cap S, i \in 2 .. Len(calls) : Do(t, calls[i]) \in S
  BY <1>1, <1>2
<1>4. Perform(s, calls) \in S
  <2> HIDE DEF S
  <2> QED
    BY <1>1, <1>3, PerformStarts
<1> QED
  BY <1>4 DEF calls

(* The destructor gives the settings back.                                 *)
LEMMA DtorGivesBack ==
  ASSUME NEW s \in Pairs, s.view.shown, Remembers(s.view)
  PROVE  GivesBack(s.view, Perform(s, Profile(s.view.app).dtor).radio)
<1> DEFINE v == s.view
           p == Profile(v.app)
<1>1. v \in ViewSet /\ s.radio \in RadioSet /\ v.app \in AppIds \cup {"menu"} /\ v.saved \in SavedSet
  BY DEF Pairs, ViewSet
<1>2. Restores(p)
  BY <1>1, ProfilesRestore
<1> SUFFICES ASSUME Gives(v) # {} PROVE GivesBack(v, Perform(s, p.dtor).radio)
  BY DEF GivesBack
<1>3. /\ "mode" \in Gives(v) => v.saved.mode = v.found.mode
      /\ "rate" \in Gives(v) => v.saved.rate = v.found.rate
      /\ p.dtor = <<RestoreIfSaved>> => v.saved.valid
  BY DEF Remembers
<1>4. /\ RestoreMode \in Calls /\ RestoreMode.op = "restoreMode"
      /\ RestoreModeRate \in Calls /\ RestoreModeRate.op = "restoreModeRate"
      /\ RestoreIfSaved \in Calls /\ RestoreIfSaved.op = "restoreIfSaved"
  BY DEF Calls, QuietCalls, QuietOps, OpeningOps, RestoreMode, RestoreModeRate, RestoreIfSaved, Plain, Words
<1>5. ASSUME NEW r \in RadioSet PROVE RestoreSettings(r, v).mode = v.saved.mode /\ RestoreSettings(r, v).rate = v.saved.rate
  <2>1. SetMode(r, v.saved.mode) \in RadioSet /\ SetMode(r, v.saved.mode).mode = v.saved.mode
    BY <1>1, ReceiverType, ZenonT(60) DEF SetMode, RadioSet, SavedSet, StartReceiver
  <2> DEFINE x == SetMode(r, v.saved.mode)
  <2> HIDE DEF x
  <2>2. x \in RadioSet /\ v.saved.rate \in Words
    BY <1>1, <2>1 DEF SavedSet, x
  <2>3. SetSamplingRate(x, v.saved.rate).mode = x.mode /\ SetSamplingRate(x, v.saved.rate).rate = v.saved.rate
    BY <2>2 DEF SetSamplingRate, StartReceiver, StopReceiver, RadioSet
  <2> QED
    BY <2>1, <2>3 DEF RestoreSettings, x
<1>6. CASE p.dtor = <<RestoreIfSaved>>
  <2>1. Perform(s, p.dtor) = Do(s, RestoreIfSaved)
    BY <1>4, <1>6, PerformOne
  <2> DEFINE r == IF v.saved.running THEN s.radio ELSE StopReceiver(s.radio)
  <2>2. r \in RadioSet
    BY <1>1, ReceiverType DEF Words
  <2>3. Do(s, RestoreIfSaved) = [s EXCEPT !.radio = RestoreSettings(r, v)]
    BY <1>3, <1>4, <1>6 DEF Do
  <2> HIDE DEF r
  <2>4. Do(s, RestoreIfSaved).radio = RestoreSettings(r, v)
    BY <2>3 DEF Pairs
  <2> QED
    BY <1>3, <1>5, <2>1, <2>2, <2>4 DEF GivesBack
<1>7. CASE p.dtor = <<RestoreModeRate>>
  <2>1. Perform(s, p.dtor) = Do(s, RestoreModeRate)
    BY <1>4, <1>7, PerformOne
  <2>2. Do(s, RestoreModeRate) = [s EXCEPT !.radio = RestoreSettings(s.radio, v)]
    BY <1>4 DEF Do
  <2>3. Do(s, RestoreModeRate).radio = RestoreSettings(s.radio, v)
    BY <2>2 DEF Pairs
  <2> QED
    BY <1>1, <1>3, <1>5, <2>1, <2>3 DEF GivesBack
<1>8. CASE p.dtor = <<RestoreMode>> /\ p.gives = {"mode"}
  <2>1. Perform(s, p.dtor) = Do(s, RestoreMode)
    BY <1>4, <1>8, PerformOne
  <2>2. Do(s, RestoreMode) = [s EXCEPT !.radio = SetMode(s.radio, v.saved.mode)]
    BY <1>4 DEF Do
  <2>3. Do(s, RestoreMode).radio = SetMode(s.radio, v.saved.mode)
    BY <2>2 DEF Pairs
  <2>4. SetMode(s.radio, v.saved.mode).mode = v.saved.mode
    BY <1>1, ReceiverType DEF SetMode, RadioSet, SavedSet, StartReceiver
  <2>5. "mode" \in Gives(v) /\ "rate" \notin Gives(v)
    BY <1>8 DEF Gives
  <2> QED
    BY <1>3, <2>1, <2>3, <2>4, <2>5 DEF GivesBack
<1> QED
  BY <1>2, <1>6, <1>7, <1>8 DEF Restores, Gives

(* on_show() saves what it finds, the first time.                          *)
LEMMA ActivateRemembers ==
  ASSUME NEW s \in Services, Remembers(Last(s.stack)),
         LET top == Last(s.stack) IN (Gives(top) # {} /\ top.shown) => Coverable(top.app)
  PROVE  LET q == ActivateTop(s).stack
             N == Len(s.stack)
         IN  /\ Len(q) = N /\ \A i \in 1 .. N : i # N => q[i] = s.stack[i]
             /\ Identity(s.stack[N], q[N]) /\ Remembers(q[N])
<1> DEFINE N == Len(s.stack)
           top == Last(s.stack)
           p == Profile(top.app)
           found == [mode |-> s.radio.mode, rate |-> s.radio.rate]
           seen == [top EXCEPT !.found = IF top.shown THEN @ ELSE found, !.shown = TRUE]
           calls == p.show
           x == [radio |-> s.radio, view |-> seen]
           t == Perform(x, calls)
           q == [s.stack EXCEPT ![N] = t.view]
           a == ActivateTop(s)
<1>1. /\ s.stack \in Seq(ViewSet) /\ N \in Nat \ {0} /\ s.radio \in RadioSet
      /\ top = s.stack[N] /\ top \in ViewSet /\ top.app \in AppIds \cup {"menu"}
  BY TopFacts
<1>2. /\ seen \in ViewSet /\ Identity(top, seen) /\ seen.shown /\ seen.saved = top.saved
      /\ seen.found = IF top.shown THEN top.found ELSE found
  <2>1. found \in [mode : Words, rate : Words]
    BY <1>1 DEF RadioSet
  <2> HIDE DEF found
  <2> QED
    BY <1>1, <2>1 DEF ViewSet, Identity
<1>3. x \in Pairs /\ x.radio = s.radio /\ x.view = seen
  BY <1>1, <1>2 DEF Pairs
<1>4. calls \in Seq(Calls) /\ Restores(p)
  BY <1>1, ProfileCalls, EndingInCalls, ProfilesRestore
<1>5. a = [s EXCEPT !.radio = t.radio, !.stack[N] = t.view]
  BY DEF ActivateTop, Returned
<1> HIDE DEF seen, x, calls, p, a
<1>6. t \in Pairs /\ Identity(seen, t.view) /\ t.view.shown = seen.shown /\ t.view.found = seen.found
  BY <1>3, <1>4, PerformViews
<1>7. Identity(top, t.view) /\ t.view.app = top.app /\ Gives(t.view) = p.gives /\ Gives(top) = p.gives
  BY <1>2, <1>6 DEF Identity, Gives, p
<1>8. ASSUME p.gives # {} PROVE Remembers(t.view)
  <2> DEFINE u == Do(x, calls[1])
             S == {y \in Pairs : y.view.saved = u.view.saved}
  <2>1. calls # <<>> /\ \A n \in 2 .. Len(calls) : calls[n].op \notin SaveOps
    BY <1>4, <1>8 DEF Restores, calls
  <2>2. \A n \in 1 .. Len(calls) : calls[n] \in Calls
    BY <1>4
  <2>3. 1 \in 1 .. Len(calls)
    BY <1>4, <2>1
  <2>4. u \in Pairs
    BY <1>3, <2>2, <2>3, DoType
  <2>5. u \in S
    BY <2>4
  <2>6. ASSUME NEW y \in Pairs \cap S, NEW i \in 2 .. Len(calls) PROVE Do(y, calls[i]) \in S
    <3>1. i \in 1 .. Len(calls) /\ calls[i] \in Calls /\ calls[i].op \notin SaveOps
      BY <2>1, <2>2
    <3>2. Do(y, calls[i]) \in Pairs /\ Do(y, calls[i]).view.saved = y.view.saved
      BY <3>1, DoType, CallViews
    <3> QED
      BY <3>2
  <2> HIDE DEF S
  <2>7. t \in S
    BY <1>3, <1>4, <2>1, <2>5, <2>6, PerformStarts
  <2>8. t.view.saved = u.view.saved
    BY <2>7 DEF S
  <2>9. /\ SaveOnce.op = "saveOnce" /\ SaveBoth.op = "saveBoth" /\ SaveMode.op = "saveMode"
        /\ RestoreMode # RestoreIfSaved /\ RestoreModeRate # RestoreIfSaved
    BY DEF SaveOnce, SaveBoth, SaveMode, RestoreMode, RestoreModeRate, RestoreIfSaved, Plain
  <2>10. /\ top.shown => /\ "mode" \in p.gives => top.saved.mode = top.found.mode
                         /\ "rate" \in p.gives => top.saved.rate = top.found.rate
                         /\ p.dtor = <<RestoreIfSaved>> => top.saved.valid
         /\ ~top.shown => ~top.saved.valid
    BY <1>7, <1>8 DEF Remembers, p
  <2>11. top.shown \in BOOLEAN /\ seen.saved \in SavedSet /\ t.view.shown
    BY <1>1, <1>2, <1>6 DEF ViewSet
  <2>12. found.mode = s.radio.mode /\ found.rate = s.radio.rate
    OBVIOUS
  <2>13. ASSUME /\ "mode" \in p.gives => u.view.saved.mode = seen.found.mode
                /\ "rate" \in p.gives => u.view.saved.rate = seen.found.rate
                /\ p.dtor = <<RestoreIfSaved>> => u.view.saved.valid
         PROVE  Remembers(t.view)
    BY <1>6, <1>7, <2>8, <2>11, <2>13 DEF Remembers, p
  <2>14. CASE calls[1] = SaveOnce
    <3>1. CASE seen.saved.valid
      <4>1. u = x
        BY <1>3, <2>9, <2>14, <3>1 DEF Do
      <4>2. top.shown
        BY <1>2, <2>10, <3>1
      <4> HIDE DEF u
      <4> QED
        BY <1>2, <1>3, <2>10, <2>13, <4>1, <4>2
    <3>2. CASE ~seen.saved.valid
      <4> DEFINE saved == [valid |-> TRUE, mode |-> s.radio.mode, rate |-> s.radio.rate, running |-> s.radio.running]
      <4>1. u = [x EXCEPT !.view.saved = saved]
        BY <1>3, <2>9, <2>14, <3>2 DEF Do
      <4>2. u.view.saved = saved
        <5> HIDE DEF saved, u
        <5> QED
          BY <1>2, <1>3, <4>1 DEF Pairs, ViewSet
      <4>3. CASE ~top.shown
        <5>1. seen.found = found
          BY <1>2, <4>3
        <5> HIDE DEF u, found
        <5> QED
          BY <2>12, <2>13, <4>2, <5>1
      <4>4. CASE top.shown
        <5>1. p.dtor # <<RestoreIfSaved>>
          BY <1>2, <2>10, <3>2, <4>4
        <5>2. calls[1] \in {SaveBoth, SaveMode}
          BY <1>4, <1>8, <5>1 DEF Restores, calls
        <5> QED
          BY <2>9, <2>14, <5>2
      <4> QED
        BY <4>3, <4>4
    <3> QED
      BY <3>1, <3>2
  <2>15. CASE calls[1] # SaveOnce
    <3>1. /\ ~p.pages /\ p.opens = {} /\ ~p.confirm
          /\ \/ calls[1] = SaveBoth /\ p.dtor = <<RestoreModeRate>>
             \/ p.gives = {"mode"} /\ calls[1] = SaveMode /\ p.dtor = <<RestoreMode>>
      BY <1>4, <1>8, <2>15 DEF Restores, calls
    <3>2. ~top.shown
      BY <1>7, <1>8, <3>1 DEF Coverable, p
    <3>3. p.dtor # <<RestoreIfSaved>> /\ seen.found = found
      <4>1. p.dtor \in {<<RestoreModeRate>>, <<RestoreMode>>}
        BY <3>1
      <4>2. <<RestoreModeRate>> # <<RestoreIfSaved>> /\ <<RestoreMode>> # <<RestoreIfSaved>>
        BY <2>9
      <4> QED
        BY <1>2, <3>2, <4>1, <4>2
    <3>4. CASE calls[1] = SaveBoth
      <4>1. u = [x EXCEPT !.view.saved.mode = s.radio.mode, !.view.saved.rate = s.radio.rate]
        BY <1>3, <2>9, <3>4 DEF Do
      <4>2. u.view.saved.mode = s.radio.mode /\ u.view.saved.rate = s.radio.rate
        <5> HIDE DEF u
        <5> QED
          BY <1>2, <1>3, <2>11, <4>1 DEF Pairs, ViewSet, SavedSet
      <4> HIDE DEF u, found
      <4> QED
        BY <2>12, <2>13, <3>3, <4>2
    <3>5. CASE p.gives = {"mode"} /\ calls[1] = SaveMode
      <4>1. u = [x EXCEPT !.view.saved.mode = s.radio.mode]
        BY <1>3, <2>9, <3>5 DEF Do
      <4>2. u.view.saved.mode = s.radio.mode
        <5> HIDE DEF u
        <5> QED
          BY <1>2, <1>3, <2>11, <4>1 DEF Pairs, ViewSet, SavedSet
      <4>3. "rate" \notin p.gives
        BY <3>5
      <4> HIDE DEF u, found
      <4> QED
        BY <2>12, <2>13, <3>3, <4>2, <4>3
    <3> QED
      BY <3>1, <3>4, <3>5
  <2> QED
    BY <2>14, <2>15
<1> HIDE DEF t
<1>9. Remembers(t.view)
  BY <1>7, <1>8 DEF Remembers
<1>10. t.view \in ViewSet
  BY <1>6 DEF Pairs
<1>11. a.stack = q
  BY <1>5 DEF Services
<1>12. Len(q) = N /\ \A i \in 1 .. N : q[i] = IF i = N THEN t.view ELSE s.stack[i]
  <2>1. DOMAIN s.stack = 1 .. N
    BY <1>1
  <2>2. q \in Seq(ViewSet) /\ Len(q) = N
    BY <1>1, <1>10
  <2> QED
    BY <2>1, <2>2
<1> HIDE DEF q
<1>13. N \in 1 .. N
  BY <1>1
<1> QED
  BY <1>1, <1>7, <1>9, <1>11, <1>12, <1>13 DEF a

-----------------------------------------------------------------------------
(* The settings on the way through service().                              *)

\* The view has not been shown yet, and can lie over what is there now.
New(v) == ~v.shown /\ Remembers(v)

Fitting(v) ==
    /\ v.kind \in Covers => Coverable(Top.app)
    /\ v.kind = "menu" => Top.kind = "root"
    /\ v.kind = "app" => Top.kind \in {"root", "menu"} \/ v.app \in Profile(Top.app).opens

Promised(n) ==
    LET v == pending[n].view
    IN  pending[n].kind = "push" =>
          /\ New(v)
          /\ (n > 1 /\ pending[n - 1].kind = "root" /\ v.kind = "app") \/ Fitting(v)

FoundInv == FoundStack(stack) /\ \A n \in 1 .. Len(pending) : Promised(n)

LEMMA FitsOver ==
  ASSUME IInv, FoundStack(stack), NEW v \in ViewSet, WellKinded(v), v.kind # "root", Fitting(v),
         NEW i \in 1 .. Len(stack)
  PROVE  MayCover(v, stack[i])
<1> DEFINE N == Len(stack)
<1>1. /\ Shape(stack) /\ N \in Nat \ {0} /\ Top = stack[N] /\ Top.app \in AppIds \cup {"menu"}
      /\ WellKinded(Top)
  BY InvFacts
<1> SUFFICES ASSUME stack[i].kind = "app", stack[i].shown
             PROVE  Coverable(stack[i].app) /\ Harmless(v)
  BY DEF MayCover
<1>2. \A app \in {"menu"} : Profile(app).gives = {} /\ Profile(app).opens = {}
  BY MenuIsBlank DEF Blank
<1>3. Profile("audio").gives = {}
  BY DEF Profile, Profiles, AnalogAudio, Blank
<1>4. Restores(Profile(Top.app))
  BY <1>1, ProfilesRestore
<1>5. Top.kind \notin {"root", "menu"}
  <2>1. CASE i = N
    BY <1>1, <2>1
  <2>2. CASE i # N
    <3>1. i < N /\ N \in 1 .. N
      BY <1>1, <2>2
    <3>2. MayCover(Top, stack[i])
      BY <1>1, <3>1 DEF FoundStack
    <3> QED
      BY <3>2 DEF MayCover, Harmless, Covers
  <2> QED
    BY <2>1, <2>2
<1>6. v.kind \in {"app"} \cup Covers
  <2>1. v.kind \in ViewKinds
    BY ViewFacts
  <2>2. v.kind # "menu"
    BY <1>5 DEF Fitting
  <2> QED
    BY <2>1, <2>2 DEF ViewKinds, Covers
<1>7. Harmless(v)
  <2>1. CASE v.kind \in Covers
    <3>1. v.app = "menu"
      BY <2>1 DEF WellKinded, Covers
    <3> QED
      BY <1>2, <2>1, <3>1 DEF Harmless, Gives
  <2>2. CASE v.kind = "app"
    <3>1. v.app = "audio"
      BY <1>4, <1>5, <2>2 DEF Fitting, Restores
    <3> QED
      BY <1>3, <2>2, <3>1 DEF Harmless, Gives
  <2> QED
    BY <1>6, <2>1, <2>2
<1>8. Coverable(Top.app)
  <2>1. v.kind = "app" => Profile(Top.app).opens # {}
    BY <1>5 DEF Fitting
  <2> QED
    BY <1>6, <2>1 DEF Fitting, Coverable
<1>9. CASE i = N
  BY <1>1, <1>7, <1>8, <1>9
<1>10. CASE i # N
  <2>1. i < N /\ N \in 1 .. N
    BY <1>1, <1>10
  <2>2. MayCover(Top, stack[i])
    BY <1>1, <2>1 DEF FoundStack
  <2> QED
    BY <1>7, <2>2 DEF MayCover
<1> QED
  BY <1>9, <1>10

\* A pop and a return to the root: views are hidden and destroyed from the top.
LEMMA ApplyTrimRetains ==
  ASSUME NEW s \in Services, NEW op \in Ops, op.kind # "push"
  PROVE  LET a == Apply(s, op)
         IN  /\ a \in Services /\ Retains(s.stack, a.stack)
             /\ \/ a = s /\ Len(s.stack) = 1
                \/ Len(a.stack) < Len(s.stack)
<1> DEFINE N == Len(s.stack)
           h == HideTop(s)
           a == Apply(s, op)
           T == {t \in Services : Retains(s.stack, t.stack)}
<1>1. /\ s.stack \in Seq(ViewSet) /\ N \in Nat \ {0} /\ s.stack # <<>>
  BY TopFacts DEF Services
<1>2. h \in Services /\ Len(h.stack) = N /\ \A i \in 1 .. Len(h.stack) : Recalls(s.stack[i], h.stack[i])
  BY HideTopSpares
<1> HIDE DEF h
<1>3. h \in T
  BY <1>1, <1>2 DEF Retains
<1>4. ASSUME NEW t \in Services \cap T, Len(t.stack) > 1
      PROVE  DropTop(t) \in T /\ Len(DropTop(t).stack) = Len(t.stack) - 1
  <2>1. DropTop(t) \in Services /\ Len(DropTop(t).stack) = Len(t.stack) - 1
    BY <1>4, DropTopIs
  <2>2. DropTop(t).stack = Front(t.stack)
    <3> DEFINE r == Perform([radio |-> t.radio, view |-> Last(t.stack)], Profile(Last(t.stack).app).dtor).radio
    <3>1. DropTop(t) = [stack |-> Front(t.stack), radio |-> r, changed |-> t.changed]
      BY <1>4, DropTopIs
    <3> HIDE DEF r
    <3> QED
      BY <3>1
  <2>3. t.stack \in Seq(ViewSet) /\ Len(t.stack) \in Nat
    BY TopFacts
  <2>4. \A i \in 1 .. Len(DropTop(t).stack) : DropTop(t).stack[i] = t.stack[i]
    BY <1>4, <2>2, <2>3, FrontFacts
  <2>5. Retains(s.stack, DropTop(t).stack)
    <3>1. Len(t.stack) <= N /\ \A i \in 1 .. Len(t.stack) : Recalls(s.stack[i], t.stack[i])
      BY DEF Retains
    <3>2. Len(DropTop(t).stack) <= N /\ \A i \in 1 .. Len(DropTop(t).stack) : i \in 1 .. Len(t.stack)
      BY <1>1, <2>1, <2>3, <3>1
    <3> QED
      BY <2>4, <3>1, <3>2 DEF Retains
  <2> QED
    BY <2>1, <2>5
<1>5. CASE N = 1
  <2>1. a = s
    BY <1>5 DEF Apply
  <2>2. Retains(s.stack, s.stack)
    BY <1>1 DEF Retains, Recalls, Identity
  <2> QED
    BY <1>5, <2>1, <2>2
<1>6. \A k \in Nat \ {0} : k # 1 => k > 1
  OBVIOUS
<1>7. ASSUME N # 1, NEW d \in Services \cap T, Len(d.stack) < N, a = [d EXCEPT !.changed = TRUE]
      PROVE  a \in Services /\ Retains(s.stack, a.stack) /\ Len(a.stack) < N
  <2>1. a \in Services /\ a.stack = d.stack
    BY <1>7 DEF Services
  <2> HIDE DEF a
  <2> QED
    BY <1>7, <2>1
<1>8. CASE N # 1 /\ op.kind = "pop"
  <2>1. Len(h.stack) > 1
    BY <1>1, <1>2, <1>6, <1>8
  <2>2. DropTop(h) \in Services \cap T /\ Len(DropTop(h).stack) < N
    <3>1. DropTop(h) \in T /\ Len(DropTop(h).stack) = Len(h.stack) - 1
      BY <1>2, <1>3, <1>4, <2>1
    <3> QED
      BY <1>1, <1>2, <3>1
  <2>3. a = [DropTop(h) EXCEPT !.changed = TRUE]
    BY <1>8 DEF Apply, h
  <2> HIDE DEF a, T
  <2> QED
    BY <1>7, <1>8, <2>2, <2>3 DEF a
<1>9. CASE N # 1 /\ op.kind # "pop"
  <2>1. DropAboveRoot(h) \in T \cap Services /\ Len(DropAboveRoot(h).stack) = 1
    <3> HIDE DEF T
    <3> QED
      BY <1>2, <1>3, <1>4, DropAboveRootKeeps
  <2>2. Len(DropAboveRoot(h).stack) < N
    BY <1>1, <1>6, <1>9, <2>1
  <2>3. a = [DropAboveRoot(h) EXCEPT !.changed = TRUE]
    BY <1>9 DEF Apply, h
  <2> HIDE DEF a, T
  <2> QED
    BY <1>7, <1>9, <2>1, <2>2, <2>3 DEF a
<1> QED
  BY <1>5, <1>8, <1>9

\* s is what service() has made of the stack after n operations.
Found(n, s) ==
    /\ FoundStack(s.stack)
    /\ \A i \in 1 .. Len(s.stack) : s.stack[i].shown => i <= Len(stack) /\ Recalls(stack[i], s.stack[i])
    /\ LET top == Last(s.stack)
       IN  (s.changed /\ top.kind = "app" /\ top.shown) => Coverable(top.app)

LEMMA FoundTrim ==
  ASSUME IInv, NEW n \in Nat, NEW s \in Services, Found(n, s), NEW op \in Ops, op.kind # "push"
  PROVE  Found(n + 1, Apply(s, op))
<1> DEFINE a == Apply(s, op)
           N == Len(s.stack)
           M == Len(a.stack)
<1>1. a \in Services /\ Retains(s.stack, a.stack) /\ (a = s \/ M < N)
  BY ApplyTrimRetains
<1> HIDE DEF a
<1>2. /\ s.stack \in Seq(ViewSet) /\ N \in Nat \ {0} /\ a.stack \in Seq(ViewSet) /\ M \in Nat \ {0}
      /\ Last(a.stack) = a.stack[M] /\ M \in 1 .. M
  <2>1. s.stack \in Seq(ViewSet) /\ N \in Nat \ {0}
    BY TopFacts
  <2>2. a.stack \in Seq(ViewSet) /\ M \in Nat \ {0} /\ Last(a.stack) = a.stack[M]
    BY <1>1, TopFacts
  <2> QED
    BY <2>1, <2>2
<1>3. ASSUME a = s PROVE Found(n + 1, a)
  BY <1>3 DEF Found
<1>4. ASSUME M < N PROVE Found(n + 1, a)
  <2>1. FoundStack(a.stack)
    BY <1>1, <1>2, RetainsFound DEF Found
  <2>2. \A i \in 1 .. M : i \in 1 .. N /\ Recalls(s.stack[i], a.stack[i])
    BY <1>1, <1>2 DEF Retains
  <2>3. \A i \in 1 .. M : a.stack[i].shown => i <= Len(stack) /\ Recalls(stack[i], a.stack[i])
    BY <2>2, ZenonT(60) DEF Found, Recalls, Identity
  <2>4. (a.stack[M].kind = "app" /\ a.stack[M].shown) => Coverable(a.stack[M].app)
    <3>1. M \in 1 .. N /\ N \in 1 .. N
      BY <1>2, <1>4
    <3>2. MayCover(s.stack[N], s.stack[M])
      BY <1>4, <3>1 DEF Found, FoundStack
    <3> QED
      BY <1>2, <2>2, <3>2 DEF MayCover, Recalls, Identity
  <2> QED
    BY <1>2, <2>1, <2>3, <2>4 DEF Found
<1> QED
  BY <1>1, <1>3, <1>4 DEF a

LEMMA FoundPush ==
  ASSUME IInv, FoundInv, NEW n \in 0 .. (Len(pending) - 1), NEW s \in Services, Reached(n, s), Found(n, s),
         pending[n + 1].kind = "push"
  PROVE  Found(n + 1, Apply(s, pending[n + 1]))
<1> DEFINE op == pending[n + 1]
           v == op.view
           a == Apply(s, op)
           h == HideTop(s)
           N == Len(s.stack)
<1>1. /\ Len(pending) \in Nat /\ op \in Ops /\ n + 1 \in 1 .. Len(pending) /\ n \in Nat /\ v \in ViewSet
      /\ Queued(n + 1) /\ Promised(n + 1) /\ (n + 1) - 1 = n /\ (n + 1 > 1 => n > 0)
  BY OpFacts DEF IInv, FoundInv
<1>2. a = [stack |-> Append(h.stack, v), radio |-> h.radio, changed |-> TRUE] /\ a \in Services
  <2> HIDE DEF op
  <2> QED
    BY <1>1, ApplyPush DEF op
<1>3. /\ h \in Services /\ Len(h.stack) = N /\ \A i \in 1 .. Len(h.stack) : Recalls(s.stack[i], h.stack[i])
  BY HideTopSpares
<1>4. /\ s.stack \in Seq(ViewSet) /\ h.stack \in Seq(ViewSet) /\ N \in Nat \ {0} /\ Shape(s.stack)
  BY <1>3, TopFacts DEF Reached, Good
<1>5. Len(a.stack) = N + 1 /\ a.stack[N + 1] = v /\ \A i \in 1 .. N : a.stack[i] = h.stack[i]
  <2>1. a.stack = Append(h.stack, v)
    BY <1>2
  <2> HIDE DEF a, h, v
  <2> QED
    BY <1>1, <1>3, <1>4, <2>1
<1>6. /\ New(v) /\ WellKinded(v) /\ v.kind # "root"
      /\ (n > 0 /\ pending[n].kind = "root") \/ Fitting(v)
  BY <1>1 DEF Promised, Queued
<1> HIDE DEF a, h, v, op
<1>7. ASSUME NEW i \in 1 .. N PROVE MayCover(v, h.stack[i])
  <2>1. Recalls(s.stack[i], h.stack[i])
    BY <1>3
  <2>2. CASE n > 0 /\ pending[n].kind = "root"
    <3>1. N = 1
      BY <2>2 DEF Reached
    <3>2. s.stack[i].kind = "root"
      BY <3>1, <1>4 DEF Shape
    <3> QED
      BY <2>1, <3>2 DEF MayCover, Recalls, Identity
  <2>3. CASE Fitting(v) /\ s.stack[i].shown
    <3>1. i <= Len(stack) /\ Recalls(stack[i], s.stack[i])
      BY <2>3 DEF Found
    <3>2. i \in 1 .. Len(stack)
      BY <3>1, InvFacts
    <3>3. MayCover(v, stack[i])
      BY <1>1, <1>6, <2>3, <3>2, FitsOver DEF FoundInv
    <3> QED
      BY <2>1, <3>1, <3>3 DEF MayCover, Recalls, Identity
  <2>4. CASE ~s.stack[i].shown
    BY <2>1, <2>4 DEF MayCover, Recalls
  <2> QED
    BY <1>6, <2>2, <2>3, <2>4
<1>8. FoundStack(h.stack)
  <2>1. Retains(s.stack, h.stack)
    BY <1>3, <1>4 DEF Retains
  <2> QED
    BY <1>4, <2>1, RetainsFound DEF Found
<1>9. \A i \in 1 .. (N + 1) : i \in 1 .. N \/ i = N + 1
  BY <1>4
<1>10. FoundStack(a.stack)
  <2>1. ASSUME NEW i \in 1 .. (N + 1) PROVE Remembers(a.stack[i])
    BY <1>3, <1>5, <1>6, <1>8, <1>9 DEF FoundStack, New
  <2>2. ASSUME NEW i \in 1 .. (N + 1), NEW j \in 1 .. (N + 1), i < j PROVE MayCover(a.stack[j], a.stack[i])
    <3>1. i \in 1 .. N
      BY <1>4, <2>2
    <3>2. CASE j = N + 1
      BY <1>5, <1>7, <3>1, <3>2
    <3>3. CASE j \in 1 .. N
      BY <1>3, <1>5, <1>8, <2>2, <3>1, <3>3 DEF FoundStack
    <3> QED
      BY <1>9, <3>2, <3>3
  <2> QED
    BY <1>5, <2>1, <2>2 DEF FoundStack
<1>11. \A i \in 1 .. (N + 1) : a.stack[i].shown => i <= Len(stack) /\ Recalls(stack[i], a.stack[i])
  <2> TAKE i \in 1 .. (N + 1)
  <2>1. CASE i = N + 1
    BY <1>5, <1>6, <2>1 DEF New
  <2>2. CASE i \in 1 .. N
    <3>1. Recalls(s.stack[i], h.stack[i]) /\ a.stack[i] = h.stack[i]
      BY <1>3, <1>5, <2>2
    <3>2. s.stack[i].shown => i <= Len(stack) /\ Recalls(stack[i], s.stack[i])
      BY <2>2 DEF Found
    <3> QED
      BY <3>1, <3>2 DEF Recalls, Identity
  <2> QED
    BY <1>9, <2>1, <2>2
<1>12. Last(a.stack) = v
  BY <1>5 DEF Last
<1> QED
  BY <1>5, <1>6, <1>10, <1>11, <1>12 DEF Found, New, a, op

LEMMA AppliedFound ==
  ASSUME IInv, FoundInv
  PROVE  Found(Len(pending), Applied)
<1> DEFINE N == Len(pending)
           s == [stack |-> stack, radio |-> radio, changed |-> FALSE]
<1>1. N \in Nat /\ pending \in Seq(Ops)
  BY DEF IInv
<1>2. stack \in Seq(ViewSet) \ {<<>>} /\ radio \in RadioSet
  BY DEF IInv, Good, Shape, Owned
<1>3. PICK f \in [0 .. N -> Services] :
            /\ f[0] = s
            /\ \A n \in 1 .. N : f[n] = Apply(f[n - 1], pending[n])
            /\ Applied = f[N]
  BY <1>1, <1>2, AppliedRuns
<1>4. Found(0, s)
  BY DEF Found, FoundInv, Recalls, Identity
<1>5. Reached(0, s)
  BY ReachedStart
<1> HIDE DEF s
<1> DEFINE T == {n \in 0 .. N : Reached(n, f[n]) /\ Found(n, f[n])}
<1>6. 0 \in T
  BY <1>1, <1>3, <1>4, <1>5
<1>7. ASSUME NEW n \in 0 .. (N - 1), n \in T PROVE n + 1 \in T
  <2>1. n + 1 \in 1 .. N /\ n + 1 \in 0 .. N /\ (n + 1) - 1 = n /\ n \in 0 .. N /\ n \in Nat
    BY <1>1
  <2>2. f[n] \in Services /\ Reached(n, f[n]) /\ Found(n, f[n]) /\ f[n + 1] = Apply(f[n], pending[n + 1])
    BY <1>3, <1>7, <2>1
  <2>3. Reached(n + 1, Apply(f[n], pending[n + 1]))
    BY <2>2, ReachedTrim, ReachedPush
  <2>4. pending[n + 1] \in Ops
    BY <1>1, <2>1
  <2>5. Found(n + 1, Apply(f[n], pending[n + 1]))
    BY <2>1, <2>2, <2>4, FoundTrim, FoundPush
  <2> QED
    BY <2>1, <2>2, <2>3, <2>5
<1>8. N \in T
  <2> HIDE DEF T, N
  <2>1. \A n \in 0 .. N : n \in T
    BY <1>1, <1>6, <1>7, UpTo
  <2> QED
    BY <1>1, <2>1
<1> QED
  BY <1>3, <1>8

\* The views above the n-th have been destroyed.
Gone(t) == {i \in 1 .. Len(stack) : Len(t.stack) < i}

Restored(t) ==
    (\A k \in Gone(t) : stack[k].shown) => \A i \in Gone(t) : GivesBack(stack[i], t.radio)

\* What is destroyed first has given back what the one below it gives back.
LEMMA DropRestores ==
  ASSUME IInv, FoundStack(stack), NEW t \in Services, Len(t.stack) > 1, Retains(stack, t.stack), Restored(t)
  PROVE  LET d == DropTop(t)
         IN  d \in Services /\ Retains(stack, d.stack) /\ Restored(d)
<1> DEFINE N == Len(t.stack)
           w == Last(t.stack)
           calls == Profile(w.app).dtor
           x == [radio |-> t.radio, view |-> w]
           r == Perform(x, calls).radio
           d == DropTop(t)
<1>1. d = [stack |-> Front(t.stack), radio |-> r, changed |-> t.changed] /\ d \in Services
  BY DropTopIs
<1>2. /\ t.stack \in Seq(ViewSet) /\ N \in Nat \ {0} /\ t.radio \in RadioSet
      /\ w = t.stack[N] /\ w \in ViewSet /\ w.app \in AppIds \cup {"menu"} /\ x \in Pairs
  BY TopFacts
<1>3. x.radio = t.radio /\ x.view = w
  OBVIOUS
<1> HIDE DEF x
<1>4. Len(stack) \in Nat /\ Shape(stack) /\ N <= Len(stack) /\ N \in 1 .. Len(stack)
  BY <1>2, InvFacts DEF Retains
<1>5. \A i \in 1 .. N : Recalls(stack[i], t.stack[i])
  BY DEF Retains
<1>6. Recalls(stack[N], w) /\ WellKinded(stack[N])
  BY <1>2, <1>4, <1>5 DEF Shape
<1>7. d.stack = Front(t.stack) /\ d.radio = r
  <2> HIDE DEF r, d
  <2> QED
    BY <1>1
<1> HIDE DEF r, d
<1>8. Len(d.stack) = N - 1 /\ \A i \in 1 .. (N - 1) : d.stack[i] = t.stack[i]
  <2>1. Len(Front(t.stack)) = N - 1 /\ \A i \in 1 .. Len(Front(t.stack)) : Front(t.stack)[i] = t.stack[i]
    BY <1>2, FrontFacts
  <2> QED
    BY <1>7, <2>1
<1>9. Retains(stack, d.stack)
  <2>1. N - 1 <= Len(stack) /\ \A i \in 1 .. (N - 1) : i \in 1 .. N
    BY <1>2, <1>4
  <2> QED
    BY <1>5, <1>8, <2>1 DEF Retains
<1>10. \A i : i \in Gone(d) <=> i = N \/ i \in Gone(t)
  BY <1>2, <1>4, <1>8 DEF Gone
<1>11. ASSUME \A k \in Gone(d) : stack[k].shown, NEW i \in Gone(d)
       PROVE  GivesBack(stack[i], r)
  <2>1. w.shown /\ Remembers(w)
    <3>1. stack[N].shown /\ Remembers(stack[N])
      BY <1>4, <1>10, <1>11 DEF FoundStack
    <3> QED
      BY <1>6, <3>1 DEF Recalls, Identity, Remembers, Gives
  <2>2. GivesBack(w, r)
    BY <1>2, <1>3, <2>1, DtorGivesBack DEF r, calls
  <2>3. CASE i = N
    BY <1>6, <2>2, <2>3 DEF Recalls, Identity, GivesBack, Gives
  <2>4. CASE i \in Gone(t)
    <3>1. GivesBack(stack[i], t.radio) /\ i \in 1 .. Len(stack) /\ N < i
      BY <1>10, <1>11, <2>4 DEF Restored, Gone
    <3>2. CASE Gives(stack[i]) = {}
      BY <3>2 DEF GivesBack
    <3>3. CASE Gives(stack[i]) # {}
      <4>1. MayCover(stack[i], stack[N])
        BY <1>4, <3>1 DEF FoundStack
      <4>2. stack[N].shown
        BY <1>10, <1>11
      <4>3. stack[N].kind # "app"
        BY <3>3, <4>1, <4>2 DEF MayCover, Harmless
      <4>4. w.app = "menu"
        BY <1>6, <4>3 DEF WellKinded, Recalls, Identity
      <4>5. calls = <<>>
        BY <4>4, MenuIsBlank DEF Blank
      <4>6. Perform(x, calls) = x
        BY <1>2, <4>5, PerformNothing
      <4>7. r = t.radio
        BY <1>3, <4>6 DEF r
      <4> QED
        BY <3>1, <4>7
    <3> QED
      BY <3>2, <3>3
  <2> QED
    BY <1>10, <1>11, <2>3, <2>4
<1>12. Restored(d)
  BY <1>7, <1>11 DEF Restored
<1> QED
  BY <1>1, <1>9, <1>12 DEF d

LEMMA TrimRestores ==
  ASSUME IInv, FoundStack(stack), NEW s \in Services, Retains(stack, s.stack), Restored(s),
         NEW op \in Ops, op.kind # "push"
  PROVE  LET a == Apply(s, op) IN Retains(stack, a.stack) /\ Restored(a)
<1> DEFINE N == Len(s.stack)
           h == HideTop(s)
           a == Apply(s, op)
           T == {t \in Services : Retains(stack, t.stack) /\ Restored(t)}
<1>1. s.stack \in Seq(ViewSet) /\ N \in Nat \ {0} /\ stack \in Seq(ViewSet)
  BY TopFacts, InvFacts
<1>2. /\ h \in Services /\ Len(h.stack) = N /\ SameTuning(s.radio, h.radio)
      /\ \A i \in 1 .. Len(h.stack) : Recalls(s.stack[i], h.stack[i])
  BY HideTopSpares
<1> HIDE DEF h
<1>3. h \in T
  <2>1. Retains(s.stack, h.stack) /\ h.stack \in Seq(ViewSet)
    <3>1. h.stack \in Seq(ViewSet)
      BY <1>2, TopFacts
    <3>2. Len(h.stack) <= Len(s.stack)
      BY <1>1, <1>2
    <3> QED
      BY <1>2, <3>1, <3>2 DEF Retains
  <2>2. Retains(stack, h.stack)
    BY <1>1, <2>1, RetainsTwice
  <2>3. Gone(h) = Gone(s)
    BY <1>2 DEF Gone
  <2>4. \A v : GivesBack(v, s.radio) => GivesBack(v, h.radio)
    BY <1>2 DEF GivesBack, SameTuning
  <2>5. Restored(h)
    BY <2>3, <2>4 DEF Restored
  <2> QED
    BY <1>2, <2>2, <2>5
<1>4. \A t \in Services \cap T : Len(t.stack) > 1 => DropTop(t) \in T
  BY DropRestores
<1>5. \A k \in Nat \ {0} : k # 1 => k > 1
  OBVIOUS
<1>6. ASSUME NEW t \in T, a = [t EXCEPT !.changed = TRUE] PROVE Retains(stack, a.stack) /\ Restored(a)
  <2>1. a.stack = t.stack /\ a.radio = t.radio
    BY <1>6 DEF Services
  <2> HIDE DEF a
  <2> QED
    BY <1>6, <2>1 DEF Restored, Gone
<1>7. CASE N = 1
  <2>1. a = s
    BY <1>7 DEF Apply
  <2> QED
    BY <2>1
<1>8. CASE N # 1 /\ op.kind = "pop"
  <2>1. Len(h.stack) > 1
    BY <1>1, <1>2, <1>5, <1>8
  <2>2. DropTop(h) \in T
    BY <1>2, <1>3, <1>4, <2>1
  <2>3. a = [DropTop(h) EXCEPT !.changed = TRUE]
    BY <1>8 DEF Apply, h
  <2> HIDE DEF a, T
  <2> QED
    BY <1>6, <2>2, <2>3 DEF a
<1>9. CASE N # 1 /\ op.kind # "pop"
  <2>1. DropAboveRoot(h) \in T
    <3> HIDE DEF T
    <3> QED
      BY <1>2, <1>3, <1>4, DropAboveRootKeeps
  <2>2. a = [DropAboveRoot(h) EXCEPT !.changed = TRUE]
    BY <1>9 DEF Apply, h
  <2> HIDE DEF a, T
  <2> QED
    BY <1>6, <2>1, <2>2 DEF a
<1> QED
  BY <1>7, <1>8, <1>9

\* A view that was pushed has been destroyed again.
Lost(n, s) ==
    \E m \in 1 .. n :
        /\ pending[m].kind = "push"
        /\ \A i \in 1 .. Len(s.stack) : s.stack[i].id # pending[m].view.id

\* Either what was queued has been shown for nothing, or a view was pushed
\* last, or none was.
Follows(n, s) ==
    \/ Lost(n, s)
    \/ n > 0 /\ pending[n].kind = "push" /\ Last(s.stack) = pending[n].view
    \/ Retains(stack, s.stack) /\ Restored(s)

LEMMA FollowsStep ==
  ASSUME IInv, FoundStack(stack), NEW n \in 0 .. (Len(pending) - 1), NEW s \in Services,
         Reached(n, s), Follows(n, s)
  PROVE  Follows(n + 1, Apply(s, pending[n + 1]))
<1> DEFINE op == pending[n + 1]
           a == Apply(s, op)
           N == Len(s.stack)
<1>1. /\ Len(pending) \in Nat /\ op \in Ops /\ n + 1 \in 1 .. Len(pending) /\ n \in Nat /\ n + 1 > 0
      /\ op.kind = "push" => op.view \in ViewSet
      /\ \A k \in 1 .. Len(pending) : Queued(k)
      /\ \A m \in 1 .. n : m \in 1 .. (n + 1) /\ m \in 1 .. Len(pending) /\ m # n + 1
  BY OpFacts DEF IInv
<1>2. s.stack \in Seq(ViewSet) /\ N \in Nat \ {0} /\ Last(s.stack) = s.stack[N] /\ Shape(s.stack)
  BY TopFacts DEF Reached, Good
<1>3. CASE op.kind = "push"
  <2> DEFINE h == HideTop(s)
             q == Append(h.stack, op.view)
  <2>1. a = [stack |-> q, radio |-> h.radio, changed |-> TRUE]
    <3> HIDE DEF op
    <3> QED
      BY <1>1, <1>3, ApplyPush
  <2>2. h.stack \in Seq(ViewSet) /\ Len(h.stack) \in Nat
    BY HideTopSpares, TopFacts
  <2> HIDE DEF h
  <2>3. Len(q) = Len(h.stack) + 1 /\ q[Len(h.stack) + 1] = op.view
    <3> HIDE DEF op
    <3> QED
      BY <1>1, <1>3, <2>2
  <2>4. a.stack = q
    BY <2>1
  <2> HIDE DEF a, q
  <2>5. Last(a.stack) = op.view
    BY <2>3, <2>4 DEF Last
  <2> QED
    BY <1>1, <1>3, <2>5 DEF Follows, a
<1>4. ASSUME op.kind # "push" PROVE Follows(n + 1, a)
  <2>1. /\ a \in Services /\ Retains(s.stack, a.stack)
        /\ (a = s /\ N = 1) \/ Len(a.stack) < N
    <3> HIDE DEF op
    <3> QED
      BY <1>1, <1>4, ApplyTrimRetains
  <2>2. a.stack \in Seq(ViewSet) /\ Len(a.stack) \in Nat
    BY <2>1, TopFacts
  <2> HIDE DEF a
  <2>3. \A i \in 1 .. Len(a.stack) : i \in 1 .. N /\ a.stack[i].id = s.stack[i].id
    BY <1>2, <2>1, <2>2 DEF Retains, Recalls, Identity
  <2>4. CASE Lost(n, s)
    <3>1. Lost(n + 1, a)
      BY <1>1, <2>3, <2>4 DEF Lost
    <3> QED
      BY <3>1 DEF Follows
  <2>5. CASE n > 0 /\ pending[n].kind = "push" /\ Last(s.stack) = pending[n].view
    <3>1. n \in 1 .. n
      BY <1>1, <2>5
    <3>2. pending[n].view.kind # "root"
      BY <1>1, <2>5, <3>1 DEF Queued
    <3>3. N # 1
      <4>1. 1 \in 1 .. N
        BY <1>2
      <4>2. s.stack[1].kind = "root"
        BY <1>2, <4>1 DEF Shape
      <4> QED
        BY <1>2, <2>5, <3>2, <4>2
    <3>4. Len(a.stack) < N /\ N \in 1 .. N
      BY <1>2, <2>1, <3>3
    <3>5. ASSUME NEW i \in 1 .. Len(a.stack) PROVE a.stack[i].id # pending[n].view.id
      <4>1. i \in 1 .. N /\ i # N
        BY <1>2, <2>2, <2>3, <3>4
      <4>2. s.stack[i].id # s.stack[N].id
        BY <1>2, <3>4, <4>1 DEF Shape
      <4> QED
        BY <1>2, <2>3, <2>5, <4>2
    <3>6. Lost(n + 1, a)
      BY <1>1, <2>5, <3>1, <3>5 DEF Lost
    <3> QED
      BY <3>6 DEF Follows
  <2>6. CASE Retains(stack, s.stack) /\ Restored(s)
    <3>1. Retains(stack, a.stack) /\ Restored(a)
      <4> HIDE DEF op
      <4> QED
        BY <1>1, <1>4, <2>6, TrimRestores DEF a
    <3> QED
      BY <3>1 DEF Follows
  <2> QED
    BY <2>4, <2>5, <2>6 DEF Follows
<1> QED
  BY <1>3, <1>4

LEMMA AppliedFollows ==
  ASSUME IInv, FoundInv
  PROVE  Follows(Len(pending), Applied)
<1> DEFINE N == Len(pending)
           s == [stack |-> stack, radio |-> radio, changed |-> FALSE]
<1>1. N \in Nat /\ pending \in Seq(Ops)
  BY DEF IInv
<1>2. stack \in Seq(ViewSet) \ {<<>>} /\ radio \in RadioSet
  BY DEF IInv, Good, Shape, Owned
<1>3. PICK f \in [0 .. N -> Services] :
            /\ f[0] = s
            /\ \A n \in 1 .. N : f[n] = Apply(f[n - 1], pending[n])
            /\ Applied = f[N]
  BY <1>1, <1>2, AppliedRuns
<1>4. Follows(0, s)
  <2>1. s.stack = stack /\ Len(stack) \in Nat
    BY <1>2
  <2> HIDE DEF s
  <2>2. Retains(stack, s.stack)
    BY <2>1 DEF Retains, Recalls, Identity
  <2>3. Gone(s) = {}
    BY <2>1 DEF Gone
  <2> QED
    BY <2>2, <2>3 DEF Follows, Restored
<1>5. Reached(0, s)
  BY ReachedStart
<1> HIDE DEF s
<1> DEFINE T == {n \in 0 .. N : Reached(n, f[n]) /\ Follows(n, f[n])}
<1>6. 0 \in T
  BY <1>1, <1>3, <1>4, <1>5
<1>7. ASSUME NEW n \in 0 .. (N - 1), n \in T PROVE n + 1 \in T
  <2>1. n + 1 \in 1 .. N /\ n + 1 \in 0 .. N /\ (n + 1) - 1 = n /\ n \in 0 .. N
    BY <1>1
  <2>2. f[n] \in Services /\ Reached(n, f[n]) /\ Follows(n, f[n]) /\ f[n + 1] = Apply(f[n], pending[n + 1])
    BY <1>3, <1>7, <2>1
  <2>3. Reached(n + 1, Apply(f[n], pending[n + 1]))
    BY <2>2, ReachedTrim, ReachedPush
  <2>4. Follows(n + 1, Apply(f[n], pending[n + 1]))
    BY <2>2, FollowsStep DEF FoundInv
  <2> QED
    BY <2>1, <2>2, <2>3, <2>4
<1>8. N \in T
  <2> HIDE DEF T, N
  <2>1. \A n \in 0 .. N : n \in T
    BY <1>1, <1>6, <1>7, UpTo
  <2> QED
    BY <1>1, <2>1
<1> QED
  BY <1>3, <1>8

\* on_show() of the view that is on top in the end.
LEMMA ServicedFound ==
  ASSUME IInv, FoundInv
  PROVE  FoundStack(Serviced.stack)
<1> DEFINE s == Applied
           N == Len(s.stack)
           a == ActivateTop(s)
           q == a.stack
<1>1. s \in Services /\ Found(Len(pending), s) /\ Good(s.stack, s.radio, morse)
  BY AppliedReached, AppliedFound DEF Reached
<1>2. s.stack \in Seq(ViewSet) /\ N \in Nat \ {0} /\ Last(s.stack) = s.stack[N] /\ N \in 1 .. N
      /\ Shape(s.stack) /\ FoundStack(s.stack)
  <2>1. s.stack \in Seq(ViewSet) /\ N \in Nat \ {0} /\ Last(s.stack) = s.stack[N]
    BY <1>1, TopFacts
  <2>2. Shape(s.stack) /\ FoundStack(s.stack)
    BY <1>1 DEF Found, Good
  <2> QED
    BY <2>1, <2>2
<1>3. CASE ~s.changed
  <2>1. Serviced = s
    BY <1>3 DEF Serviced, Settled
  <2> QED
    BY <1>2, <2>1
<1>4. CASE s.changed
  <2>1. a \in Services /\ Good(a.stack, a.radio, morse)
    BY <1>1, ActivateGood
  <2>2. Serviced.stack = q
    <3>1. Serviced = IdleAtRoot(a)
      BY <1>4 DEF Serviced, Settled
    <3> HIDE DEF a
    <3>2. IdleAtRoot(a).stack = a.stack
      BY <2>1, IdleGood
    <3> QED
      BY <3>1, <3>2
  <2>3. Remembers(s.stack[N])
    BY <1>2 DEF FoundStack
  <2>4. (Gives(s.stack[N]) # {} /\ s.stack[N].shown) => Coverable(s.stack[N].app)
    <3>1. s.stack[N].kind # "app" => Gives(s.stack[N]) = {}
      BY <1>2, MenuIsBlank DEF Shape, WellKinded, Gives, Blank
    <3> QED
      BY <1>1, <1>2, <1>4, <3>1 DEF Found
  <2> HIDE DEF s
  <2>5. /\ Len(q) = N /\ \A i \in 1 .. N : i # N => q[i] = s.stack[i]
        /\ Identity(s.stack[N], q[N]) /\ Remembers(q[N])
    BY <1>1, <1>2, <2>3, <2>4, ActivateRemembers
  <2> HIDE DEF a, q
  <2>6. \A i \in 1 .. N : Remembers(q[i])
    BY <1>2, <2>5 DEF FoundStack
  <2>7. ASSUME NEW i \in 1 .. N, NEW j \in 1 .. N, i < j PROVE MayCover(q[j], q[i])
    <3>1. MayCover(s.stack[j], s.stack[i]) /\ q[i] = s.stack[i]
      BY <1>2, <2>5, <2>7 DEF FoundStack
    <3>2. q[j].kind = s.stack[j].kind /\ q[j].app = s.stack[j].app
      BY <2>5 DEF Identity
    <3> QED
      BY <3>1, <3>2 DEF MayCover, Harmless, Gives
  <2> QED
    BY <2>2, <2>5, <2>6, <2>7 DEF FoundStack
<1>5. s.changed \in BOOLEAN
  BY <1>1 DEF Services
<1> QED
  BY <1>3, <1>4, <1>5

\* A menu and the root do nothing when they are shown.
LEMMA MenuTunesNothing ==
  ASSUME IInv, Last(Applied.stack).kind \in {"root", "menu"}
  PROVE  /\ Serviced.radio.mode = Applied.radio.mode
         /\ Serviced.radio.rate = Applied.radio.rate
<1> DEFINE s == Applied
           N == Len(s.stack)
           top == Last(s.stack)
           a == ActivateTop(s)
<1>1. s \in Services /\ Good(s.stack, s.radio, morse)
  BY AppliedReached DEF Reached
<1>2. /\ s.stack \in Seq(ViewSet) /\ N \in Nat \ {0} /\ top = s.stack[N] /\ N \in 1 .. N /\ top \in ViewSet
      /\ s.radio \in RadioSet /\ Shape(s.stack)
  <2>1. /\ s.stack \in Seq(ViewSet) /\ N \in Nat \ {0} /\ top = s.stack[N] /\ top \in ViewSet
        /\ s.radio \in RadioSet
    BY <1>1, TopFacts
  <2>2. Shape(s.stack)
    BY <1>1 DEF Good
  <2> HIDE DEF top
  <2> QED
    BY <2>1, <2>2
<1>3. Profile(top.app).show = <<>>
  <2>1. top.app = "menu"
    BY <1>2 DEF Shape, WellKinded
  <2> QED
    BY <2>1, MenuIsBlank DEF Blank
<1>4. a.radio = s.radio
  <2> DEFINE found == [mode |-> s.radio.mode, rate |-> s.radio.rate]
             seen == [top EXCEPT !.found = IF top.shown THEN @ ELSE found, !.shown = TRUE]
             x == [radio |-> s.radio, view |-> seen]
             t == Perform(x, Profile(top.app).show)
  <2>1. x \in Pairs /\ x.radio = s.radio
    <3>1. found \in [mode : Words, rate : Words]
      BY <1>2 DEF RadioSet
    <3> HIDE DEF found
    <3> QED
      BY <1>2, <3>1 DEF ViewSet, Pairs
  <2>2. a = [s EXCEPT !.radio = t.radio, !.stack[N] = t.view]
    BY DEF ActivateTop, Returned
  <2> HIDE DEF x, s, a
  <2>3. t = x
    BY <1>3, <2>1, PerformNothing
  <2> HIDE DEF t
  <2>4. a.radio = t.radio
    BY <1>1, <2>2 DEF Services
  <2> QED
    BY <2>1, <2>3, <2>4
<1>5. Serviced = s \/ Serviced = IdleAtRoot(a)
  BY DEF Serviced, Settled
<1>6. IdleAtRoot(a).radio.mode = a.radio.mode /\ IdleAtRoot(a).radio.rate = a.radio.rate
  <2>1. a \in Services
    BY <1>1, ActivateGood
  <2> HIDE DEF a
  <2> DEFINE r == a.radio
             u == StopTransmitter(IF r.running THEN StopReceiver(r) ELSE r)
  <2>2. r \in RadioSet
    BY <2>1 DEF Services
  <2>3. IdleAtRoot(a) = a \/ IdleAtRoot(a) = [a EXCEPT !.radio = u]
    BY DEF IdleAtRoot
  <2> HIDE DEF r
  <2>4. u.mode = r.mode /\ u.rate = r.rate
    BY <2>2 DEF StopTransmitter, StopReceiver, RadioSet
  <2> HIDE DEF u
  <2>5. IdleAtRoot(a).radio \in {r, u}
    BY <2>1, <2>3 DEF Services, r
  <2> QED
    BY <2>4, <2>5 DEF r
<1> QED
  BY <1>4, <1>5, <1>6

\* What service() gives back.
LEMMA ServiceGivesBack ==
  ASSUME IInv, FoundInv, Service, Last(stack').kind \in {"root", "menu"},
         EveryPushStays, \A v \in Destroyed : v.shown, NEW v \in Destroyed
  PROVE  GivesBack(v, radio')
<1> DEFINE s == Applied
           N == Len(pending)
           M == Len(s.stack)
           u == Tick([radio |-> Serviced.radio, morse |-> morse]).radio
<1>1. stack' = Serviced.stack /\ radio' = u
  BY DEF Service, Refresh
<1>2. /\ s \in Services /\ Good(s.stack, s.radio, morse) /\ Follows(N, s)
      /\ SameViews(s.stack, stack') /\ Serviced.radio \in RadioSet /\ morse \in MorseSet
  BY <1>1, AppliedReached, AppliedFollows, ServicedGood DEF Reached, Services, IInv, Asked
<1>3. /\ s.stack \in Seq(ViewSet) /\ M \in Nat \ {0} /\ Last(s.stack) = s.stack[M] /\ M \in 1 .. M
      /\ Len(stack') = M /\ \A i \in 1 .. M : Identity(s.stack[i], stack'[i])
  <2>1. s.stack \in Seq(ViewSet) /\ M \in Nat \ {0} /\ Last(s.stack) = s.stack[M]
    BY <1>2, TopFacts
  <2>2. Len(stack') = M /\ \A i \in 1 .. M : Identity(s.stack[i], stack'[i])
    BY <1>2 DEF SameViews
  <2> QED
    BY <2>1, <2>2
<1>4. Last(s.stack).kind \in {"root", "menu"}
  <2>1. Last(stack') = stack'[M]
    BY <1>3 DEF Last
  <2> QED
    BY <1>3, <2>1 DEF Identity
<1>5. u.mode = s.radio.mode /\ u.rate = s.radio.rate
  <2>1. SameTuning(Serviced.radio, u)
    BY <1>2, TickSpares
  <2> QED
    BY <1>4, <2>1, MenuTunesNothing DEF SameTuning
<1> HIDE DEF u, s
<1>6. /\ stack \in Seq(ViewSet) /\ Len(stack) \in Nat \ {0} /\ Shape(stack) /\ DOMAIN stack = 1 .. Len(stack)
      /\ Top = stack[Len(stack)]
  BY InvFacts
<1>7. N \in Nat /\ pending \in Seq(Ops) /\ DOMAIN pending = 1 .. N /\ \A n \in 1 .. N : Queued(n) /\ Promised(n)
  BY DEF IInv, FoundInv
<1>8. Range(stack) = {stack[i] : i \in 1 .. Len(stack)}
  BY <1>6 DEF Range
<1>9. \A w \in Range(stack') : \E i \in 1 .. M : w = stack'[i] /\ w.id = s.stack[i].id
  <2>1. DOMAIN stack' = 1 .. M
    <3>1. stack' \in Seq(ViewSet)
      BY <1>1, ServicedGood DEF Services
    <3> QED
      BY <1>3, <3>1
  <2> QED
    BY <1>3, <2>1 DEF Range, Identity
<1>10. \A i \in 1 .. M : stack'[i] \in Range(stack') /\ stack'[i].id = s.stack[i].id
  <2>1. DOMAIN stack' = 1 .. M
    <3>1. stack' \in Seq(ViewSet)
      BY <1>1, ServicedGood DEF Services
    <3> QED
      BY <1>3, <3>1
  <2> QED
    BY <1>3, <2>1 DEF Range, Identity
<1>11. PICK k \in 1 .. Len(stack) : v = stack[k] /\ \A i \in 1 .. M : stack[k].id # s.stack[i].id
  BY <1>8, <1>10 DEF Destroyed
<1>12. \A i \in 1 .. Len(stack) : (\A j \in 1 .. M : stack[i].id # s.stack[j].id) => stack[i] \in Destroyed
  BY <1>8, <1>9 DEF Destroyed
<1>13. CASE Lost(N, s)
  <2>1. PICK m \in 1 .. N : /\ pending[m].kind = "push"
                            /\ \A i \in 1 .. M : s.stack[i].id # pending[m].view.id
    BY <1>13 DEF Lost
  <2>2. pending[m].view \in ViewSet
    BY <1>7, <2>1, OpFacts
  <2>3. pending[m].view # NoView
    BY <2>2 DEF ViewSet, ViewKinds, NoView, View
  <2>4. pending[m].view \in PendingViews \ {NoView}
    BY <1>7, <2>3 DEF PendingViews
  <2>5. \E w \in Range(stack') : w.id = pending[m].view.id
    BY <2>4 DEF EveryPushStays
  <2> QED
    BY <1>9, <2>1, <2>5
<1>14. CASE N > 0 /\ pending[N].kind = "push" /\ Last(s.stack) = pending[N].view
  <2>1. N \in 1 .. N
    BY <1>7, <1>14
  <2>2. pending[N].view.kind = "menu"
    BY <1>4, <1>7, <1>14, <2>1 DEF Queued
  <2>3. Top.kind = "root"
    BY <1>7, <1>14, <2>1, <2>2 DEF Promised, Fitting
  <2>4. Len(stack) \in 1 .. Len(stack)
    BY <1>6
  <2>5. Len(stack) = 1
    BY <1>6, <2>3, <2>4 DEF Shape
  <2>6. v.app = "menu"
    BY <1>6, <1>11, <2>3, <2>5 DEF Shape, WellKinded
  <2> QED
    BY <2>6, MenuIsBlank DEF GivesBack, Gives, Blank
<1>15. CASE Retains(stack, s.stack) /\ Restored(s)
  <2>1. M <= Len(stack) /\ \A i \in 1 .. M : i \in 1 .. Len(stack) /\ s.stack[i].id = stack[i].id
    BY <1>3, <1>6, <1>15 DEF Retains, Recalls, Identity
  <2>2. k \in Gone(s)
    <3>1. ~(k \in 1 .. M)
      BY <1>11, <2>1
    <3> QED
      BY <1>3, <1>6, <3>1 DEF Gone
  <2>3. ASSUME NEW i \in Gone(s) PROVE stack[i].shown
    <3>1. i \in 1 .. Len(stack) /\ \A j \in 1 .. M : j # i
      BY <1>3, <1>6 DEF Gone
    <3>2. \A j \in 1 .. M : stack[i].id # s.stack[j].id
      BY <1>6, <2>1, <3>1 DEF Shape
    <3> QED
      BY <1>12, <3>1, <3>2
  <2>4. GivesBack(v, s.radio)
    BY <1>11, <1>15, <2>2, <2>3 DEF Restored
  <2> QED
    BY <1>1, <1>5, <2>4 DEF GivesBack
<1> QED
  BY <1>2, <1>13, <1>14, <1>15 DEF Follows

LEMMA BlankPromises ==
  ASSUME NEW kind, NEW id, NEW owner
  PROVE  New(View(kind, "menu", id, FALSE, owner)) /\ View(kind, "menu", id, FALSE, owner).kind = kind
<1> DEFINE v == View(kind, "menu", id, FALSE, owner)
<1>1. ~v.shown /\ v.app = "menu" /\ v.kind = kind
  BY DEF View
<1> HIDE DEF v
<1>2. Gives(v) = {}
  BY <1>1, MenuIsBlank DEF Gives, Blank
<1> QED
  BY <1>1, <1>2 DEF New, Remembers, v

LEMMA BuiltPromises ==
  ASSUME IInv, NEW app \in AppIds, NEW fresh \in BOOLEAN
  PROVE  LET v == Built(app, fresh).view
         IN  New(v) /\ v.kind = "app" /\ v.app = app
<1> DEFINE v == View("app", app, FreshId, fresh, 0)
           s == [radio |-> radio, view |-> v]
           p == Profile(app)
           w == Built(app, fresh).view
<1>1. v \in ViewSet /\ radio \in RadioSet
  BY FreshFacts, ViewIs, InvFacts DEF ViewKinds
<1>2. ~v.shown /\ v.saved = p.fresh /\ v.app = app /\ v.kind = "app"
  BY DEF View
<1> HIDE DEF v
<1>3. s \in Pairs /\ s.view = v
  BY <1>1 DEF Pairs
<1>4. Restores(p) /\ p.ctor \in Seq(Calls)
  BY ProfilesRestore, ProfileCalls, EndingInCalls
<1>5. w = Perform(s, p.ctor).view
  BY DEF Built, s, v
<1> HIDE DEF s, w, p
<1>6. Without(p.ctor, SaveOps)
  BY <1>4 DEF Restores
<1>7. Identity(v, w) /\ w.shown = v.shown /\ w.saved = v.saved
  BY <1>3, <1>4, <1>5, <1>6, PerformViews
<1>8. ~w.shown /\ w.saved = p.fresh /\ w.app = app /\ w.kind = "app"
  BY <1>2, <1>7 DEF Identity
<1>9. Gives(w) # {} => ~p.fresh.valid
  BY <1>4, <1>8 DEF Restores, Gives, p
<1> QED
  BY <1>8, <1>9 DEF New, Remembers, w

\* What the steps other than service() queue.
LEMMA PushesPromise ==
  ASSUME IInv, [Next]_vars, ~Service
  PROVE  \/ UNCHANGED pending
         \/ \E op : pending' = Append(pending, op) /\ (op.kind = "push" => New(op.view) /\ Fitting(op.view))
         \/ \E v : pending' = pending \o <<RootOp, PushOp(v)>> /\ New(v) /\ v.kind = "app"
<1> DEFINE Appends == \E op : pending' = Append(pending, op) /\ (op.kind = "push" => New(op.view) /\ Fitting(op.view))
<1>1. \A v : PushOp(v).view = v /\ PopOp.kind = "pop" /\ RootOp.kind = "root"
  BY DEF PushOp, PopOp, RootOp
<1>2. ASSUME NEW v, Queue(PushOp(v)), New(v), Fitting(v) PROVE Appends
  BY <1>1, <1>2 DEF Queue
<1>3. ASSUME Queue(PopOp) PROVE Appends
  BY <1>1, <1>3 DEF Queue
<1>4. \A app \in Apps : app \in AppIds
  BY AppsAssumption
<1> HIDE DEF Appends
<1>5. ASSUME NEW app \in Apps, Select(app) PROVE Appends
  <2> DEFINE v == Built(app, TRUE).view
  <2>1. Queue(PushOp(v)) /\ Top.kind \in {"root", "menu"}
    BY <1>5 DEF Select
  <2>2. New(v) /\ v.kind = "app"
    BY <1>4, BuiltPromises
  <2> HIDE DEF v
  <2>3. Fitting(v)
    BY <2>1, <2>2 DEF Fitting, Covers
  <2> QED
    BY <1>2, <2>1, <2>2, <2>3
<1>6. ASSUME NEW app \in Apps, OpenApp(app) PROVE Appends
  <2> DEFINE v == Built(app, FALSE).view
  <2>1. Queue(PushOp(v)) /\ app \in Profile(Top.app).opens
    BY <1>6 DEF OpenApp
  <2>2. New(v) /\ v.kind = "app" /\ v.app = app
    BY <1>4, BuiltPromises
  <2> HIDE DEF v
  <2>3. Fitting(v)
    BY <2>1, <2>2 DEF Fitting, Covers
  <2> QED
    BY <1>2, <2>1, <2>2, <2>3
<1>7. ASSUME NEW app \in Apps, PortalLaunch(app)
      PROVE  \E v : pending' = pending \o <<RootOp, PushOp(v)>> /\ New(v) /\ v.kind = "app"
  <2>1. LET v == Built(app, FALSE).view IN New(v) /\ v.kind = "app"
    BY <1>4, BuiltPromises
  <2> QED
    BY <1>7, <2>1 DEF PortalLaunch
<1>8. ASSUME NEW kind \in {"menu", "page", "modal"}, NEW owner, Queue(PushOp(View(kind, "menu", FreshId, FALSE, owner))),
             kind = "menu" => Top.kind = "root",
             kind # "menu" => Coverable(Top.app)
      PROVE  Appends
  <2> DEFINE v == View(kind, "menu", FreshId, FALSE, owner)
  <2>1. New(v) /\ v.kind = kind
    BY BlankPromises
  <2> HIDE DEF v
  <2>2. Fitting(v)
    BY <1>8, <2>1 DEF Fitting, Covers
  <2> QED
    BY <1>2, <1>8, <2>1, <2>2 DEF v
<1>9. ASSUME OpenMenu PROVE Appends
  BY <1>8, <1>9 DEF OpenMenu
<1>10. ASSUME OpenPage PROVE Appends
  BY <1>8, <1>10 DEF OpenPage, Coverable
<1>11. ASSUME PressStart PROVE UNCHANGED pending \/ Appends
  BY <1>8, <1>11 DEF PressStart, Coverable
<1>12. ASSUME Back \/ \E yes \in BOOLEAN : Answer(yes) PROVE Appends
  BY <1>3, <1>12 DEF Back, Answer
<1>13. ASSUME PortalHome PROVE Appends
  <2>1. pending' = Append(pending, RootOp)
    BY <1>13, InvFacts DEF PortalHome, IInv
  <2> QED
    BY <1>1, <2>1 DEF Appends
<1>14. CASE UNCHANGED vars
  BY <1>14 DEF vars
<1>15. CASE PressStop \/ ChooseMode \/ ChooseRate \/ Reconnect \/ FrameSync \/ Exhaust \/ MorseRequest
  BY <1>15 DEF PressStop, ChooseMode, ChooseRate, Reconnect, FrameSync, Exhaust, MorseRequest
<1> QED
  BY <1>5, <1>6, <1>7, <1>9, <1>10, <1>11, <1>12, <1>13, <1>14, <1>15 DEF Next, Appends

LEMMA FoundStep ==
  ASSUME IInv, FoundInv, [Next]_vars
  PROVE  FoundInv'
<1>1. CASE Service
  <2>1. stack' = Serviced.stack /\ pending' = <<>>
    BY <1>1 DEF Service, Refresh
  <2> QED
    BY <2>1, ServicedFound DEF FoundInv
<1>2. CASE ~Service
  <2> DEFINE N == Len(pending)
  <2>1. AllAlike(stack, stack')
    BY <1>2, AlikeAfterEvents
  <2>2. /\ stack \in Seq(ViewSet) /\ Top = stack[Len(stack)] /\ Len(stack) \in 1 .. Len(stack)
        /\ pending \in Seq(Ops) /\ N \in Nat /\ Len(stack) \in Nat
    BY InvFacts DEF IInv
  <2>3. Alike(Top, Top')
    BY <2>1, <2>2 DEF AllAlike, Top, Last
  <2>4. FoundStack(stack')
    <3>1. \A v, w : Alike(v, w) => Recalls(v, w)
      BY DEF Alike, Recalls
    <3>2. \A i \in 1 .. Len(stack) : Recalls(stack[i], stack'[i])
      BY <2>1, <3>1 DEF AllAlike
    <3>3. Len(stack') = Len(stack)
      BY <2>1 DEF AllAlike
    <3>4. \A i \in 1 .. Len(stack') : Remembers(stack'[i])
      BY <3>2, <3>3 DEF FoundInv, FoundStack, Recalls, Identity, Remembers, Gives
    <3>5. ASSUME NEW i \in 1 .. Len(stack), NEW j \in 1 .. Len(stack), i < j
          PROVE  MayCover(stack'[j], stack'[i])
      <4>1. MayCover(stack[j], stack[i])
        BY <3>5 DEF FoundInv, FoundStack
      <4> QED
        BY <3>2, <4>1 DEF Recalls, Identity, MayCover, Harmless, Gives
    <3> QED
      BY <3>3, <3>4, <3>5 DEF FoundStack
  <2>5. \A v : Fitting(v) => Fitting(v)'
    <3>1. Top'.kind = Top.kind /\ Top'.app = Top.app
      BY <2>3 DEF Alike, Identity
    <3> QED
      BY <3>1 DEF Fitting
  <2>6. ASSUME NEW n \in 1 .. N, pending'[n] = pending[n], n > 1 => pending'[n - 1] = pending[n - 1]
        PROVE  Promised(n)'
    <3>1. Promised(n)
      BY DEF FoundInv
    <3> QED
      BY <2>5, <2>6, <3>1 DEF Promised
  <2>7. CASE UNCHANGED pending
    BY <2>4, <2>6, <2>7 DEF FoundInv
  <2>8. ASSUME NEW op, pending' = Append(pending, op), op.kind = "push" => New(op.view) /\ Fitting(op.view)
        PROVE  FoundInv'
    <3>1. Len(pending') = N + 1 /\ pending'[N + 1] = op /\ \A n \in 1 .. N : pending'[n] = pending[n]
      BY <2>2, <2>8
    <3> SUFFICES ASSUME NEW n \in 1 .. Len(pending') PROVE Promised(n)'
      BY <2>4 DEF FoundInv
    <3>2. CASE n \in 1 .. N
      <4>1. n > 1 => n - 1 \in 1 .. N
        BY <2>2, <3>2
      <4> QED
        BY <2>6, <3>1, <3>2, <4>1
    <3>3. CASE n = N + 1
      <4>1. pending'[n] = op
        BY <3>1, <3>3
      <4> QED
        BY <2>5, <2>8, <4>1 DEF Promised
    <3> QED
      BY <2>2, <3>1, <3>2, <3>3
  <2>9. ASSUME NEW v, pending' = pending \o <<RootOp, PushOp(v)>>, New(v), v.kind = "app"
        PROVE  FoundInv'
    <3>1. /\ Len(pending') = N + 2 /\ pending'[N + 1] = RootOp /\ pending'[N + 2] = PushOp(v)
          /\ \A n \in 1 .. N : pending'[n] = pending[n]
      BY <2>2, <2>9
    <3>2. RootOp.kind = "root" /\ PushOp(v).view = v /\ PushOp(v).kind = "push"
      BY DEF RootOp, PushOp
    <3> SUFFICES ASSUME NEW n \in 1 .. Len(pending') PROVE Promised(n)'
      BY <2>4 DEF FoundInv
    <3>3. CASE n \in 1 .. N
      <4>1. n > 1 => n - 1 \in 1 .. N
        BY <2>2, <3>3
      <4> QED
        BY <2>6, <3>1, <3>3, <4>1
    <3>4. CASE n = N + 1
      <4>1. pending'[n].kind # "push"
        BY <3>1, <3>2, <3>4
      <4> QED
        BY <4>1 DEF Promised
    <3>5. CASE n = N + 2
      <4>1. n - 1 = N + 1 /\ n > 1
        BY <2>2, <3>5
      <4>2. pending'[n - 1].kind = "root" /\ pending'[n].view = v
        BY <3>1, <3>2, <3>5, <4>1
      <4> QED
        BY <2>9, <4>1, <4>2 DEF Promised
    <3> QED
      BY <2>2, <3>1, <3>3, <3>4, <3>5
  <2> QED
    BY <1>2, <2>7, <2>8, <2>9, PushesPromise
<1> QED
  BY <1>1, <1>2

\* Only service() ends in the phase that on_frame_sync() follows.
LEMMA OnlyServiceSyncs ==
  ASSUME [Next]_vars, phase' = "sync", phase # "sync"
  PROVE  Service
<1>1. CASE UNCHANGED vars
  BY <1>1 DEF vars
<1>2. CASE \E app \in Apps : Select(app) \/ OpenApp(app) \/ PortalLaunch(app)
  BY <1>2 DEF Select, OpenApp, PortalLaunch
<1>3. CASE OpenMenu \/ Back \/ OpenPage \/ PressStart \/ PressStop \/ \E yes \in BOOLEAN : Answer(yes)
  BY <1>3 DEF OpenMenu, Back, OpenPage, PressStart, PressStop, Answer
<1>4. CASE ChooseMode \/ ChooseRate \/ Reconnect \/ PortalHome \/ FrameSync \/ Exhaust \/ MorseRequest
  BY <1>4 DEF ChooseMode, ChooseRate, Reconnect, PortalHome, FrameSync, Exhaust, MorseRequest
<1> QED
  BY <1>1, <1>2, <1>3, <1>4 DEF Next

(* An application that remembers the receiver's settings gives them back   *)
(* when it is closed to a menu, whatever was chosen, covered or uncovered  *)
(* in between, by whichever operations it was closed: what another         *)
(* application of the same batch leaves is not what the menu is left with, *)
(* unless a view of the batch was destroyed without having been shown.     *)
THEOREM SettingsGivenBack == Spec => FoundIsRestored
<1>1. Init => FoundInv
  <2> SUFFICES ASSUME Init PROVE FoundInv
    OBVIOUS
  <2>1. /\ Len(stack) = 1 /\ stack[1] = [Root EXCEPT !.shown = TRUE] /\ Len(pending) = 0
    BY DEF Init
  <2>2. Gives(stack[1]) = {}
    <3>1. [Root EXCEPT !.shown = TRUE].app = "menu"
      BY DEF Root, View
    <3> QED
      BY <2>1, <3>1, MenuIsBlank DEF Gives, Blank
  <2>3. FoundStack(stack)
    <3>1. \A i, j \in 1 .. Len(stack) : i = 1 /\ ~(i < j)
      BY <2>1
    <3>2. Remembers(stack[1])
      BY <2>2 DEF Remembers
    <3> QED
      BY <3>1, <3>2 DEF FoundStack
  <2> QED
    BY <2>1, <2>3 DEF FoundInv
<1>2. IInv /\ FoundInv /\ [Next]_vars => FoundInv'
  BY FoundStep
<1>3. IInv /\ FoundInv /\ [Next]_vars =>
        ((phase' = "sync" /\ phase # "sync" /\ Last(stack').kind \in {"root", "menu"}
          /\ EveryPushStays /\ \A v \in Destroyed : v.shown) =>
            \A v \in Destroyed :
                /\ "mode" \in Profile(v.app).gives => radio'.mode = v.found.mode
                /\ "rate" \in Profile(v.app).gives => radio'.rate = v.found.rate)
  BY OnlyServiceSyncs, ServiceGivesBack DEF GivesBack, Gives
<1> QED
  BY <1>1, <1>2, <1>3, Invariant, PTL DEF Spec, FoundIsRestored
=============================================================================
