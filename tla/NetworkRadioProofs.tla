------------------------- MODULE NetworkRadioProofs -------------------------
(***************************************************************************)
(* Proofs about NetworkRadio, for every set of settings and values, every  *)
(* reconnect policy and any number of failures.  IInv is the inductive     *)
(* invariant; its parts follow, from who may be where to what is tuned.    *)
(***************************************************************************)
EXTENDS NetworkRadio, TLAPS

Places ==
    Requesting \cup {"idle", "connect", "joinRx", "stopKeepalive", "joinKeepalive", "shut",
                     "establish", "none", "sleeping", "done", "reading", "backoff",
                     "locking", "recovering", "gaveUp"}

\* The owner of the mutex is in the middle of a ladder.
LockInv ==
    /\ (lock = "free") <=> (stage = "none")
    /\ lock = "ui" => pc.ui \in Requesting
    /\ lock = "ka" => pc.ka = "ping"
    /\ lock \in {"ui", "ka"} => stage \in {"establish", "replay", "retry"}
    /\ (lock = "rx") <=> (pc.rx = "recovering")
    /\ lock = "rx" => stage \in {"establish", "replay", "start", "connect"}

\* A ladder that has connected, and a recovery at its next attempt, have one.
TriesInv ==
    /\ pc.rx \in {"locking", "recovering"} => tries.rx < max_attempts
    /\ lock \in {"ui", "ka"} /\ stage = "replay" => tries[lock] < max_attempts

\* The reader runs exactly while it is somewhere, is told to stop only by a
\* call that waits for it, and is gone while a call starts or closes.
ReaderInv ==
    /\ rx_running <=> (pc.rx \notin {"none", "done"})
    /\ rx_running /\ rx_stop => pc.ui = "joinRx"
    /\ pc.ui \in {"startRequest", "connect", "giveUp"} => ~rx_running
    /\ pc.ui \in {"stopRequest", "stopKeepalive", "joinKeepalive", "shut", "establish"}
         => pc.rx = "none"
    /\ pc.ui \in {"shut", "establish"} => pc.ka = "none"

\* What the caller is in the middle of.
CallInv ==
    /\ pc.ui \in {"startRequest", "connect", "giveUp"} => call = "start"
    /\ pc.ui \in {"joinRx", "stopRequest"} => call \in {"stop", "close", "open"}
    /\ pc.ui \in {"stopKeepalive", "joinKeepalive", "shut"} => call \in {"close", "open"}
    /\ pc.ui = "establish" => call = "open"
    /\ pc.ui = "set" => ask \in Settings \X Values
    /\ pc.ui # "ping"

\* A live session is one the client has a connection to; a ladder connects
\* only without one, and a session still to be tuned does not stream.
SessionInv ==
    /\ session = "live" => control = "open"
    /\ stage = "establish" => control # "open"
    /\ stage = "replay" => control = "open" /\ ~armed
    /\ pc.ui = "establish" => control = "null"

\* A connection under a reader, or about to get one, is an open radio, although
\* recover_stream() clears open_ without the mutex when it gives up.
OpenInv ==
    /\ control = "open" /\ stage # "replay"
    /\ pc.rx \notin {"none", "done"} \/ pc.ui \in {"startRequest", "connect"}
    => open

\* A live stream comes from an armed session of an open radio, and has a reader
\* or a call that waits for the reader's end.
StreamInv ==
    stream = "live" =>
        /\ session = "live" /\ armed /\ open
        /\ pc.rx = "reading" \/ (pc.rx = "done" /\ pc.ui = "joinRx")

\* An open radio's session has the caller's settings once they are replayed.
TunedInv == open /\ session = "live" /\ stage # "replay" => Tuned

\* After close() nobody is left who could reconnect.
ClosedInv ==
    call = "close" /\ pc.ui \in {"idle", "set"} =>
        /\ control = "null" /\ link = "Disconnected" /\ ~open /\ session = "none"
        /\ pc.ka = "none" /\ pc.rx = "none" /\ lock = "free"

\* TypeOK, sorted by what the parts are made of, and the shape of pc.
FlagsOK ==
    /\ serverUp \in BOOLEAN /\ armed \in BOOLEAN /\ open \in BOOLEAN /\ receiving \in BOOLEAN
    /\ rx_running \in BOOLEAN /\ rx_stop \in BOOLEAN /\ keepalive_stop \in BOOLEAN

CountsOK ==
    /\ faults \in 0 .. MaxFaults /\ max_attempts \in Policies
    /\ tries \in [Threads -> 0 .. max_attempts]

DataOK ==
    /\ remote \in [Settings -> Known \cup {Default}]
    /\ cached \in [Settings -> Known \cup {Unset}]
    /\ ask \in {NoAsk} \cup (Settings \X Values)

StatesOK ==
    /\ session \in {"none", "live"} /\ control \in {"null", "open", "closed"}
    /\ link \in {"Connected", "Reconnecting", "Disconnected"}
    /\ lock \in Threads \cup {"free"}
    /\ stage \in {"none", "establish", "replay", "retry", "start", "connect"}
    /\ stream \in {"none", "live", "ended", "silent"}
    /\ call \in {"none", "start", "stop", "close", "open"}

PlacesOK ==
    /\ pc \in [Threads -> Places]
    /\ pc.ui \in Requesting \cup {"idle", "connect", "joinRx", "stopKeepalive",
                                  "joinKeepalive", "shut", "establish"}
    /\ pc.ka \in {"none", "sleeping", "ping", "done"}
    /\ pc.rx \in {"none", "reading", "backoff", "locking", "recovering", "gaveUp", "done"}

TypeInv == FlagsOK /\ CountsOK /\ DataOK /\ StatesOK /\ PlacesOK

IInv ==
    /\ TypeInv /\ LockInv /\ TriesInv /\ ReaderInv /\ CallInv /\ SessionInv /\ OpenInv
    /\ StreamInv /\ TunedInv /\ ClosedInv

-----------------------------------------------------------------------------
(* Helpers: what moving a thread, failing and counting do to the types.    *)

LEMMA AllPlaces ==
    /\ Requesting \subseteq Places
    /\ {"set", "startRequest", "giveUp", "stopRequest", "ping", "idle", "connect", "joinRx",
        "stopKeepalive", "joinKeepalive", "shut", "establish", "none", "sleeping", "done",
        "reading", "backoff", "locking", "recovering", "gaveUp"} \subseteq Places
BY DEF Places, Requesting

Moved(ui, ka, rx) ==
    pc' \in [Threads -> Places] /\ pc'.ui = ui /\ pc'.ka = ka /\ pc'.rx = rx

LEMMA UiMoves ==
  ASSUME TypeInv, NEW place \in Places, UiGoesTo(place)
  PROVE  Moved(place, pc.ka, pc.rx)
BY DEF TypeInv, PlacesOK, Moved, UiGoesTo, Threads

LEMMA KaMoves ==
  ASSUME TypeInv, NEW place \in Places, pc' = [pc EXCEPT !.ka = place]
  PROVE  Moved(pc.ui, place, pc.rx)
BY DEF TypeInv, PlacesOK, Moved, Threads

LEMMA RxMoves ==
  ASSUME TypeInv, NEW place \in Places, pc' = [pc EXCEPT !.rx = place]
  PROVE  Moved(pc.ui, pc.ka, place)
BY DEF TypeInv, PlacesOK, Moved, Threads

LEMMA TwoMove ==
  ASSUME TypeInv, NEW u \in Places, NEW k \in Places, NEW r \in Places
  PROVE  /\ pc' = [pc EXCEPT !.ui = u, !.ka = k] => Moved(u, k, pc.rx)
         /\ pc' = [pc EXCEPT !.ui = u, !.rx = r] => Moved(u, pc.ka, r)
         /\ pc' = [pc EXCEPT !.rx = r, !.ui = u] => Moved(u, pc.ka, r)
         /\ pc' = [pc EXCEPT !.ka = k, !.ui = u] => Moved(u, k, pc.rx)
         /\ pc' = pc => Moved(pc.ui, pc.ka, pc.rx)
BY DEF TypeInv, PlacesOK, Moved, Threads

LEMMA FaultsType ==
  ASSUME TypeInv, Fail \/ faults' = faults PROVE faults' \in 0 .. MaxFaults
BY BoundsAssumption DEF TypeInv, CountsOK, Fail

LEMMA TriesReset ==
  ASSUME TypeInv, NEW t \in Threads, tries' = [tries EXCEPT ![t] = 0]
  PROVE  tries' \in [Threads -> 0 .. max_attempts] /\ tries'[t] = 0
BY BoundsAssumption DEF TypeInv, CountsOK

LEMMA TriesCounted ==
  ASSUME TypeInv, NEW t \in Threads, tries[t] < max_attempts,
         tries' = [tries EXCEPT ![t] = @ + 1]
  PROVE  tries' \in [Threads -> 0 .. max_attempts]
BY BoundsAssumption DEF TypeInv, CountsOK

-----------------------------------------------------------------------------
LEMMA EnvironmentStep ==
  ASSUME IInv, Environment
  PROVE  IInv'
<1> USE DEF IInv, TypeInv, server, client, ladder, threads, caller
<1>1. CASE ServerStops
  <2>1. Moved(pc.ui, pc.ka, pc.rx)
    BY ZenonT(40), <1>1, AllPlaces, TwoMove DEF ServerStops, LoseSession
  <2>2. FlagsOK'
    BY <1>1, <2>1 DEF ServerStops, LoseSession, Moved, FlagsOK
  <2>3. StatesOK'
    BY <1>1, <2>1 DEF ServerStops, LoseSession, Moved, StatesOK
  <2>4. CountsOK' /\ DataOK' /\ PlacesOK'
    BY <1>1, <2>1, FaultsType, TriesReset, TriesCounted DEF ServerStops, LoseSession, Moved,
                                                            CountsOK, DataOK, PlacesOK,
                                                            Requesting
  <2>5. LockInv' /\ ReaderInv' /\ CallInv'
    BY <1>1, <2>1 DEF ServerStops, LoseSession, Moved, LockInv, Requesting, FlagsOK,
                      StatesOK, DataOK, ReaderInv, CallInv
  <2>6. TriesInv'
    BY <1>1, <2>1 DEF ServerStops, LoseSession, Moved, CountsOK, TriesInv, LockInv
  <2>7. SessionInv' /\ OpenInv' /\ StreamInv'
    BY <1>1, <2>1 DEF ServerStops, LoseSession, Moved, FlagsOK, StatesOK, LockInv,
                      ReaderInv, SessionInv, OpenInv, StreamInv
  <2>8. TunedInv' /\ ClosedInv'
    BY <1>1, <2>1 DEF ServerStops, LoseSession, Moved, FlagsOK, StatesOK, SessionInv,
                      TunedInv, Tuned, CallInv, ClosedInv
  <2> QED
    BY <2>2, <2>3, <2>4, <2>5, <2>6, <2>7, <2>8
<1>2. CASE ControlDrops
  <2>1. Moved(pc.ui, pc.ka, pc.rx)
    BY ZenonT(40), <1>2, AllPlaces, TwoMove DEF ControlDrops, LoseSession
  <2>2. FlagsOK'
    BY <1>2, <2>1 DEF ControlDrops, LoseSession, Moved, FlagsOK
  <2>3. StatesOK'
    BY <1>2, <2>1 DEF ControlDrops, LoseSession, Moved, StatesOK
  <2>4. CountsOK' /\ DataOK' /\ PlacesOK'
    BY <1>2, <2>1, FaultsType, TriesReset, TriesCounted DEF ControlDrops, LoseSession,
                                                            Moved, CountsOK, DataOK,
                                                            PlacesOK, Requesting
  <2>5. LockInv' /\ ReaderInv' /\ CallInv'
    BY <1>2, <2>1 DEF ControlDrops, LoseSession, Moved, LockInv, Requesting, FlagsOK,
                      StatesOK, DataOK, ReaderInv, CallInv
  <2>6. TriesInv'
    BY <1>2, <2>1 DEF ControlDrops, LoseSession, Moved, CountsOK, TriesInv, LockInv
  <2>7. SessionInv' /\ OpenInv' /\ StreamInv'
    BY <1>2, <2>1 DEF ControlDrops, LoseSession, Moved, FlagsOK, StatesOK, LockInv,
                      ReaderInv, SessionInv, OpenInv, StreamInv
  <2>8. TunedInv' /\ ClosedInv'
    BY <1>2, <2>1 DEF ControlDrops, LoseSession, Moved, FlagsOK, StatesOK, SessionInv,
                      TunedInv, Tuned, CallInv, ClosedInv
  <2> QED
    BY <2>2, <2>3, <2>4, <2>5, <2>6, <2>7, <2>8
<1>3. CASE StreamDrops
  <2>1. Moved(pc.ui, pc.ka, pc.rx)
    BY ZenonT(40), <1>3, AllPlaces, TwoMove DEF StreamDrops
  <2>2. FlagsOK' /\ StatesOK'
    BY <1>3, <2>1 DEF StreamDrops, Moved, FlagsOK, StatesOK
  <2>3. CountsOK' /\ DataOK' /\ PlacesOK'
    BY <1>3, <2>1, FaultsType, TriesReset, TriesCounted DEF StreamDrops, Moved, CountsOK,
                                                            DataOK, PlacesOK, Requesting
  <2>4. LockInv' /\ ReaderInv' /\ CallInv'
    BY <1>3, <2>1 DEF StreamDrops, Moved, LockInv, Requesting, FlagsOK, StatesOK, DataOK,
                      ReaderInv, CallInv
  <2>5. TriesInv'
    BY <1>3, <2>1 DEF StreamDrops, Moved, CountsOK, TriesInv, LockInv
  <2>6. SessionInv' /\ OpenInv' /\ StreamInv'
    BY <1>3, <2>1 DEF StreamDrops, Moved, FlagsOK, StatesOK, LockInv, ReaderInv, SessionInv,
                      OpenInv, StreamInv
  <2>7. TunedInv' /\ ClosedInv'
    BY <1>3, <2>1 DEF StreamDrops, Moved, FlagsOK, StatesOK, SessionInv, TunedInv, Tuned,
                      CallInv, ClosedInv
  <2> QED
    BY <2>2, <2>3, <2>4, <2>5, <2>6, <2>7
<1>4. CASE ServerStarts
  <2>1. Moved(pc.ui, pc.ka, pc.rx)
    BY ZenonT(40), <1>4, AllPlaces, TwoMove DEF ServerStarts
  <2>2. FlagsOK' /\ StatesOK'
    BY <1>4, <2>1 DEF ServerStarts, Moved, FlagsOK, StatesOK
  <2>3. CountsOK' /\ DataOK' /\ PlacesOK'
    BY <1>4, <2>1, FaultsType, TriesReset, TriesCounted DEF ServerStarts, Moved, CountsOK,
                                                            DataOK, PlacesOK, Requesting
  <2>4. LockInv' /\ ReaderInv' /\ CallInv'
    BY <1>4, <2>1 DEF ServerStarts, Moved, LockInv, Requesting, FlagsOK, StatesOK, DataOK,
                      ReaderInv, CallInv
  <2>5. TriesInv'
    BY <1>4, <2>1 DEF ServerStarts, Moved, CountsOK, TriesInv, LockInv
  <2>6. SessionInv' /\ OpenInv' /\ StreamInv'
    BY <1>4, <2>1 DEF ServerStarts, Moved, FlagsOK, StatesOK, LockInv, ReaderInv,
                      SessionInv, OpenInv, StreamInv
  <2>7. TunedInv' /\ ClosedInv'
    BY <1>4, <2>1 DEF ServerStarts, Moved, FlagsOK, StatesOK, SessionInv, TunedInv, Tuned,
                      CallInv, ClosedInv
  <2> QED
    BY <2>2, <2>3, <2>4, <2>5, <2>6, <2>7
<1> QED
  BY <1>1, <1>2, <1>3, <1>4 DEF Environment

LEMMA CallsStep ==
  ASSUME IInv, Calls
  PROVE  IInv'
<1> USE DEF IInv, TypeInv, server, client, ladder, threads, caller
<1>1. CASE \E s \in Settings, v \in Values : CallSet(s, v)
  <2>1. Moved("set", pc.ka, pc.rx)
    BY <1>1, AllPlaces, UiMoves DEF UiAt, CallSet
  <2>2. FlagsOK' /\ StatesOK'
    BY <1>1, <2>1 DEF UiAt, CallSet, Moved, FlagsOK, StatesOK
  <2>3. CountsOK' /\ DataOK' /\ PlacesOK'
    BY <1>1, <2>1, FaultsType, TriesReset, TriesCounted DEF UiAt, CallSet, Moved, CountsOK,
                                                            DataOK, PlacesOK, Requesting
  <2>4. LockInv' /\ ReaderInv' /\ CallInv'
    BY <1>1, <2>1 DEF UiAt, CallSet, Moved, LockInv, Requesting, FlagsOK, StatesOK, DataOK,
                      ReaderInv, CallInv
  <2>5. TriesInv'
    BY <1>1, <2>1 DEF UiAt, CallSet, Moved, CountsOK, TriesInv, LockInv
  <2>6. SessionInv' /\ OpenInv' /\ StreamInv'
    BY <1>1, <2>1 DEF UiAt, CallSet, Moved, FlagsOK, StatesOK, LockInv, ReaderInv,
                      SessionInv, OpenInv, StreamInv
  <2>7. TunedInv' /\ ClosedInv'
    BY <1>1, <2>1 DEF UiAt, CallSet, Moved, FlagsOK, StatesOK, SessionInv, TunedInv, Tuned,
                      CallInv, ClosedInv
  <2> QED
    BY <2>2, <2>3, <2>4, <2>5, <2>6, <2>7
<1>2. CASE CallStartRx
  <2>1. Moved("startRequest", pc.ka, pc.rx)
    BY <1>2, AllPlaces, UiMoves DEF UiAt, CallStartRx
  <2>2. FlagsOK' /\ StatesOK'
    BY <1>2, <2>1 DEF UiAt, CallStartRx, Moved, FlagsOK, StatesOK
  <2>3. CountsOK' /\ DataOK' /\ PlacesOK'
    BY <1>2, <2>1, FaultsType, TriesReset, TriesCounted DEF UiAt, CallStartRx, Moved,
                                                            CountsOK, DataOK, PlacesOK,
                                                            Requesting
  <2>4. LockInv' /\ ReaderInv' /\ CallInv'
    BY <1>2, <2>1 DEF UiAt, CallStartRx, Moved, LockInv, Requesting, FlagsOK, StatesOK,
                      DataOK, ReaderInv, CallInv
  <2>5. TriesInv'
    BY <1>2, <2>1 DEF UiAt, CallStartRx, Moved, CountsOK, TriesInv, LockInv
  <2>6. SessionInv' /\ OpenInv' /\ StreamInv'
    BY <1>2, <2>1 DEF UiAt, CallStartRx, Moved, FlagsOK, StatesOK, LockInv, ReaderInv,
                      SessionInv, OpenInv, StreamInv
  <2>7. TunedInv' /\ ClosedInv'
    BY <1>2, <2>1 DEF UiAt, CallStartRx, Moved, FlagsOK, StatesOK, SessionInv, TunedInv,
                      Tuned, CallInv, ClosedInv
  <2> QED
    BY <2>2, <2>3, <2>4, <2>5, <2>6, <2>7
<1>3. CASE \E c \in {"stop", "close", "open"} : CallStopRx(c) /\ rx_running
  <2>1. Moved("joinRx", pc.ka, pc.rx)
    BY <1>3, AllPlaces, UiMoves DEF UiAt, CallStopRx
  <2>2. FlagsOK' /\ StatesOK'
    BY <1>3, <2>1 DEF UiAt, CallStopRx, Moved, FlagsOK, StatesOK
  <2>3. CountsOK' /\ DataOK' /\ PlacesOK'
    BY <1>3, <2>1, FaultsType, TriesReset, TriesCounted DEF UiAt, CallStopRx, Moved,
                                                            CountsOK, DataOK, PlacesOK,
                                                            Requesting
  <2>4. LockInv' /\ ReaderInv' /\ CallInv'
    BY <1>3, <2>1 DEF UiAt, CallStopRx, Moved, LockInv, Requesting, FlagsOK, StatesOK,
                      DataOK, ReaderInv, CallInv
  <2>5. TriesInv'
    BY <1>3, <2>1 DEF UiAt, CallStopRx, Moved, CountsOK, TriesInv, LockInv
  <2>6. SessionInv' /\ OpenInv' /\ StreamInv'
    BY <1>3, <2>1 DEF UiAt, CallStopRx, Moved, FlagsOK, StatesOK, LockInv, ReaderInv,
                      SessionInv, OpenInv, StreamInv
  <2>7. TunedInv' /\ ClosedInv'
    BY <1>3, <2>1 DEF UiAt, CallStopRx, Moved, FlagsOK, StatesOK, SessionInv, TunedInv,
                      Tuned, CallInv, ClosedInv
  <2> QED
    BY <2>2, <2>3, <2>4, <2>5, <2>6, <2>7
<1>4. CASE \E c \in {"stop", "close", "open"} : CallStopRx(c) /\ ~rx_running
  <2>1. Moved(IF call' = "stop" THEN "idle" ELSE "stopKeepalive", pc.ka, "none")
    BY <1>4, AllPlaces, TwoMove DEF UiAt, CallStopRx
  <2>2. FlagsOK' /\ StatesOK'
    BY <1>4, <2>1 DEF UiAt, CallStopRx, Moved, FlagsOK, StatesOK
  <2>3. CountsOK' /\ DataOK' /\ PlacesOK'
    BY <1>4, <2>1, FaultsType, TriesReset, TriesCounted DEF UiAt, CallStopRx, Moved,
                                                            CountsOK, DataOK, PlacesOK,
                                                            Requesting
  <2>4. LockInv' /\ ReaderInv' /\ CallInv'
    BY <1>4, <2>1 DEF UiAt, CallStopRx, Moved, LockInv, Requesting, ReaderInv, FlagsOK,
                      StatesOK, DataOK, CallInv
  <2>5. TriesInv'
    BY <1>4, <2>1 DEF UiAt, CallStopRx, Moved, CountsOK, TriesInv, LockInv
  <2>6. SessionInv' /\ OpenInv' /\ StreamInv'
    BY <1>4, <2>1 DEF UiAt, CallStopRx, Moved, FlagsOK, StatesOK, LockInv, ReaderInv,
                      SessionInv, OpenInv, StreamInv
  <2>7. TunedInv' /\ ClosedInv'
    BY <1>4, <2>1 DEF UiAt, CallStopRx, Moved, FlagsOK, StatesOK, SessionInv, TunedInv,
                      Tuned, CallInv, ClosedInv
  <2> QED
    BY <2>2, <2>3, <2>4, <2>5, <2>6, <2>7
<1> QED
  BY <1>1, <1>2, <1>3, <1>4 DEF Calls

LEMMA UiStepKeeps ==
  ASSUME IInv, SetOffline \/ StartThread \/ StreamRefused \/ JoinRx \/
               StopKeepalive \/ JoinKeepalive \/ Shut \/ Opened \/ NotOpened
  PROVE  IInv'
<1> USE DEF IInv, TypeInv, server, client, ladder, threads, caller
<1>1. CASE SetOffline
  <2>1. Moved("idle", pc.ka, pc.rx)
    BY <1>1, AllPlaces, UiMoves DEF UiAt, SetOffline
  <2>2. FlagsOK' /\ StatesOK'
    BY <1>1, <2>1 DEF UiAt, SetOffline, Moved, FlagsOK, StatesOK
  <2>3. CountsOK' /\ DataOK' /\ PlacesOK'
    BY <1>1, <2>1, FaultsType, TriesReset, TriesCounted DEF UiAt, SetOffline, Moved,
                                                            CountsOK, DataOK, CallInv,
                                                            Known, PlacesOK, Requesting
  <2>4. LockInv' /\ ReaderInv' /\ CallInv'
    BY <1>1, <2>1 DEF UiAt, SetOffline, Moved, LockInv, Requesting, FlagsOK, StatesOK,
                      DataOK, ReaderInv, CallInv
  <2>5. TriesInv'
    BY <1>1, <2>1 DEF UiAt, SetOffline, Moved, CountsOK, TriesInv, LockInv
  <2>6. SessionInv' /\ OpenInv' /\ StreamInv'
    BY <1>1, <2>1 DEF UiAt, SetOffline, Moved, FlagsOK, StatesOK, LockInv, ReaderInv,
                      SessionInv, OpenInv, StreamInv
  <2>7. TunedInv' /\ ClosedInv'
    BY <1>1, <2>1 DEF UiAt, SetOffline, Moved, FlagsOK, StatesOK, SessionInv, TunedInv,
                      Tuned, Offline, CallInv, ClosedInv
  <2> QED
    BY <2>2, <2>3, <2>4, <2>5, <2>6, <2>7
<1>2. CASE StartThread
  <2>1. Moved("idle", pc.ka, "reading")
    BY <1>2, AllPlaces, TwoMove DEF UiAt, StartThread, Attached
  <2>2. FlagsOK'
    BY <1>2, <2>1 DEF UiAt, StartThread, Attached, Moved, FlagsOK
  <2>3. StatesOK'
    BY <1>2, <2>1 DEF UiAt, StartThread, Attached, Moved, StatesOK
  <2>4. CountsOK' /\ DataOK' /\ PlacesOK'
    BY <1>2, <2>1, FaultsType, TriesReset, TriesCounted DEF UiAt, StartThread, Attached,
                                                            Moved, CountsOK, DataOK,
                                                            PlacesOK, Requesting
  <2>5. LockInv' /\ ReaderInv' /\ CallInv'
    BY <1>2, <2>1 DEF UiAt, StartThread, Attached, Moved, LockInv, Requesting, ReaderInv,
                      FlagsOK, StatesOK, DataOK, CallInv
  <2>6. TriesInv'
    BY <1>2, <2>1 DEF UiAt, StartThread, Attached, Moved, CountsOK, TriesInv, LockInv
  <2>7. SessionInv' /\ OpenInv' /\ StreamInv'
    BY <1>2, <2>1 DEF UiAt, StartThread, Attached, Moved, FlagsOK, StatesOK, LockInv,
                      ReaderInv, SessionInv, OpenInv, StreamInv
  <2>8. TunedInv' /\ ClosedInv'
    BY <1>2, <2>1 DEF UiAt, StartThread, Attached, Moved, FlagsOK, StatesOK, SessionInv,
                      TunedInv, Tuned, CallInv, ClosedInv
  <2> QED
    BY <2>2, <2>3, <2>4, <2>5, <2>6, <2>7, <2>8
<1>3. CASE StreamRefused
  <2>1. Moved("giveUp", pc.ka, pc.rx)
    BY <1>3, AllPlaces, UiMoves DEF UiAt, StreamRefused
  <2>2. FlagsOK' /\ StatesOK'
    BY <1>3, <2>1 DEF UiAt, StreamRefused, Moved, FlagsOK, StatesOK
  <2>3. CountsOK' /\ DataOK' /\ PlacesOK'
    BY <1>3, <2>1, FaultsType, TriesReset, TriesCounted DEF UiAt, StreamRefused, Moved,
                                                            CountsOK, DataOK, PlacesOK,
                                                            Requesting
  <2>4. LockInv' /\ ReaderInv' /\ CallInv'
    BY <1>3, <2>1 DEF UiAt, StreamRefused, Moved, LockInv, Requesting, FlagsOK, StatesOK,
                      DataOK, ReaderInv, CallInv
  <2>5. TriesInv'
    BY <1>3, <2>1 DEF UiAt, StreamRefused, Moved, CountsOK, TriesInv, LockInv
  <2>6. SessionInv' /\ OpenInv' /\ StreamInv'
    BY <1>3, <2>1 DEF UiAt, StreamRefused, Moved, FlagsOK, StatesOK, LockInv, ReaderInv,
                      SessionInv, OpenInv, StreamInv
  <2>7. TunedInv' /\ ClosedInv'
    BY <1>3, <2>1 DEF UiAt, StreamRefused, Moved, FlagsOK, StatesOK, SessionInv, TunedInv,
                      Tuned, CallInv, ClosedInv
  <2> QED
    BY <2>2, <2>3, <2>4, <2>5, <2>6, <2>7
<1>4. CASE JoinRx
  <2>1. Moved("stopRequest", pc.ka, "none")
    BY <1>4, AllPlaces, TwoMove DEF UiAt, JoinRx
  <2>2. FlagsOK'
    BY <1>4, <2>1 DEF UiAt, JoinRx, Moved, FlagsOK
  <2>3. StatesOK'
    BY <1>4, <2>1 DEF UiAt, JoinRx, Moved, StatesOK
  <2>4. CountsOK' /\ DataOK' /\ PlacesOK'
    BY <1>4, <2>1, FaultsType, TriesReset, TriesCounted DEF UiAt, JoinRx, Moved, CountsOK,
                                                            DataOK, PlacesOK, Requesting
  <2>5. LockInv' /\ ReaderInv' /\ CallInv'
    BY <1>4, <2>1 DEF UiAt, JoinRx, Moved, LockInv, Requesting, FlagsOK, StatesOK, DataOK,
                      ReaderInv, CallInv
  <2>6. TriesInv'
    BY <1>4, <2>1 DEF UiAt, JoinRx, Moved, CountsOK, TriesInv, LockInv
  <2>7. SessionInv' /\ OpenInv' /\ StreamInv'
    BY <1>4, <2>1 DEF UiAt, JoinRx, Moved, FlagsOK, StatesOK, LockInv, ReaderInv,
                      SessionInv, OpenInv, StreamInv
  <2>8. TunedInv' /\ ClosedInv'
    BY <1>4, <2>1 DEF UiAt, JoinRx, Moved, FlagsOK, StatesOK, SessionInv, TunedInv, Tuned,
                      CallInv, ClosedInv
  <2> QED
    BY <2>2, <2>3, <2>4, <2>5, <2>6, <2>7, <2>8
<1>5. CASE StopKeepalive
  <2>1. Moved("joinKeepalive", pc.ka, pc.rx)
    BY <1>5, AllPlaces, UiMoves DEF UiAt, StopKeepalive
  <2>2. FlagsOK' /\ StatesOK'
    BY <1>5, <2>1 DEF UiAt, StopKeepalive, Moved, FlagsOK, StatesOK
  <2>3. CountsOK' /\ DataOK' /\ PlacesOK'
    BY <1>5, <2>1, FaultsType, TriesReset, TriesCounted DEF UiAt, StopKeepalive, Moved,
                                                            CountsOK, DataOK, PlacesOK,
                                                            Requesting
  <2>4. LockInv' /\ ReaderInv' /\ CallInv'
    BY <1>5, <2>1 DEF UiAt, StopKeepalive, Moved, LockInv, Requesting, FlagsOK, StatesOK,
                      DataOK, ReaderInv, CallInv
  <2>5. TriesInv'
    BY <1>5, <2>1 DEF UiAt, StopKeepalive, Moved, CountsOK, TriesInv, LockInv
  <2>6. SessionInv' /\ OpenInv' /\ StreamInv'
    BY <1>5, <2>1 DEF UiAt, StopKeepalive, Moved, FlagsOK, StatesOK, LockInv, ReaderInv,
                      SessionInv, OpenInv, StreamInv
  <2>7. TunedInv' /\ ClosedInv'
    BY <1>5, <2>1 DEF UiAt, StopKeepalive, Moved, FlagsOK, StatesOK, SessionInv, TunedInv,
                      Tuned, CallInv, ClosedInv
  <2> QED
    BY <2>2, <2>3, <2>4, <2>5, <2>6, <2>7
<1>6. CASE JoinKeepalive
  <2>1. Moved("shut", "none", pc.rx)
    BY <1>6, AllPlaces, TwoMove DEF UiAt, JoinKeepalive
  <2>2. FlagsOK' /\ StatesOK'
    BY <1>6, <2>1 DEF UiAt, JoinKeepalive, Moved, FlagsOK, StatesOK
  <2>3. CountsOK' /\ DataOK' /\ PlacesOK'
    BY <1>6, <2>1, FaultsType, TriesReset, TriesCounted DEF UiAt, JoinKeepalive, Moved,
                                                            CountsOK, DataOK, PlacesOK,
                                                            Requesting
  <2>4. LockInv' /\ ReaderInv' /\ CallInv'
    BY <1>6, <2>1 DEF UiAt, JoinKeepalive, Moved, LockInv, Requesting, FlagsOK, StatesOK,
                      DataOK, ReaderInv, CallInv
  <2>5. TriesInv'
    BY <1>6, <2>1 DEF UiAt, JoinKeepalive, Moved, CountsOK, TriesInv, LockInv
  <2>6. SessionInv' /\ OpenInv' /\ StreamInv'
    BY <1>6, <2>1 DEF UiAt, JoinKeepalive, Moved, FlagsOK, StatesOK, LockInv, ReaderInv,
                      SessionInv, OpenInv, StreamInv
  <2>7. TunedInv' /\ ClosedInv'
    BY <1>6, <2>1 DEF UiAt, JoinKeepalive, Moved, FlagsOK, StatesOK, SessionInv, TunedInv,
                      Tuned, CallInv, ClosedInv
  <2> QED
    BY <2>2, <2>3, <2>4, <2>5, <2>6, <2>7
<1>7. CASE Shut
  <2>1. Moved(IF call = "open" THEN "establish" ELSE "idle", pc.ka, pc.rx)
    BY <1>7, AllPlaces, UiMoves DEF UiAt, Shut
  <2>2. FlagsOK'
    BY <1>7, <2>1 DEF UiAt, Shut, Moved, FlagsOK
  <2>3. StatesOK'
    BY <1>7, <2>1 DEF UiAt, Shut, Moved, StatesOK
  <2>4. CountsOK' /\ DataOK' /\ PlacesOK'
    BY <1>7, <2>1, FaultsType, TriesReset, TriesCounted DEF UiAt, Shut, Moved, CountsOK,
                                                            DataOK, PlacesOK, Requesting
  <2>5. LockInv' /\ ReaderInv' /\ CallInv'
    BY <1>7, <2>1 DEF UiAt, Shut, Moved, LockInv, Requesting, FlagsOK, StatesOK, DataOK,
                      ReaderInv, CallInv
  <2>6. TriesInv'
    BY <1>7, <2>1 DEF UiAt, Shut, Moved, CountsOK, TriesInv, LockInv
  <2>7. SessionInv' /\ OpenInv' /\ StreamInv'
    BY <1>7, <2>1 DEF UiAt, Shut, Moved, FlagsOK, StatesOK, LockInv, ReaderInv, SessionInv,
                      OpenInv, StreamInv
  <2>8. TunedInv' /\ ClosedInv'
    BY <1>7, <2>1 DEF UiAt, Shut, Moved, FlagsOK, StatesOK, SessionInv, TunedInv, Tuned,
                      CallInv, ClosedInv, ReaderInv
  <2> QED
    BY <2>2, <2>3, <2>4, <2>5, <2>6, <2>7, <2>8
<1>8. CASE Opened
  <2>1. Moved("idle", "sleeping", pc.rx)
    BY <1>8, AllPlaces, TwoMove DEF UiAt, Opened, NewSession
  <2>2. FlagsOK' /\ StatesOK'
    BY ZenonT(40), <1>8, <2>1 DEF UiAt, Opened, NewSession, Moved, FlagsOK, StatesOK
  <2>3. CountsOK' /\ DataOK' /\ PlacesOK'
    BY <1>8, <2>1, FaultsType, TriesReset, TriesCounted DEF UiAt, Opened, NewSession, Moved,
                                                            CountsOK, DataOK, Known,
                                                            PlacesOK, Requesting
  <2>4. LockInv' /\ ReaderInv' /\ CallInv'
    BY <1>8, <2>1 DEF UiAt, Opened, NewSession, Moved, LockInv, Requesting, ReaderInv,
                      FlagsOK, StatesOK, DataOK, CallInv
  <2>5. TriesInv'
    BY <1>8, <2>1 DEF UiAt, Opened, NewSession, Moved, CountsOK, TriesInv, LockInv
  <2>6. SessionInv' /\ OpenInv' /\ StreamInv'
    BY <1>8, <2>1 DEF UiAt, Opened, NewSession, Moved, FlagsOK, StatesOK, LockInv,
                      ReaderInv, SessionInv, OpenInv, StreamInv, Requesting, Threads
  <2>7. TunedInv' /\ ClosedInv'
    BY <1>8, <2>1, SettingsAssumption, ValuesAssumption DEF UiAt, Opened, NewSession, Moved,
                                                            FlagsOK, StatesOK, SessionInv,
                                                            TunedInv, Tuned, LockInv,
                                                            ReaderInv, Known, CallInv,
                                                            ClosedInv
  <2> QED
    BY <2>2, <2>3, <2>4, <2>5, <2>6, <2>7
<1>9. CASE NotOpened
  <2>1. Moved("idle", pc.ka, pc.rx)
    BY <1>9, AllPlaces, UiMoves DEF UiAt, NotOpened, NoSession
  <2>2. FlagsOK' /\ StatesOK'
    BY <1>9, <2>1 DEF UiAt, NotOpened, NoSession, Moved, FlagsOK, StatesOK
  <2>3. CountsOK' /\ DataOK' /\ PlacesOK'
    BY <1>9, <2>1, FaultsType, TriesReset, TriesCounted DEF UiAt, NotOpened, NoSession,
                                                            Moved, CountsOK, DataOK,
                                                            PlacesOK, Requesting
  <2>4. LockInv' /\ ReaderInv' /\ CallInv'
    BY <1>9, <2>1 DEF UiAt, NotOpened, NoSession, Moved, LockInv, Requesting, FlagsOK,
                      StatesOK, DataOK, ReaderInv, CallInv
  <2>5. TriesInv'
    BY <1>9, <2>1 DEF UiAt, NotOpened, NoSession, Moved, CountsOK, TriesInv, LockInv
  <2>6. SessionInv' /\ OpenInv' /\ StreamInv'
    BY <1>9, <2>1 DEF UiAt, NotOpened, NoSession, Moved, FlagsOK, StatesOK, LockInv,
                      ReaderInv, SessionInv, OpenInv, StreamInv
  <2>7. TunedInv' /\ ClosedInv'
    BY <1>9, <2>1 DEF UiAt, NotOpened, NoSession, Moved, FlagsOK, StatesOK, SessionInv,
                      TunedInv, Tuned, CallInv, ClosedInv
  <2> QED
    BY <2>2, <2>3, <2>4, <2>5, <2>6, <2>7
<1> QED
  BY <1>1, <1>2, <1>3, <1>4, <1>5, <1>6, <1>7, <1>8, <1>9 DEF UiStep

LEMMA KaStepKeeps ==
  ASSUME IInv, Wake \/ KeepaliveEnds
  PROVE  IInv'
<1> USE DEF IInv, TypeInv, server, client, ladder, threads, caller
<1>1. CASE Wake
  <2>1. Moved(pc.ui, "ping", pc.rx)
    BY <1>1, AllPlaces, KaMoves DEF KeepaliveGoesTo, Wake
  <2>2. FlagsOK' /\ StatesOK'
    BY <1>1, <2>1 DEF KeepaliveGoesTo, Wake, Moved, FlagsOK, StatesOK
  <2>3. CountsOK' /\ DataOK' /\ PlacesOK'
    BY <1>1, <2>1, FaultsType, TriesReset, TriesCounted DEF KeepaliveGoesTo, Wake, Moved,
                                                            CountsOK, DataOK, PlacesOK,
                                                            Requesting
  <2>4. LockInv' /\ ReaderInv' /\ CallInv'
    BY <1>1, <2>1 DEF KeepaliveGoesTo, Wake, Moved, LockInv, Requesting, FlagsOK, StatesOK,
                      DataOK, ReaderInv, CallInv
  <2>5. TriesInv'
    BY <1>1, <2>1 DEF KeepaliveGoesTo, Wake, Moved, CountsOK, TriesInv, LockInv
  <2>6. SessionInv' /\ OpenInv' /\ StreamInv'
    BY <1>1, <2>1 DEF KeepaliveGoesTo, Wake, Moved, FlagsOK, StatesOK, LockInv, ReaderInv,
                      SessionInv, OpenInv, StreamInv
  <2>7. TunedInv' /\ ClosedInv'
    BY <1>1, <2>1 DEF KeepaliveGoesTo, Wake, Moved, FlagsOK, StatesOK, SessionInv, TunedInv,
                      Tuned, CallInv, ClosedInv
  <2> QED
    BY <2>2, <2>3, <2>4, <2>5, <2>6, <2>7
<1>2. CASE KeepaliveEnds
  <2>1. Moved(pc.ui, "done", pc.rx)
    BY <1>2, AllPlaces, KaMoves DEF KeepaliveGoesTo, KeepaliveEnds
  <2>2. FlagsOK' /\ StatesOK'
    BY <1>2, <2>1 DEF KeepaliveGoesTo, KeepaliveEnds, Moved, FlagsOK, StatesOK
  <2>3. CountsOK' /\ DataOK' /\ PlacesOK'
    BY <1>2, <2>1, FaultsType, TriesReset, TriesCounted DEF KeepaliveGoesTo, KeepaliveEnds,
                                                            Moved, CountsOK, DataOK,
                                                            PlacesOK, Requesting
  <2>4. LockInv' /\ ReaderInv' /\ CallInv'
    BY <1>2, <2>1 DEF KeepaliveGoesTo, KeepaliveEnds, Moved, LockInv, Requesting, FlagsOK,
                      StatesOK, DataOK, ReaderInv, CallInv
  <2>5. TriesInv'
    BY <1>2, <2>1 DEF KeepaliveGoesTo, KeepaliveEnds, Moved, CountsOK, TriesInv, LockInv
  <2>6. SessionInv' /\ OpenInv' /\ StreamInv'
    BY <1>2, <2>1 DEF KeepaliveGoesTo, KeepaliveEnds, Moved, FlagsOK, StatesOK, LockInv,
                      ReaderInv, SessionInv, OpenInv, StreamInv
  <2>7. TunedInv' /\ ClosedInv'
    BY <1>2, <2>1 DEF KeepaliveGoesTo, KeepaliveEnds, Moved, FlagsOK, StatesOK, SessionInv,
                      TunedInv, Tuned, CallInv, ClosedInv
  <2> QED
    BY <2>2, <2>3, <2>4, <2>5, <2>6, <2>7
<1> QED
  BY <1>1, <1>2 DEF KaStep

LEMMA RxStepKeeps ==
  ASSUME IInv, RxStopped \/ StreamLost \/ BackedOff \/ RecoverBegins \/
               RecoverGivesUp \/ RecoverFailed
  PROVE  IInv'
<1> USE DEF IInv, TypeInv, server, client, ladder, threads, caller
<1>1. CASE RxStopped
  <2>1. Moved(pc.ui, pc.ka, "done")
    BY <1>1, AllPlaces, RxMoves, TwoMove DEF RxAt, RxGoesTo, RxEnds, RxStopped
  <2>2. FlagsOK'
    BY <1>1, <2>1 DEF RxAt, RxGoesTo, RxEnds, RxStopped, Moved, FlagsOK
  <2>3. StatesOK'
    BY <1>1, <2>1 DEF RxAt, RxGoesTo, RxEnds, RxStopped, Moved, StatesOK
  <2>4. CountsOK' /\ DataOK' /\ PlacesOK'
    BY <1>1, <2>1, FaultsType, TriesReset, TriesCounted DEF RxAt, RxGoesTo, RxEnds,
                                                            RxStopped, Moved, CountsOK,
                                                            DataOK, PlacesOK, Requesting
  <2>5. LockInv' /\ ReaderInv' /\ CallInv'
    BY <1>1, <2>1 DEF RxAt, RxGoesTo, RxEnds, RxStopped, Moved, LockInv, Requesting,
                      FlagsOK, StatesOK, DataOK, ReaderInv, CallInv
  <2>6. TriesInv'
    BY <1>1, <2>1 DEF RxAt, RxGoesTo, RxEnds, RxStopped, Moved, CountsOK, TriesInv, LockInv
  <2>7. SessionInv' /\ OpenInv' /\ StreamInv'
    BY <1>1, <2>1 DEF RxAt, RxGoesTo, RxEnds, RxStopped, Moved, FlagsOK, StatesOK, LockInv,
                      ReaderInv, SessionInv, OpenInv, StreamInv
  <2>8. TunedInv' /\ ClosedInv'
    BY SMTT(30), <1>1, <2>1 DEF RxAt, RxGoesTo, RxEnds, RxStopped, Moved, FlagsOK, StatesOK,
                      SessionInv, TunedInv, Tuned, CallInv, ClosedInv
  <2> QED
    BY <2>2, <2>3, <2>4, <2>5, <2>6, <2>7, <2>8
<1>2. CASE StreamLost
  <2>1. Moved(pc.ui, pc.ka, IF max_attempts = 0 THEN "done" ELSE "backoff")
    BY <1>2, AllPlaces, RxMoves, TwoMove DEF RxAt, RxGoesTo, RxEnds, StreamLost
  <2>2. FlagsOK'
    BY <1>2, <2>1 DEF RxAt, RxGoesTo, RxEnds, StreamLost, Moved, FlagsOK
  <2>3. StatesOK'
    BY <1>2, <2>1 DEF RxAt, RxGoesTo, RxEnds, StreamLost, Moved, StatesOK
  <2>4. CountsOK' /\ DataOK' /\ PlacesOK'
    BY <1>2, <2>1, FaultsType, TriesReset, TriesCounted DEF RxAt, RxGoesTo, RxEnds,
                                                            StreamLost, Moved, CountsOK,
                                                            DataOK, PlacesOK, Requesting
  <2>5. LockInv' /\ ReaderInv' /\ CallInv'
    BY <1>2, <2>1 DEF RxAt, RxGoesTo, RxEnds, StreamLost, Moved, LockInv, Requesting,
                      FlagsOK, StatesOK, DataOK, ReaderInv, CallInv
  <2>6. TriesInv'
    BY <1>2, <2>1 DEF RxAt, RxGoesTo, RxEnds, StreamLost, Moved, CountsOK, TriesInv,
                      LockInv, Threads, StatesOK
  <2>7. SessionInv' /\ OpenInv' /\ StreamInv'
    BY <1>2, <2>1 DEF RxAt, RxGoesTo, RxEnds, StreamLost, Moved, FlagsOK, StatesOK, LockInv,
                      ReaderInv, SessionInv, OpenInv, StreamInv
  <2>8. TunedInv' /\ ClosedInv'
    BY <1>2, <2>1 DEF RxAt, RxGoesTo, RxEnds, StreamLost, Moved, FlagsOK, StatesOK,
                      SessionInv, TunedInv, Tuned, CallInv, ClosedInv
  <2> QED
    BY <2>2, <2>3, <2>4, <2>5, <2>6, <2>7, <2>8
<1>3. CASE BackedOff
  <2>1. Moved(pc.ui, pc.ka, "locking")
    BY <1>3, AllPlaces, RxMoves, TwoMove DEF RxAt, RxGoesTo, RxEnds, BackedOff
  <2>2. FlagsOK' /\ StatesOK'
    BY <1>3, <2>1 DEF RxAt, RxGoesTo, RxEnds, BackedOff, Moved, FlagsOK, StatesOK
  <2>3. CountsOK' /\ DataOK' /\ PlacesOK'
    BY <1>3, <2>1, FaultsType, TriesReset, TriesCounted DEF RxAt, RxGoesTo, RxEnds,
                                                            BackedOff, Moved, CountsOK,
                                                            DataOK, PlacesOK, Requesting
  <2>4. LockInv' /\ ReaderInv' /\ CallInv'
    BY <1>3, <2>1 DEF RxAt, RxGoesTo, RxEnds, BackedOff, Moved, LockInv, Requesting,
                      FlagsOK, StatesOK, DataOK, ReaderInv, CallInv
  <2>5. TriesInv'
    BY <1>3, <2>1 DEF RxAt, RxGoesTo, RxEnds, BackedOff, Moved, CountsOK, TriesInv, LockInv
  <2>6. SessionInv' /\ OpenInv' /\ StreamInv'
    BY <1>3, <2>1 DEF RxAt, RxGoesTo, RxEnds, BackedOff, Moved, FlagsOK, StatesOK, LockInv,
                      ReaderInv, SessionInv, OpenInv, StreamInv
  <2>7. TunedInv' /\ ClosedInv'
    BY <1>3, <2>1 DEF RxAt, RxGoesTo, RxEnds, BackedOff, Moved, FlagsOK, StatesOK,
                      SessionInv, TunedInv, Tuned, CallInv, ClosedInv
  <2> QED
    BY <2>2, <2>3, <2>4, <2>5, <2>6, <2>7
<1>4. CASE RecoverBegins
  <2>1. Moved(pc.ui, pc.ka, "recovering")
    BY <1>4, AllPlaces, RxMoves, TwoMove DEF RxAt, RxGoesTo, RxEnds, RecoverBegins
  <2>2. FlagsOK' /\ StatesOK'
    BY <1>4, <2>1 DEF RxAt, RxGoesTo, RxEnds, RecoverBegins, Moved, FlagsOK, StatesOK,
                      Threads
  <2>3. CountsOK' /\ DataOK' /\ PlacesOK'
    BY <1>4, <2>1, FaultsType, TriesReset, TriesCounted DEF RxAt, RxGoesTo, RxEnds,
                                                            RecoverBegins, Moved, CountsOK,
                                                            DataOK, PlacesOK, Requesting
  <2>4. LockInv' /\ ReaderInv' /\ CallInv'
    BY <1>4, <2>1 DEF RxAt, RxGoesTo, RxEnds, RecoverBegins, Moved, LockInv, Requesting,
                      FlagsOK, StatesOK, DataOK, ReaderInv, CallInv
  <2>5. TriesInv'
    BY <1>4, <2>1 DEF RxAt, RxGoesTo, RxEnds, RecoverBegins, Moved, CountsOK, TriesInv,
                      LockInv
  <2>6. SessionInv' /\ OpenInv' /\ StreamInv'
    BY <1>4, <2>1 DEF RxAt, RxGoesTo, RxEnds, RecoverBegins, Moved, FlagsOK, StatesOK,
                      LockInv, ReaderInv, SessionInv, OpenInv, StreamInv
  <2>7. TunedInv' /\ ClosedInv'
    BY <1>4, <2>1 DEF RxAt, RxGoesTo, RxEnds, RecoverBegins, Moved, FlagsOK, StatesOK,
                      SessionInv, TunedInv, Tuned, LockInv, CallInv, ClosedInv
  <2> QED
    BY <2>2, <2>3, <2>4, <2>5, <2>6, <2>7
<1>5. CASE RecoverGivesUp
  <2>1. Moved(pc.ui, pc.ka, "gaveUp")
    BY <1>5, AllPlaces, RxMoves, TwoMove DEF RxAt, RxGoesTo, RxEnds, RecoverGivesUp
  <2>2. FlagsOK' /\ StatesOK'
    BY <1>5, <2>1 DEF RxAt, RxGoesTo, RxEnds, RecoverGivesUp, Moved, FlagsOK, StatesOK
  <2>3. CountsOK' /\ DataOK' /\ PlacesOK'
    BY <1>5, <2>1, FaultsType, TriesReset, TriesCounted DEF RxAt, RxGoesTo, RxEnds,
                                                            RecoverGivesUp, Moved, CountsOK,
                                                            DataOK, PlacesOK, Requesting
  <2>4. LockInv' /\ ReaderInv' /\ CallInv'
    BY <1>5, <2>1 DEF RxAt, RxGoesTo, RxEnds, RecoverGivesUp, Moved, LockInv, Requesting,
                      FlagsOK, StatesOK, DataOK, ReaderInv, CallInv
  <2>5. TriesInv'
    BY <1>5, <2>1 DEF RxAt, RxGoesTo, RxEnds, RecoverGivesUp, Moved, CountsOK, TriesInv,
                      LockInv, Threads, StatesOK
  <2>6. SessionInv' /\ OpenInv' /\ StreamInv'
    BY <1>5, <2>1 DEF RxAt, RxGoesTo, RxEnds, RecoverGivesUp, Moved, FlagsOK, StatesOK,
                      LockInv, ReaderInv, SessionInv, OpenInv, StreamInv
  <2>7. TunedInv' /\ ClosedInv'
    BY <1>5, <2>1 DEF RxAt, RxGoesTo, RxEnds, RecoverGivesUp, Moved, FlagsOK, StatesOK,
                      SessionInv, TunedInv, Tuned, CallInv, ClosedInv
  <2> QED
    BY <2>2, <2>3, <2>4, <2>5, <2>6, <2>7
<1>6. CASE RecoverFailed
  <2>1. Moved(pc.ui, pc.ka, "done")
    BY <1>6, AllPlaces, RxMoves, TwoMove DEF RxAt, RxGoesTo, RxEnds, RecoverFailed
  <2>2. FlagsOK'
    BY <1>6, <2>1 DEF RxAt, RxGoesTo, RxEnds, RecoverFailed, Moved, FlagsOK
  <2>3. StatesOK'
    BY <1>6, <2>1 DEF RxAt, RxGoesTo, RxEnds, RecoverFailed, Moved, StatesOK
  <2>4. CountsOK' /\ DataOK' /\ PlacesOK'
    BY <1>6, <2>1, FaultsType, TriesReset, TriesCounted DEF RxAt, RxGoesTo, RxEnds,
                                                            RecoverFailed, Moved, CountsOK,
                                                            DataOK, PlacesOK, Requesting
  <2>5. LockInv' /\ ReaderInv' /\ CallInv'
    BY <1>6, <2>1 DEF RxAt, RxGoesTo, RxEnds, RecoverFailed, Moved, LockInv, Requesting,
                      FlagsOK, StatesOK, DataOK, ReaderInv, CallInv
  <2>6. TriesInv'
    BY <1>6, <2>1 DEF RxAt, RxGoesTo, RxEnds, RecoverFailed, Moved, CountsOK, TriesInv,
                      LockInv
  <2>7. SessionInv' /\ OpenInv' /\ StreamInv'
    BY <1>6, <2>1 DEF RxAt, RxGoesTo, RxEnds, RecoverFailed, Moved, FlagsOK, StatesOK,
                      LockInv, ReaderInv, SessionInv, OpenInv, StreamInv
  <2>8. TunedInv' /\ ClosedInv'
    BY <1>6, <2>1 DEF RxAt, RxGoesTo, RxEnds, RecoverFailed, Moved, FlagsOK, StatesOK,
                      SessionInv, TunedInv, Tuned, CallInv, ClosedInv
  <2> QED
    BY <2>2, <2>3, <2>4, <2>5, <2>6, <2>7, <2>8
<1> QED
  BY <1>1, <1>2, <1>3, <1>4, <1>5, <1>6 DEF RxStep

-----------------------------------------------------------------------------
(* The ladder.  What an attempt that fails, and a request that returns, do *)
(* to the threads.                                                         *)

LEMMA AttemptFails ==
  ASSUME IInv, NEW t \in Threads, lock = t, tries[t] < max_attempts, AttemptFailed(t),
         max_attempts' = max_attempts
  PROVE  /\ tries' \in [Threads -> 0 .. max_attempts']
         /\ PlacesOK' /\ LockInv' /\ TriesInv' /\ ReaderInv' /\ CallInv'
         /\ stage' \in {"none", "establish"} /\ lock' \in {t, "free"}
         /\ pc'.ui = pc.ui /\ (pc.rx \in {"none", "done"} <=> pc'.rx \in {"none", "done"})
<1> USE DEF IInv, TypeInv
<1>1. tries' \in [Threads -> 0 .. max_attempts']
  BY TriesCounted DEF AttemptFailed
<1>2. CASE t = "rx"
  <2>1. Moved(pc.ui, pc.ka, "backoff")
    BY <1>2, AllPlaces, RxMoves DEF AttemptFailed
  <2>2. lock' = "free" /\ stage' = "none" /\ pc.rx = "recovering"
    BY <1>2 DEF AttemptFailed, LockInv
  <2>3. PlacesOK' /\ LockInv'
    BY <2>1, <2>2 DEF Moved, PlacesOK, LockInv
  <2>4. TriesInv'
    BY <2>1, <2>2 DEF Moved, TriesInv
  <2>5. ReaderInv' /\ CallInv'
    BY <2>1, <2>2 DEF AttemptFailed, Moved, caller, ReaderInv, CallInv
  <2> QED
    BY <1>1, <2>1, <2>2, <2>3, <2>4, <2>5 DEF Moved
<1>3. CASE t # "rx"
  <2>1. lock' = t /\ stage' = "establish" /\ pc' = pc /\ pc.rx # "recovering"
    BY <1>3 DEF AttemptFailed, LockInv
  <2>2. PlacesOK' /\ LockInv'
    BY <1>3, <2>1 DEF PlacesOK, LockInv, Threads
  <2>3. tries'.rx = tries.rx
    BY <1>3 DEF AttemptFailed, CountsOK, Threads
  <2>4. TriesInv'
    BY <2>1, <2>3 DEF TriesInv
  <2>5. ReaderInv' /\ CallInv'
    BY <2>1 DEF AttemptFailed, caller, ReaderInv, CallInv
  <2> QED
    BY <1>1, <2>1, <2>2, <2>4, <2>5
<1> QED
  BY <1>2, <1>3

LEMMA EstablishKeeps == ASSUME IInv, NEW t \in Threads, Establish(t) PROVE IInv'
<1> USE DEF IInv, TypeInv, server, client, ladder, threads, caller
<1>1. CASE serverUp /\ NewSession /\ stage' = "replay"
           /\ UNCHANGED <<serverUp, faults, lock, tries, threads, caller>>
  <2>1. FlagsOK' /\ StatesOK'
    BY ZenonT(40), <1>1 DEF Establish, NewSession, FlagsOK, StatesOK
  <2>6. CountsOK' /\ DataOK' /\ PlacesOK'
    BY <1>1 DEF Establish, NewSession, CountsOK, DataOK, PlacesOK
  <2>2. LockInv' /\ ReaderInv' /\ CallInv'
    BY <1>1 DEF Establish, LockInv, ReaderInv, CallInv
  <2>3. TriesInv'
    BY <1>1 DEF Establish, TriesInv
  <2>4. SessionInv' /\ OpenInv' /\ StreamInv'
    <3>1. pc.ui # "establish"
      BY <1>1 DEF Establish, LockInv, ReaderInv, Threads, Requesting
    <3> QED
      BY <1>1, <3>1 DEF Establish, NewSession, SessionInv, OpenInv, StreamInv
  <2>5. TunedInv' /\ ClosedInv'
    BY <1>1 DEF Establish, TunedInv, ClosedInv, Threads
  <2> QED
    BY <2>1, <2>2, <2>3, <2>4, <2>5, <2>6
<1>2. CASE NoSession /\ AttemptFailed(t)
  <2>1. /\ tries' \in [Threads -> 0 .. max_attempts']
        /\ PlacesOK' /\ LockInv' /\ TriesInv' /\ ReaderInv' /\ CallInv'
        /\ stage' \in {"none", "establish"} /\ lock' \in {t, "free"} /\ pc'.ui = pc.ui
        /\ pc.rx \in {"none", "done"} <=> pc'.rx \in {"none", "done"}
    BY <1>2, AttemptFails DEF Establish
  <2>2. CountsOK'
    BY <1>2, <2>1, FaultsType DEF Establish, NoSession, CountsOK
  <2>3. FlagsOK' /\ DataOK' /\ StatesOK'
    BY <1>2, <2>1 DEF Establish, NoSession, AttemptFailed, FlagsOK, DataOK, StatesOK
  <2>4. SessionInv' /\ OpenInv' /\ StreamInv'
    BY <1>2, <2>1 DEF Establish, NoSession, StatesOK, SessionInv, OpenInv, StreamInv
  <2>5. TunedInv' /\ ClosedInv'
    BY <1>2, <2>1 DEF Establish, NoSession, AttemptFailed, StatesOK, SessionInv, TunedInv,
                      ClosedInv, Threads
  <2> QED
    BY <2>1, <2>2, <2>3, <2>4, <2>5
<1> QED
  BY <1>1, <1>2 DEF Establish

LEMMA ReplayKeeps ==
  ASSUME IInv, NEW t \in Threads, NEW next \in {"retry", "start"},
         t = "rx" <=> next = "start", ReplayTo(t, next)
  PROVE  IInv'
<1> USE DEF IInv, TypeInv, server, client, ladder, threads, caller
<1>1. CASE /\ session = "live" /\ remote' = Replay
           /\ link' = "Connected" /\ open' = TRUE /\ stage' = next
           /\ UNCHANGED <<serverUp, session, armed, faults, control, lock, tries, threads, caller>>
  <2>1. FlagsOK' /\ CountsOK' /\ StatesOK' /\ PlacesOK'
    BY <1>1 DEF ReplayTo, FlagsOK, CountsOK, StatesOK, PlacesOK
  <2>2. DataOK'
    BY <1>1, ValuesAssumption, AchievedAssumption DEF ReplayTo, Replay, Sent, DataOK, Known
  <2>3. LockInv' /\ ReaderInv' /\ CallInv'
    BY <1>1 DEF ReplayTo, LockInv, ReaderInv, CallInv, Threads
  <2>4. TriesInv'
    BY <1>1 DEF ReplayTo, TriesInv
  <2>5. SessionInv' /\ OpenInv' /\ StreamInv'
    BY <1>1 DEF ReplayTo, LockInv, SessionInv, OpenInv, StreamInv
  <2>6. TunedInv'
    BY <1>1, SettingsAssumption, ValuesAssumption
       DEF ReplayTo, Replay, Sent, TunedInv, Tuned, Known
  <2>7. ClosedInv'
    BY <1>1 DEF ReplayTo, ClosedInv, Threads
  <2> QED
    BY <2>1, <2>2, <2>3, <2>4, <2>5, <2>6, <2>7
<1>2. CASE /\ (session = "none" /\ UNCHANGED faults) \/ (session = "live" /\ Fail)
           /\ control' = "null" /\ session' = "none" /\ AttemptFailed(t)
           /\ UNCHANGED <<serverUp, armed, remote, link, open>>
  <2>1. tries[t] < max_attempts
    BY DEF ReplayTo, LockInv, TriesInv, Threads
  <2>2. /\ tries' \in [Threads -> 0 .. max_attempts']
        /\ PlacesOK' /\ LockInv' /\ TriesInv' /\ ReaderInv' /\ CallInv'
        /\ stage' \in {"none", "establish"} /\ lock' \in {t, "free"} /\ pc'.ui = pc.ui
        /\ pc.rx \in {"none", "done"} <=> pc'.rx \in {"none", "done"}
    BY <1>2, <2>1, AttemptFails DEF ReplayTo
  <2>3. CountsOK'
    BY <1>2, <2>2, FaultsType DEF ReplayTo, CountsOK
  <2>4. FlagsOK' /\ DataOK' /\ StatesOK'
    BY <1>2, <2>2 DEF ReplayTo, AttemptFailed, FlagsOK, DataOK, StatesOK
  <2>5. SessionInv' /\ OpenInv' /\ StreamInv'
    BY <1>2, <2>2 DEF ReplayTo, SessionInv, OpenInv, StreamInv
  <2>6. TunedInv' /\ ClosedInv'
    BY <1>2, <2>2 DEF ReplayTo, AttemptFailed, TunedInv, ClosedInv, Threads
  <2> QED
    BY <2>2, <2>3, <2>4, <2>5, <2>6
<1> QED
  BY <1>1, <1>2 DEF ReplayTo

LEMMA StreamRequestKeeps == ASSUME IInv, StreamRequest PROVE IInv'
<1> USE DEF IInv, TypeInv, server, client, ladder, threads, caller
<1>1. pc.rx = "recovering" /\ tries.rx < max_attempts /\ "rx" \in Threads
  BY DEF StreamRequest, LockInv, TriesInv, Threads
<1>2. CASE /\ Reachable /\ armed' = TRUE /\ stage' = "connect"
           /\ UNCHANGED <<control, faults, lock, tries, threads, caller>>
  <2>1. FlagsOK' /\ StatesOK'
    BY <1>2 DEF StreamRequest, FlagsOK, StatesOK
  <2>2. CountsOK' /\ DataOK' /\ PlacesOK'
    BY <1>2 DEF StreamRequest, CountsOK, DataOK, PlacesOK
  <2>3. LockInv' /\ ReaderInv' /\ CallInv'
    BY <1>2 DEF StreamRequest, LockInv, ReaderInv, CallInv
  <2>4. TriesInv'
    BY <1>2 DEF StreamRequest, TriesInv
  <2>5. SessionInv' /\ OpenInv' /\ StreamInv'
    BY <1>2 DEF StreamRequest, SessionInv, OpenInv, StreamInv
  <2>6. TunedInv' /\ ClosedInv'
    BY <1>2 DEF StreamRequest, TunedInv, Tuned, ClosedInv
  <2> QED
    BY <2>1, <2>2, <2>3, <2>4, <2>5, <2>6
<1>3. CASE /\ AttemptFailed("rx") /\ armed' = armed
           /\ \/ Reachable /\ Fail /\ control' = control
              \/ ~Reachable /\ control' = Severed /\ faults' = faults
  <2>1. /\ tries' \in [Threads -> 0 .. max_attempts']
        /\ PlacesOK' /\ LockInv' /\ TriesInv' /\ ReaderInv' /\ CallInv'
        /\ stage' \in {"none", "establish"} /\ lock' \in {"rx", "free"} /\ pc'.ui = pc.ui
        /\ pc.rx \in {"none", "done"} <=> pc'.rx \in {"none", "done"}
    BY <1>1, <1>3, AttemptFails DEF StreamRequest
  <2>2. stage' = "none" /\ UNCHANGED <<call, ask, receiving, rx_running, rx_stop, keepalive_stop>>
    BY <1>3 DEF AttemptFailed
  <2>3. CountsOK'
    BY <1>3, <2>1, FaultsType DEF StreamRequest, CountsOK
  <2>4. FlagsOK' /\ DataOK' /\ StatesOK'
    BY <1>3, <2>1, <2>2 DEF StreamRequest, Severed, FlagsOK, DataOK, StatesOK
  <2>5. SessionInv' /\ OpenInv' /\ StreamInv'
    BY <1>1, <1>3, <2>1, <2>2 DEF StreamRequest, Reachable, Severed, StatesOK, SessionInv,
                                  OpenInv, StreamInv
  <2>6. TunedInv' /\ ClosedInv'
    BY <1>3, <2>1, <2>2 DEF StreamRequest, TunedInv, Tuned, ClosedInv
  <2> QED
    BY <2>1, <2>3, <2>4, <2>5, <2>6
<1> QED
  BY <1>2, <1>3 DEF StreamRequest

LEMMA StreamConnectKeeps == ASSUME IInv, StreamConnect PROVE IInv'
<1> USE DEF IInv, TypeInv, server, client, ladder, threads, caller
<1>1. pc.rx = "recovering" /\ tries.rx < max_attempts /\ "rx" \in Threads
  BY DEF StreamConnect, LockInv, TriesInv, Threads
<1>2. CASE /\ serverUp /\ stream' \in Attached
           /\ lock' = "free" /\ stage' = "none" /\ tries' = [tries EXCEPT !.rx = 0]
           /\ RxGoesTo("reading") /\ UNCHANGED <<faults, rx_running, caller>>
  <2>1. Moved(pc.ui, pc.ka, "reading")
    BY <1>2, AllPlaces, RxMoves DEF RxGoesTo
  <2>2. FlagsOK' /\ DataOK' /\ StatesOK' /\ PlacesOK'
    BY <1>2, <2>1 DEF StreamConnect, RxGoesTo, Attached, Moved, FlagsOK, DataOK, StatesOK,
                      PlacesOK
  <2>3. CountsOK'
    BY <1>1, <1>2, TriesReset DEF StreamConnect, CountsOK
  <2>4. LockInv' /\ ReaderInv' /\ CallInv'
    BY <1>1, <1>2, <2>1 DEF StreamConnect, RxGoesTo, Moved, LockInv, ReaderInv, CallInv
  <2>5. TriesInv'
    BY <1>2, <2>1 DEF Moved, TriesInv
  <2>6. SessionInv' /\ OpenInv' /\ StreamInv'
    BY <1>1, <1>2, <2>1 DEF StreamConnect, Attached, Moved, StatesOK, SessionInv, OpenInv,
                            StreamInv
  <2>7. TunedInv' /\ ClosedInv'
    BY <1>1, <1>2, <2>1 DEF StreamConnect, Moved, TunedInv, Tuned, ClosedInv
  <2> QED
    BY <2>2, <2>3, <2>4, <2>5, <2>6, <2>7
<1>3. CASE /\ (~serverUp /\ UNCHANGED faults) \/ (serverUp /\ Fail)
           /\ AttemptFailed("rx") /\ UNCHANGED stream
  <2>1. /\ tries' \in [Threads -> 0 .. max_attempts']
        /\ PlacesOK' /\ LockInv' /\ TriesInv' /\ ReaderInv' /\ CallInv'
        /\ stage' \in {"none", "establish"} /\ lock' \in {"rx", "free"} /\ pc'.ui = pc.ui
        /\ pc.rx \in {"none", "done"} <=> pc'.rx \in {"none", "done"}
    BY <1>1, <1>3, AttemptFails DEF StreamConnect
  <2>2. stage' = "none" /\ UNCHANGED <<call, ask, receiving, rx_running, rx_stop, keepalive_stop>>
    BY <1>3 DEF AttemptFailed
  <2>3. CountsOK'
    BY <1>3, <2>1, FaultsType DEF StreamConnect, CountsOK
  <2>4. FlagsOK' /\ DataOK' /\ StatesOK'
    BY <1>3, <2>1, <2>2 DEF StreamConnect, FlagsOK, DataOK, StatesOK
  <2>5. SessionInv' /\ OpenInv' /\ StreamInv'
    BY <1>1, <1>3, <2>1, <2>2 DEF StreamConnect, SessionInv, OpenInv, StreamInv
  <2>6. TunedInv' /\ ClosedInv'
    BY <1>1, <1>3, <2>1, <2>2 DEF StreamConnect, TunedInv, Tuned, ClosedInv
  <2> QED
    BY <2>1, <2>3, <2>4, <2>5, <2>6
<1> QED
  BY <1>2, <1>3 DEF StreamConnect

-----------------------------------------------------------------------------
(* Requests.  What every one that returns does to its thread.              *)

\* The thread may ask: it waited for the mutex, or its ladder has ended.
MayAsk(t) ==
    /\ pc[t] \in Requesting
    /\ \/ lock = "free" /\ (pc[t] = "set" => ~Offline)
       \/ lock = t

LEMMA ReturnKeeps ==
  ASSUME IInv, NEW t \in {"ui", "ka"}, NEW ok \in BOOLEAN, MayAsk(t), Return(t, ok),
         max_attempts' = max_attempts
  PROVE  /\ tries' \in [Threads -> 0 .. max_attempts']
         /\ PlacesOK' /\ LockInv' /\ TriesInv' /\ ReaderInv' /\ CallInv' /\ ClosedInv'
         /\ stage' = "none" /\ lock' = "free" /\ pc'.rx = pc.rx
         /\ pc'.ui \notin {"establish", "startRequest"} \/ pc'.ui = pc.ui
         /\ pc'.ui = "connect" => pc.ui \in {"startRequest", "connect"}
         /\ pc'.ui = "joinRx" \/ pc.ui # "joinRx"
         /\ ask' \in {ask, NoAsk}
         /\ UNCHANGED <<rx_running, rx_stop, keepalive_stop, call, receiving>>
<1> USE DEF IInv, TypeInv, threads, caller
<1>1. t \in Threads /\ lock' = "free" /\ stage' = "none" /\ ask' \in {ask, NoAsk}
      /\ UNCHANGED <<rx_running, rx_stop, keepalive_stop, call, receiving>>
  BY DEF Return, Threads
<1>2. tries' \in [Threads -> 0 .. max_attempts'] /\ tries'.rx = tries.rx
  <2>1. tries' \in [Threads -> 0 .. max_attempts']
    BY <1>1, TriesReset DEF Return
  <2> QED
    BY <2>1 DEF Return, CountsOK, Threads
<1>3. lock # "rx" /\ pc.rx # "recovering"
  BY DEF MayAsk, LockInv
<1>4. CASE t = "ka"
  <2>1. pc.ka = "ping" /\ ask' = ask
    BY <1>4 DEF MayAsk, PlacesOK, Requesting, Return
  <2>2. Next_pc(t, ok) = "sleeping"
    BY <1>4, <2>1 DEF Next_pc
  <2>3. Moved(pc.ui, "sleeping", pc.rx)
    BY <1>4, <2>2, AllPlaces, KaMoves DEF Return
  <2>4. PlacesOK' /\ LockInv'
    BY <1>1, <1>3, <2>3 DEF Moved, PlacesOK, LockInv
  <2>5. TriesInv'
    BY <1>1, <1>2, <2>3 DEF Moved, TriesInv
  <2>6. ReaderInv' /\ CallInv'
    BY <1>1, <2>1, <2>3 DEF Moved, ReaderInv, CallInv
  <2>7. ClosedInv'
    BY <1>1, <2>1, <2>3 DEF Moved, ClosedInv
  <2> QED
    BY <1>1, <1>2, <2>3, <2>4, <2>5, <2>6, <2>7 DEF Moved
<1>5. CASE t = "ui"
  <2>1. pc.ui \in {"set", "startRequest", "giveUp", "stopRequest"}
    BY <1>5 DEF MayAsk, PlacesOK, CallInv, Requesting
  <2>2. /\ pc.ui = "set" \/ pc.ui = "giveUp" => Next_pc(t, ok) = "idle"
        /\ pc.ui = "startRequest" => Next_pc(t, ok) \in {"idle", "connect"}
        /\ pc.ui = "stopRequest" /\ call = "stop" => Next_pc(t, ok) = "idle"
        /\ pc.ui = "stopRequest" /\ call # "stop" => Next_pc(t, ok) = "stopKeepalive"
    BY <1>5 DEF Next_pc
  <2>3. Next_pc(t, ok) \in {"idle", "connect", "stopKeepalive"}
    BY <2>1, <2>2
  <2>4. Moved(Next_pc(t, ok), pc.ka, pc.rx)
    <3>1. UiGoesTo(Next_pc(t, ok))
      BY <1>5 DEF Return, UiGoesTo
    <3>2. Next_pc(t, ok) \in Places
      BY <2>3, AllPlaces
    <3> QED
      BY <3>1, <3>2, UiMoves
  <2>5. PlacesOK' /\ LockInv'
    BY <1>1, <1>3, <2>3, <2>4 DEF Moved, PlacesOK, LockInv
  <2>6. TriesInv'
    BY <1>1, <1>2, <2>4 DEF Moved, TriesInv
  <2>7. ReaderInv' /\ CallInv'
    BY <1>1, <2>1, <2>2, <2>4 DEF Moved, ReaderInv, CallInv
  <2>8. ClosedInv'
    <3>1. pc.ui = "set" => call # "close"
      BY <1>5 DEF MayAsk, ClosedInv, Offline
    <3> QED
      BY <1>1, <2>1, <2>2, <2>4, <3>1 DEF Moved, CallInv, ClosedInv
  <2> QED
    BY <1>1, <1>2, <2>1, <2>2, <2>3, <2>4, <2>5, <2>6, <2>7, <2>8 DEF Moved
<1> QED
  BY <1>4, <1>5

LEMMA AcknowledgedKeeps ==
  ASSUME IInv, NEW t \in {"ui", "ka"}, MayAsk(t), Acknowledged(t), stage # "replay"
  PROVE  IInv'
<1> USE DEF IInv, TypeInv
<1>1. /\ tries' \in [Threads -> 0 .. max_attempts']
      /\ PlacesOK' /\ LockInv' /\ TriesInv' /\ ReaderInv' /\ CallInv' /\ ClosedInv'
      /\ stage' = "none" /\ lock' = "free" /\ pc'.rx = pc.rx
      /\ pc'.ui \notin {"establish", "startRequest"} \/ pc'.ui = pc.ui
      /\ pc'.ui = "connect" => pc.ui \in {"startRequest", "connect"}
      /\ pc'.ui = "joinRx" \/ pc.ui # "joinRx"
      /\ ask' \in {ask, NoAsk}
      /\ UNCHANGED <<rx_running, rx_stop, keepalive_stop, call, receiving>>
  BY ReturnKeeps DEF Acknowledged
<1>2. UNCHANGED <<serverUp, session, faults, control, link, open, max_attempts, stream>>
  BY DEF Acknowledged
<1>3. armed' \in BOOLEAN
  BY DEF Acknowledged, FlagsOK
<1>4. armed => armed' \/ pc[t] \in {"stopRequest", "giveUp"}
  BY DEF Acknowledged
<1>5. FlagsOK' /\ StatesOK'
  BY <1>1, <1>2, <1>3 DEF FlagsOK, StatesOK
<1>6. CountsOK'
  BY <1>1, <1>2 DEF CountsOK
<1>7. SessionInv' /\ OpenInv'
  BY <1>1, <1>2 DEF SessionInv, OpenInv
<1>8. StreamInv'
  <2>1. pc[t] \in {"stopRequest", "giveUp"} => pc.rx # "reading" /\ pc.ui # "joinRx"
    BY DEF ReaderInv, PlacesOK
  <2> QED
    BY <1>1, <1>2, <1>4, <2>1 DEF StreamInv
<1>9. DataOK' /\ TunedInv'
  <2>1. CASE pc[t] # "set"
    BY <1>1, <1>2, <2>1 DEF Acknowledged, DataOK, TunedInv, Tuned
  <2>2. CASE pc[t] = "set"
    <3>1. ask \in Settings \X Values
      BY <2>2 DEF PlacesOK, CallInv
    <3>2. /\ remote' = [remote EXCEPT ![ask[1]] = Achieved[ask[2]]]
          /\ cached' = [cached EXCEPT ![ask[1]] = Achieved[ask[2]]]
      BY <2>2 DEF Acknowledged
    <3>3. ask[1] \in Settings /\ ask[2] \in Known /\ Achieved[ask[2]] \in Known
          /\ Achieved[Achieved[ask[2]]] = Achieved[ask[2]]
      BY <3>1, AchievedAssumption DEF Known
    <3>4. DataOK'
      BY <1>1, <3>2, <3>3 DEF DataOK
    <3>5. TunedInv'
      BY <1>1, <1>2, <3>2, <3>3, SettingsAssumption DEF DataOK, TunedInv, Tuned
    <3> QED
      BY <3>4, <3>5
  <2> QED
    BY <2>1, <2>2
<1> QED
  BY <1>1, <1>5, <1>6, <1>7, <1>8, <1>9

LEMMA RefusedKeeps ==
  ASSUME IInv, NEW t \in {"ui", "ka"}, MayAsk(t), Refused(t), stage # "replay"
  PROVE  IInv'
<1> USE DEF IInv, TypeInv
<1>1. /\ tries' \in [Threads -> 0 .. max_attempts']
      /\ PlacesOK' /\ LockInv' /\ TriesInv' /\ ReaderInv' /\ CallInv' /\ ClosedInv'
      /\ stage' = "none" /\ lock' = "free" /\ pc'.rx = pc.rx
      /\ pc'.ui \notin {"establish", "startRequest"} \/ pc'.ui = pc.ui
      /\ pc'.ui = "connect" => pc.ui \in {"startRequest", "connect"}
      /\ pc'.ui = "joinRx" \/ pc.ui # "joinRx"
      /\ ask' \in {ask, NoAsk}
      /\ UNCHANGED <<rx_running, rx_stop, keepalive_stop, call, receiving>>
  BY ReturnKeeps DEF Refused, client
<1>2. UNCHANGED <<serverUp, session, armed, remote, client, stream>>
  BY DEF Refused
<1> USE DEF client
<1>3. CountsOK'
  BY <1>1, <1>2, FaultsType DEF Refused, CountsOK
<1>4. FlagsOK' /\ StatesOK' /\ DataOK'
  BY <1>1, <1>2 DEF FlagsOK, StatesOK, DataOK
<1>5. SessionInv' /\ OpenInv' /\ StreamInv' /\ TunedInv'
  BY <1>1, <1>2 DEF SessionInv, OpenInv, StreamInv, TunedInv, Tuned
<1> QED
  BY <1>1, <1>3, <1>4, <1>5

\* A request that finds the link down, and gives up with it or at once.
LEMMA AbandonedKeeps ==
  ASSUME IInv, NEW t \in {"ui", "ka"}, MayAsk(t), Return(t, FALSE), session # "live",
         control' \in {control, "null", "closed"},
         control' = "open" => stage # "replay",
         \/ UNCHANGED <<link, open>>
         \/ link' = "Disconnected" /\ open' = FALSE /\ control' # "open",
         UNCHANGED <<server, cached, max_attempts, stream>>
  PROVE  IInv'
<1> USE DEF IInv, TypeInv, server
<1>1. /\ tries' \in [Threads -> 0 .. max_attempts']
      /\ PlacesOK' /\ LockInv' /\ TriesInv' /\ ReaderInv' /\ CallInv' /\ ClosedInv'
      /\ stage' = "none" /\ lock' = "free" /\ pc'.rx = pc.rx
      /\ pc'.ui \notin {"establish", "startRequest"} \/ pc'.ui = pc.ui
      /\ pc'.ui = "connect" => pc.ui \in {"startRequest", "connect"}
      /\ pc'.ui = "joinRx" \/ pc.ui # "joinRx"
      /\ ask' \in {ask, NoAsk}
      /\ UNCHANGED <<rx_running, rx_stop, keepalive_stop, call, receiving>>
  BY ReturnKeeps
<1>2. CountsOK' /\ DataOK'
  BY <1>1 DEF CountsOK, DataOK
<1>3. FlagsOK' /\ StatesOK'
  <2>1. open' \in BOOLEAN
    BY DEF FlagsOK
  <2> QED
    BY <1>1, <2>1 DEF FlagsOK, StatesOK
<1>4. StreamInv' /\ TunedInv'
  BY <1>1 DEF StatesOK, StreamInv, TunedInv
<1>5. OpenInv'
  BY <1>1 DEF OpenInv
<1>6. SessionInv'
  <2>1. pc.ui # "establish"
    BY DEF MayAsk, Requesting, ReaderInv
  <2> QED
    BY <1>1, <2>1 DEF StatesOK, SessionInv
<1> QED
  BY <1>1, <1>2, <1>3, <1>4, <1>5, <1>6

LEMMA SendKeeps == ASSUME IInv, NEW t \in {"ui", "ka"}, SendRequest(t) PROVE IInv'
<1>1. MayAsk(t) /\ stage = "none"
  BY DEF SendRequest, MayAsk, IInv, LockInv
<1>2. CASE Acknowledged(t) \/ Refused(t)
  BY <1>1, <1>2, AcknowledgedKeeps, RefusedKeeps
<1>3. CASE Lost(t)
  <2>1. session # "live" /\ control' \in {"null", "closed"}
    BY <1>3 DEF Lost, Reachable, Severed, IInv, SessionInv
  <2>2. CASE max_attempts = 0
    BY <1>1, <1>3, <2>1, <2>2, AbandonedKeeps DEF Lost
  <2>3. CASE max_attempts # 0
    <3> USE DEF IInv, TypeInv, Lost, BeginLadder, server, threads, caller
    <3>1. CountsOK'
      BY <1>3, <2>3, TriesReset DEF CountsOK, Threads
    <3>2. FlagsOK' /\ DataOK'
      BY <1>3, <2>3 DEF FlagsOK, DataOK
    <3>3. StatesOK' /\ PlacesOK'
      BY <1>3, <2>1, <2>3 DEF StatesOK, PlacesOK, Threads
    <3>4. LockInv' /\ ReaderInv' /\ CallInv'
      BY <1>1, <1>3, <2>3 DEF SendRequest, MayAsk, LockInv, ReaderInv, CallInv, PlacesOK,
                              Requesting
    <3>5. TriesInv'
      BY <1>3, <2>3 DEF TriesInv, CountsOK, Threads
    <3>6. SessionInv' /\ OpenInv' /\ StreamInv' /\ TunedInv'
      <4>1. pc.ui # "establish"
        BY <1>1 DEF MayAsk, Requesting, ReaderInv
      <4> QED
        BY <1>1, <1>3, <2>1, <2>3, <4>1 DEF StatesOK, SessionInv, OpenInv, StreamInv, TunedInv
    <3>7. ClosedInv'
      BY <1>1, <1>3, <2>3 DEF SendRequest, ClosedInv, PlacesOK, Requesting, Offline
    <3> QED
      BY <3>1, <3>2, <3>3, <3>4, <3>5, <3>6, <3>7
  <2> QED
    BY <2>2, <2>3
<1> QED
  BY <1>2, <1>3 DEF SendRequest

LEMMA LadderKeeps == ASSUME IInv, NEW t \in {"ui", "ka"}, ReconnectControl(t) PROVE IInv'
<1>1. t \in Threads /\ t # "rx" /\ (lock = t => pc[t] \in Requesting)
  BY DEF Threads, IInv, LockInv, Requesting
<1>2. CASE Establish(t)
  BY <1>1, <1>2, EstablishKeeps
<1>3. CASE ReplayTo(t, "retry")
  BY <1>1, <1>3, ReplayKeeps
<1>4. CASE Retry(t)
  <2>1. MayAsk(t) /\ stage = "retry"
    BY <1>1, <1>4 DEF Retry, MayAsk
  <2>2. CASE Acknowledged(t) \/ Refused(t)
    BY <2>1, <2>2, AcknowledgedKeeps, RefusedKeeps
  <2>3. CASE /\ ~Reachable /\ control' = "closed" /\ Return(t, FALSE)
             /\ UNCHANGED <<server, link, open, cached, max_attempts, stream>>
    <3>1. session # "live"
      BY <2>3 DEF Reachable, IInv, SessionInv
    <3> QED
      BY <2>1, <2>3, <3>1, AbandonedKeeps
  <2> QED
    BY <1>4, <2>2, <2>3 DEF Retry
<1>5. CASE GiveUp(t)
  <2>1. MayAsk(t) /\ session # "live" /\ control # "open"
    BY <1>1, <1>5 DEF GiveUp, MayAsk, IInv, SessionInv
  <2> QED
    BY <1>5, <2>1, AbandonedKeeps DEF GiveUp
<1> QED
  BY <1>2, <1>3, <1>4, <1>5 DEF ReconnectControl

-----------------------------------------------------------------------------
(* The initial states, and every step.                                     *)

LEMMA InitIInv == Init => IInv
<1> SUFFICES ASSUME Init PROVE IInv
  OBVIOUS
<1>1. CountsOK
  BY BoundsAssumption DEF Init, CountsOK, Threads
<1>2. FlagsOK
  BY DEF Init, FlagsOK
<1>3. DataOK /\ StatesOK
  BY DEF Init, DataOK, StatesOK
<1>4. PlacesOK
  BY AllPlaces DEF Init, PlacesOK, Threads
<1>5. LockInv /\ ReaderInv /\ CallInv /\ SessionInv
  BY DEF Init, LockInv, ReaderInv, CallInv, SessionInv
<1>6. TriesInv /\ OpenInv /\ StreamInv /\ TunedInv /\ ClosedInv
  BY DEF Init, TriesInv, OpenInv, StreamInv, TunedInv, ClosedInv
<1> QED
  BY <1>1, <1>2, <1>3, <1>4, <1>5, <1>6 DEF IInv, TypeInv

LEMMA NextStep == IInv /\ [Next]_vars => IInv'
<1> SUFFICES ASSUME IInv, [Next]_vars PROVE IInv'
  OBVIOUS
<1>1. CASE UNCHANGED vars
  BY <1>1 DEF IInv, TypeInv, FlagsOK, CountsOK, DataOK, StatesOK, PlacesOK, LockInv, TriesInv,
              ReaderInv, CallInv, SessionInv, OpenInv, StreamInv, TunedInv, Tuned, ClosedInv,
              vars, server, client, ladder, threads, caller
<1>2. CASE Environment
  BY <1>2, EnvironmentStep
<1>3. CASE Calls
  BY <1>3, CallsStep
<1>4. CASE UiStep
  BY <1>4, UiStepKeeps, SendKeeps, LadderKeeps DEF UiStep
<1>5. CASE KaStep
  BY <1>5, KaStepKeeps, SendKeeps, LadderKeeps DEF KaStep
<1>6. CASE RxStep
  <2>1. CASE Establish("rx")
    BY <2>1, EstablishKeeps DEF Threads
  <2>2. CASE ReplayTo("rx", "start")
    BY <2>2, ReplayKeeps DEF Threads
  <2> QED
    BY <1>6, <2>1, <2>2, RxStepKeeps, StreamRequestKeeps, StreamConnectKeeps
       DEF RxStep, Recover
<1> QED
  BY <1>1, <1>2, <1>3, <1>4, <1>5, <1>6 DEF Next

(* The inductive invariant.                                                *)
THEOREM InductiveInvariant == Spec => []IInv
<1> QED
  BY InitIInv, NextStep, PTL DEF Spec

-----------------------------------------------------------------------------
(* Every variable keeps its type; in particular no thread makes more       *)
(* attempts than the policy allows, whichever threads share the ladder.    *)
THEOREM TypeCorrect == Spec => []TypeOK
<1>1. IInv => TypeOK
  BY DEF IInv, TypeInv, FlagsOK, CountsOK, DataOK, StatesOK, PlacesOK, TypeOK
<1> QED
  BY <1>1, InductiveInvariant, PTL

(* A connection in use has the caller's settings, whichever thread         *)
(* reconnected and whatever was set in the meantime.                       *)
THEOREM SettingsSurvive == Spec => []TuningSurvives
<1>1. IInv => TuningSurvives
  BY DEF IInv, LockInv, TunedInv, TuningSurvives
<1> QED
  BY <1>1, InductiveInvariant, PTL

(* Samples come from a tuned device only.                                  *)
THEOREM SamplesAreTuned == Spec => []StreamIsTuned
<1>1. IInv => StreamIsTuned
  BY DEF IInv, SessionInv, StreamInv, TunedInv, StreamIsTuned
<1> QED
  BY <1>1, InductiveInvariant, PTL

(* No thread brings the link back after close() has returned.              *)
THEOREM CloseIsFinal == Spec => []ClosedStaysClosed
<1>1. IInv => ClosedStaysClosed
  BY DEF IInv, ClosedInv, ClosedStaysClosed
<1> QED
  BY <1>1, InductiveInvariant, PTL

=============================================================================
