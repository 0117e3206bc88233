-------------------------- MODULE UsrpRadioProofs ---------------------------
(***************************************************************************)
(* Proofs about UsrpRadio, for a device that misbehaves any number of      *)
(* times.  IInv is the inductive invariant.                                *)
(***************************************************************************)
EXTENDS UsrpRadio, TLAPS

\* The device's streamer is the one handed out last, or none.
NewestInUse == rx_stream # "old"

\* A receiver that was stopped, or never started, has no thread object to
\* join, and a call that joins is made for one that was stopped.
StoppedIsJoined ==
    /\ ui \in {"idle", "moved", "bump"} /\ ~model => rx = "none"
    /\ ui \in {"joining", "joining_ended"} => ~model

\* start_rx() never assigns a std::thread that is still joinable, which would
\* end the program, although a thread that ends by itself clears rx_running_
\* and so makes the radio look stopped.
JoinedBeforeRestart == rx # "terminated"

\* A start command is repeated only while there are attempts left.
RetriesBounded == rx = "start_threw" => attempt < Attempts

IInv ==
    /\ TypeOK
    /\ RetriesBounded
    /\ NewestInUse
    /\ ReplacementIsAnnounced
    /\ StoppedIsJoined
    /\ JoinedBeforeRestart

-----------------------------------------------------------------------------
(* Where the system starts, and what the device does.                      *)

LEMMA InitIInv == Init => IInv
<1> SUFFICES ASSUME Init PROVE IInv
  OBVIOUS
<1>1. TypeOK
  <2>1. attempt \in 0 .. Attempts /\ dry \in 0 .. RebuildAt /\ faults \in 0 .. MaxFaults
    BY MaxFaultsAssumption DEF Init, Attempts, RebuildAt
  <2> QED
    BY <2>1 DEF Init, TypeOK
<1>2. NewestInUse /\ ReplacementIsAnnounced /\ JoinedBeforeRestart
  BY DEF Init, NewestInUse, ReplacementIsAnnounced, JoinedBeforeRestart
<1>3. StoppedIsJoined /\ RetriesBounded
  BY DEF Init, StoppedIsJoined, RetriesBounded
<1> QED
  BY <1>1, <1>2, <1>3 DEF IInv

(* What the device answers to a start command.                             *)
LEMMA AcceptsType ==
  ASSUME TypeOK, Accepts
  PROVE  hw' \in {"on", "silent", "deaf"} /\ faults' \in 0 .. MaxFaults
BY MaxFaultsAssumption DEF TypeOK, Accepts, Misbehaves, Behaves

LEMMA FaultsType ==
  ASSUME TypeOK, Misbehaves \/ Behaves
  PROVE  faults' \in 0 .. MaxFaults
BY MaxFaultsAssumption DEF TypeOK, Misbehaves, Behaves

-----------------------------------------------------------------------------
(* Every step keeps the types.                                             *)

LEMMA ThreadType == ASSUME TypeOK, RetriesBounded, Thread PROVE TypeOK'
<1> USE DEF TypeOK, thread, flags, caller, device
<1>1. CASE LoopHead
  <2>1. moved' \in BOOLEAN /\ rx' \in {"tail", "pickup", "recv"}
    BY <1>1 DEF LoopHead
  <2> QED
    BY <1>1, <2>1 DEF LoopHead
<1>2. CASE Pickup
  <2>1. attempt' \in 0 .. Attempts
    BY <1>2 DEF Pickup, Attempts
  <2> QED
    BY <1>2, <2>1 DEF Pickup
<1>3. CASE StartStream
  <2>1. dry' \in 0 .. RebuildAt
    BY <1>3 DEF StartStream, RebuildAt
  <2> QED
    BY <1>3, <2>1, AcceptsType, FaultsType DEF StartStream
<1>4. CASE StartThrew
  <2>1. attempt' \in 0 .. Attempts
    BY <1>4 DEF StartThrew, RetriesBounded, Attempts
  <2> QED
    BY <1>4, <2>1 DEF StartThrew
<1>5. CASE Receive
  <2>1. dry' \in 0 .. RebuildAt
    BY <1>5 DEF Receive, RebuildAt
  <2> QED
    BY <1>5, <2>1 DEF Receive
<1>6. CASE Starve
  <2>1. dry' \in 0 .. RebuildAt
    BY <1>6 DEF Starve, KickAt, RebuildAt
  <2> QED
    BY <1>6, <2>1, AcceptsType, FaultsType DEF Starve
<1>7. CASE Rebuild
  <2>1. dry' \in 0 .. RebuildAt
    BY <1>7 DEF Rebuild, RebuildAt
  <2> QED
    BY <1>7, <2>1, FaultsType DEF Rebuild
<1>8. CASE RecvFails
  BY <1>8, FaultsType DEF RecvFails
<1>9. CASE RecvThrew
  BY <1>9 DEF RecvThrew
<1>10. CASE Tail
  BY ZenonT(40), <1>10 DEF Tail
<1> QED
  BY <1>1, <1>2, <1>3, <1>4, <1>5, <1>6, <1>7, <1>8, <1>9, <1>10 DEF Thread

LEMMA CallerType == ASSUME TypeOK, Call \/ Return \/ Wedge PROVE TypeOK'
<1> USE DEF TypeOK, thread, flags, caller, device
<1>1. CASE StartRx
  <2>1. attempt' \in 0 .. Attempts /\ dry' \in 0 .. RebuildAt
    BY <1>1 DEF StartRx, Attempts, RebuildAt
  <2> QED
    BY <1>1, <2>1, FaultsType DEF StartRx
<1>2. CASE StopRx
  BY ZenonT(40), <1>2 DEF StopRx
<1>3. CASE MoveClock
  BY <1>3 DEF MoveClock
<1>4. CASE Join
  BY <1>4 DEF Join
<1>5. CASE ReplaceStreamer
  BY <1>5, FaultsType DEF ReplaceStreamer, Replaced
<1>6. CASE BumpGeneration
  BY <1>6 DEF BumpGeneration
<1>7. CASE Wedge
  BY <1>7, FaultsType DEF Wedge
<1> QED
  BY <1>1, <1>2, <1>3, <1>4, <1>5, <1>6, <1>7 DEF Call, Return

-----------------------------------------------------------------------------
(* Every step keeps the rest of the invariant.                             *)

LEMMA ThreadStep == ASSUME IInv, Thread PROVE IInv'
<1> USE DEF thread, flags, caller, device
<1>1. TypeOK'
  BY ThreadType DEF IInv
<1>2. RetriesBounded'
  BY DEF IInv, RetriesBounded, Thread, LoopHead, Pickup, StartStream, StartThrew, Receive,
         Starve, Rebuild, RecvFails, RecvThrew, Tail
<1>3. NewestInUse' /\ JoinedBeforeRestart'
  BY DEF IInv, NewestInUse, JoinedBeforeRestart, Thread, LoopHead, Pickup, StartStream,
         StartThrew, Receive, Starve, Rebuild, RecvFails, RecvThrew, Tail
<1>4. StoppedIsJoined'
  BY DEF IInv, StoppedIsJoined, Thread, LoopHead, Pickup, StartStream, StartThrew, Receive,
         Starve, Rebuild, RecvFails, RecvThrew, Tail
<1>5. ReplacementIsAnnounced'
  <2>1. CASE LoopHead
    BY <2>1 DEF IInv, ReplacementIsAnnounced, LoopHead
  <2>2. CASE Pickup
    BY <2>2 DEF IInv, NewestInUse, ReplacementIsAnnounced, Pickup
  <2>3. CASE StartStream \/ StartThrew \/ RecvFails \/ RecvThrew \/ Tail
    BY <2>3 DEF IInv, ReplacementIsAnnounced, StartStream, StartThrew, RecvFails, RecvThrew,
                Tail
  <2>4. CASE Receive \/ Starve \/ Rebuild
    BY <2>4 DEF IInv, ReplacementIsAnnounced, Receive, Starve, Rebuild
  <2> QED
    BY <2>1, <2>2, <2>3, <2>4 DEF Thread
<1> QED
  BY <1>1, <1>2, <1>3, <1>4, <1>5 DEF IInv

LEMMA CallerStep == ASSUME IInv, Call \/ Return \/ Wedge PROVE IInv'
<1> USE DEF thread, flags, caller, device
<1>1. TypeOK'
  BY CallerType DEF IInv
<1>2. RetriesBounded'
  BY DEF IInv, RetriesBounded, Call, Return, StartRx, StopRx, MoveClock, Join,
         ReplaceStreamer, BumpGeneration, Wedge
<1>3. NewestInUse'
  BY DEF IInv, NewestInUse, Call, Return, StartRx, StopRx, MoveClock, Join,
         ReplaceStreamer, BumpGeneration, Wedge
<1>4. JoinedBeforeRestart'
  BY DEF IInv, JoinedBeforeRestart, StoppedIsJoined, Joinable, Call, Return, StartRx, StopRx,
         MoveClock, Join, ReplaceStreamer, BumpGeneration, Wedge
<1>5. StoppedIsJoined'
  BY DEF IInv, TypeOK, StoppedIsJoined, Joinable, Call, Return, StartRx, StopRx, MoveClock,
         Join, ReplaceStreamer, BumpGeneration, Wedge
<1>6. ReplacementIsAnnounced'
  BY DEF IInv, ReplacementIsAnnounced, Replaced, Call, Return, StartRx, StopRx, MoveClock,
         Join, ReplaceStreamer, BumpGeneration, Wedge
<1> QED
  BY <1>1, <1>2, <1>3, <1>4, <1>5, <1>6 DEF IInv

LEMMA NextStep == IInv /\ [Next]_vars => IInv'
<1> SUFFICES ASSUME IInv, [Next]_vars PROVE IInv'
  OBVIOUS
<1>1. CASE UNCHANGED vars
  BY <1>1 DEF IInv, TypeOK, RetriesBounded, NewestInUse, ReplacementIsAnnounced,
              StoppedIsJoined, JoinedBeforeRestart, vars, thread, flags, caller, device
<1> QED
  BY <1>1, ThreadStep, CallerStep DEF Next

(* The inductive invariant.                                                *)
THEOREM InductiveInvariant == Spec => []IInv
<1> QED
  BY InitIInv, NextStep, PTL DEF Spec

-----------------------------------------------------------------------------
(* The types, for any number of faults: in particular neither the attempts *)
(* of a start command nor the dry windows of the watchdog pass their       *)
(* limits.                                                                 *)
THEOREM TypeCorrect == Spec => []TypeOK
<1>1. IInv => TypeOK
  BY DEF IInv
<1> QED
  BY <1>1, InductiveInvariant, PTL

(* A streamer is never replaced behind the RX thread's back.               *)
THEOREM ReplacementAnnounced == Spec => []ReplacementIsAnnounced
<1>1. IInv => ReplacementIsAnnounced
  BY DEF IInv
<1> QED
  BY <1>1, InductiveInvariant, PTL

(* start_rx() is never the one to find a thread object still joinable.     *)
THEOREM ThreadIsJoined == Spec => []JoinedBeforeRestart
<1>1. IInv => JoinedBeforeRestart
  BY DEF IInv
<1> QED
  BY <1>1, InductiveInvariant, PTL
=============================================================================
