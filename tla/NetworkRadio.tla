---------------------------- MODULE NetworkRadio ----------------------------
(***************************************************************************)
(* radio::NetworkRadio (src/src/radio/network_radio.cpp): one remote SDR   *)
(* behind a control connection (requests and replies, one mutex around     *)
(* them) and a stream connection (IQ frames), and the machinery that puts  *)
(* both back after a drop.  Three threads of the client take steps:        *)
(*   "ui"  calls open, close, start_rx, stop_rx and the setters;           *)
(*   "ka"  keepalive_main: pings, so that an idle link is noticed;         *)
(*   "rx"  rx_thread_main and recover_stream.                              *)
(* Any of them may be the one that runs the retry ladder.  The server and  *)
(* the network are the environment: they fail at most MaxFaults times.     *)
(*                                                                         *)
(* One request is one step (config_mutex_ is held throughout, and what the *)
(* environment does during it is as if done before or after it).  The      *)
(* ladder is a step per connection it makes, because outages and the other *)
(* threads' unlocked stores happen while it runs.  `reconnecting_` has no  *)
(* variable: it is TRUE exactly while lock # "free" and stage # "none" in  *)
(* a thread other than "rx", and no request is begun then.                 *)
(*                                                                         *)
(* ReplayBestEffort, StopKeepaliveLocked, LeaveKeepalive, WakeIfOpen and   *)
(* RecoverUnreplayed are faulty variants of the definitions they precede.  *)
(* No specification uses them: each is a mistake that one of the           *)
(* properties has to catch.                                                *)
(***************************************************************************)
EXTENDS Integers

CONSTANTS
    Settings,   \* what can be set on the remote device
    Replayed,   \* those replay_settings() sends: rate, frequency, gain...
    ZeroIsAbsence,  \* those not replayed at 0: rate, frequency, bandwidth
    Seeded,     \* those open() re-initialises from the server's caps
    Values,     \* what a caller may ask for
    Achieved,   \* what the device really gives for each value asked
    Unset,      \* 0.0, in a cached setting the server publishes no range of
    Lowest,     \* the bottom of a published range
    Default,    \* where a freshly opened device stands
    Policies,   \* values of ReconnectPolicy::max_attempts
    MaxFaults,  \* bound on the failures of server and network
    HalfOpen    \* TRUE: an outage can leave the stream socket half open

Known == Values \cup {Lowest}

ASSUME SettingsAssumption ==
    /\ Replayed \subseteq Settings /\ Seeded \subseteq Settings
    /\ Replayed \subseteq Seeded /\ ZeroIsAbsence \subseteq Settings
ASSUME ValuesAssumption == Unset \notin Known /\ Default \notin Known /\ Lowest \notin Values
ASSUME AchievedAssumption ==
    /\ Achieved \in [Known \cup {Unset} -> Known]
    /\ \A v \in Known : Achieved[Achieved[v]] = Achieved[v]
ASSUME BoundsAssumption ==
    /\ Policies \subseteq Nat /\ MaxFaults \in Nat
    /\ HalfOpen \in BOOLEAN

VARIABLES
    serverUp,    \* the server accepts connections
    session,     \* "live" while the server holds our control session
    armed,       \* ... and has been told to stream on it
    remote,      \* the device's settings in that session
    faults,      \* failures so far
    control,     \* control_: "null", or an object that is "open" or "closed"
    link,        \* link_state_
    open,        \* open_
    cached,      \* rx_freq_, lo_offset_, ...
    max_attempts,
    lock, stage, \* config_mutex_'s owner, and what the owner is half-way through
    tries,       \* attempts used in each thread's current ladder
    stream,      \* stream_socket_: "none", "live", "ended", "silent"
    rx_running, rx_stop, keepalive_stop,
    pc,          \* where each thread is
    call, ask,   \* the ui thread's call, and its setting and value
    receiving    \* ReceiverModel::running_, which guards start_rx

server == <<serverUp, session, armed, remote, faults>>
client == <<control, link, open, cached, max_attempts>>
ladder == <<lock, stage, tries>>
threads == <<rx_running, rx_stop, keepalive_stop, pc>>
caller == <<call, ask, receiving>>
vars == <<server, client, ladder, stream, threads, caller>>

Threads == {"ui", "ka", "rx"}
NoAsk == <<>>

Init ==
    /\ serverUp \in BOOLEAN /\ session = "none" /\ armed = FALSE /\ faults = 0
    /\ remote = [s \in Settings |-> Default]
    /\ control = "null" /\ link = "Disconnected" /\ open = FALSE
    /\ cached = [s \in Settings |-> Unset]
    /\ max_attempts \in Policies
    /\ lock = "free" /\ stage = "none" /\ tries = [t \in Threads |-> 0]
    /\ stream = "none"
    /\ rx_running = FALSE /\ rx_stop = FALSE /\ keepalive_stop = FALSE
    /\ pc = [ui |-> "idle", ka |-> "none", rx |-> "none"]
    /\ call = "none" /\ ask = NoAsk /\ receiving = FALSE

-----------------------------------------------------------------------------
(* The server and the network.                                             *)

Fail == faults < MaxFaults /\ faults' = faults + 1

\* The session is gone on the server's side; the client has not noticed.
\* Its stream ends with it, or, when the host vanished, just falls silent.
LoseSession ==
    /\ session' = "none" /\ armed' = FALSE
    /\ stream' \in IF stream = "live"
                   THEN {"ended"} \cup (IF HalfOpen THEN {"silent"} ELSE {})
                   ELSE {stream}
    /\ UNCHANGED <<remote, client, ladder, threads, caller>>

ServerStops == serverUp /\ Fail /\ serverUp' = FALSE /\ LoseSession

ControlDrops == session = "live" /\ Fail /\ LoseSession /\ UNCHANGED serverUp

StreamDrops ==
    /\ stream = "live" /\ Fail /\ stream' = "ended"
    /\ UNCHANGED <<serverUp, session, armed, remote, client, ladder, threads, caller>>

ServerStarts ==
    /\ ~serverUp /\ serverUp' = TRUE
    /\ UNCHANGED <<session, armed, remote, faults, client, ladder, stream, threads, caller>>

-----------------------------------------------------------------------------
(* Requests.  A thread at one of these places has something to ask, and    *)
(* waits for config_mutex_.                                                *)

Requesting == {"set", "startRequest", "giveUp", "stopRequest", "ping"}

Reachable == control = "open" /\ session = "live"
Offline == control = "null" \/ ~open

\* Where a thread goes on when the request it made at pc[t] has returned.
Next_pc(t, ok) ==
    CASE pc[t] = "ping" -> "sleeping"
      [] pc[t] = "startRequest" /\ ok -> "connect"
      [] pc[t] = "stopRequest" /\ call # "stop" -> "stopKeepalive"
      [] OTHER -> "idle"

Return(t, ok) ==
    /\ pc' = [pc EXCEPT ![t] = Next_pc(t, ok)]
    /\ lock' = "free" /\ stage' = "none" /\ tries' = [tries EXCEPT ![t] = 0]
    /\ ask' = IF t = "ui" THEN NoAsk ELSE ask
    /\ UNCHANGED <<rx_running, rx_stop, keepalive_stop, call, receiving>>

\* ok:true.  A setter caches the value the reply carries.
Acknowledged(t) ==
    /\ Reachable
    /\ IF pc[t] = "set"
       THEN /\ remote' = [remote EXCEPT ![ask[1]] = Achieved[ask[2]]]
            /\ cached' = [cached EXCEPT ![ask[1]] = Achieved[ask[2]]]
       ELSE UNCHANGED <<remote, cached>>
    /\ armed' = CASE pc[t] = "startRequest" -> TRUE
                  [] pc[t] \in {"stopRequest", "giveUp"} -> FALSE
                  [] OTHER -> armed
    /\ Return(t, TRUE)
    /\ UNCHANGED <<serverUp, session, faults, control, link, open, max_attempts, stream>>

\* ok:false: the server is there and said no.
Refused(t) ==
    /\ Reachable /\ Fail /\ Return(t, FALSE)
    /\ UNCHANGED <<serverUp, session, armed, remote, client, stream>>

\* send_request_once found no connection, or lost it waiting for the reply.
Severed == IF control = "null" THEN "null" ELSE "closed"

BeginLadder(t) ==
    /\ lock' = t /\ stage' = "establish" /\ tries' = [tries EXCEPT ![t] = 0]
    /\ link' = "Reconnecting"
    /\ UNCHANGED <<open, threads, caller>>

Lost(t) ==
    /\ ~Reachable /\ control' = Severed
    /\ IF max_attempts = 0
       THEN link' = "Disconnected" /\ open' = FALSE /\ Return(t, FALSE)
       ELSE BeginLadder(t)
    /\ UNCHANGED <<server, cached, max_attempts, stream>>

SendRequest(t) ==
    /\ pc[t] \in Requesting /\ lock = "free"
    /\ pc[t] = "set" => ~Offline
    /\ Acknowledged(t) \/ Refused(t) \/ Lost(t)

-----------------------------------------------------------------------------
(* establish() and replay_settings(), as the ladder of send_request and as *)
(* an attempt of recover_stream.                                           *)

\* Another attempt.  The ladder keeps the mutex; recover_stream gives it back.
AttemptFailed(t) ==
    /\ tries' = [tries EXCEPT ![t] = @ + 1]
    /\ IF t = "rx" THEN lock' = "free" /\ stage' = "none" /\ pc' = [pc EXCEPT !.rx = "backoff"]
                   ELSE stage' = "establish" /\ UNCHANGED <<lock, pc>>
    /\ UNCHANGED <<rx_running, rx_stop, keepalive_stop, caller>>

\* Connected, hello, open: a new session, on a device at its defaults.
NewSession ==
    /\ control' = "open" /\ session' = "live" /\ armed' = FALSE
    /\ remote' = [s \in Settings |-> Default]

\* No listener: control_ is kept.  A failed hello or open: control_ is reset.
NoSession ==
    /\ \/ ~serverUp /\ UNCHANGED <<control, faults>>
       \/ serverUp /\ Fail /\ control' = "null"
    /\ UNCHANGED <<serverUp, session, armed, remote>>

Establish(t) ==
    /\ lock = t /\ stage = "establish" /\ tries[t] < max_attempts
    /\ \/ /\ serverUp /\ NewSession /\ stage' = "replay"
          /\ UNCHANGED <<serverUp, faults, lock, tries, threads, caller>>
       \/ NoSession /\ AttemptFailed(t)
    /\ UNCHANGED <<link, open, cached, max_attempts, stream>>

\* A frequency of 0 is none; a gain of 0 is a gain.
Sent == {s \in Replayed : cached[s] # Unset \/ s \notin ZeroIsAbsence}

\* The device's settings once replay_settings() has sent the cached ones.
Replay ==
    [s \in Settings |-> IF s \in Sent THEN Achieved[cached[s]] ELSE remote[s]]

ReplayBestEffort(t, next) ==
    /\ lock = t /\ stage = "replay"
    /\ \/ session = "live" /\ remote' = Replay /\ UNCHANGED faults
       \/ session = "live" /\ Fail /\ UNCHANGED remote
       \/ session = "none" /\ UNCHANGED <<remote, faults>>
    /\ link' = "Connected" /\ open' = TRUE /\ stage' = next
    /\ UNCHANGED <<serverUp, session, armed, control, lock, tries, threads, caller,
                   cached, max_attempts, stream>>

ReplayTo(t, next) ==
    /\ lock = t /\ stage = "replay"
    /\ \/ /\ session = "live" /\ remote' = Replay
          /\ link' = "Connected" /\ open' = TRUE /\ stage' = next
          /\ UNCHANGED <<serverUp, session, armed, faults, control, lock, tries, threads, caller>>
       \/ /\ \/ session = "none" /\ UNCHANGED faults
             \/ session = "live" /\ Fail
          /\ control' = "null" /\ session' = "none" /\ AttemptFailed(t)
          /\ UNCHANGED <<serverUp, armed, remote, link, open>>
    /\ UNCHANGED <<cached, max_attempts, stream>>

\* The request that found the link down is sent once more.
Retry(t) ==
    /\ lock = t /\ t # "rx" /\ stage = "retry"
    /\ \/ Acknowledged(t)
       \/ Refused(t)
       \/ /\ ~Reachable /\ control' = "closed" /\ Return(t, FALSE)
          /\ UNCHANGED <<server, link, open, cached, max_attempts, stream>>

GiveUp(t) ==
    /\ lock = t /\ stage = "establish" /\ tries[t] = max_attempts
    /\ link' = "Disconnected" /\ open' = FALSE /\ Return(t, FALSE)
    /\ UNCHANGED <<server, control, cached, max_attempts, stream>>

ReconnectControl(t) ==
    t # "rx" /\ (Establish(t) \/ ReplayTo(t, "retry") \/ Retry(t) \/ GiveUp(t))

-----------------------------------------------------------------------------
(* The ui thread: DeviceView, ReceiverModel and the apps behind it.        *)

UiAt(place) == pc.ui = place
UiGoesTo(place) == pc' = [pc EXCEPT !.ui = place]

CallSet(s, v) ==
    /\ UiAt("idle") /\ UiGoesTo("set") /\ ask' = <<s, v>>
    /\ UNCHANGED <<server, client, ladder, stream, rx_running, rx_stop, keepalive_stop, call, receiving>>

\* Nothing to send it to: the value is kept for later.
SetOffline ==
    /\ UiAt("set") /\ lock = "free" /\ Offline
    /\ cached' = [cached EXCEPT ![ask[1]] = ask[2]]
    /\ UiGoesTo("idle") /\ ask' = NoAsk
    /\ UNCHANGED <<server, control, link, open, max_attempts, ladder, stream,
                   rx_running, rx_stop, keepalive_stop, call, receiving>>

\* ReceiverModel::start() returns before start_rx() if it is running already.
CallStartRx ==
    /\ UiAt("idle") /\ ~receiving /\ ~rx_running /\ open
    /\ UiGoesTo("startRequest") /\ call' = "start"
    /\ UNCHANGED <<server, client, ladder, stream, rx_running, rx_stop, keepalive_stop, ask, receiving>>

\* What a stream socket is good for that names the client's session: frames
\* come if that session is armed; otherwise the server hangs up, or is mute.
Attached ==
    IF session = "live" /\ armed THEN {"live"}
    ELSE {"ended"} \cup (IF HalfOpen THEN {"silent"} ELSE {})

StartThread ==
    /\ UiAt("connect") /\ serverUp
    /\ stream' \in Attached
    /\ rx_stop' = FALSE /\ rx_running' = TRUE /\ receiving' = TRUE
    /\ pc' = [pc EXCEPT !.ui = "idle", !.rx = "reading"]
    /\ UNCHANGED <<server, client, ladder, keepalive_stop, call, ask>>

StreamRefused ==
    /\ UiAt("connect")
    /\ \/ ~serverUp /\ UNCHANGED faults
       \/ serverUp /\ Fail
    /\ UiGoesTo("giveUp")
    /\ UNCHANGED <<serverUp, session, armed, remote, client, ladder, stream,
                   rx_running, rx_stop, keepalive_stop, caller>>

\* stop_rx(), on its own or as the first thing close() and open() do.  A
\* reader that has ended by itself is only joined.
CallStopRx(c) ==
    /\ UiAt("idle") /\ call' = c /\ receiving' = FALSE
    /\ IF rx_running
       THEN rx_stop' = TRUE /\ UiGoesTo("joinRx")
       ELSE /\ pc' = [pc EXCEPT !.rx = "none",
                                !.ui = IF c = "stop" THEN "idle" ELSE "stopKeepalive"]
            /\ UNCHANGED rx_stop
    /\ UNCHANGED <<server, client, ladder, stream, rx_running, keepalive_stop, ask>>

JoinRx ==
    /\ UiAt("joinRx") /\ pc.rx = "done"
    /\ pc' = [pc EXCEPT !.rx = "none", !.ui = "stopRequest"]
    /\ rx_running' = FALSE /\ stream' = "none"
    /\ UNCHANGED <<server, client, ladder, rx_stop, keepalive_stop, caller>>

StopKeepaliveLocked ==
    /\ UiAt("stopKeepalive") /\ lock = "free" /\ lock' = "ui"
    /\ keepalive_stop' = TRUE /\ UiGoesTo("joinKeepalive")
    /\ UNCHANGED <<server, client, stage, tries, stream, rx_running, rx_stop, caller>>

StopKeepalive ==
    /\ UiAt("stopKeepalive") /\ keepalive_stop' = TRUE /\ UiGoesTo("joinKeepalive")
    /\ UNCHANGED <<server, client, ladder, stream, rx_running, rx_stop, caller>>

LeaveKeepalive ==
    /\ UiAt("joinKeepalive") /\ UiGoesTo("shut")
    /\ UNCHANGED <<server, client, ladder, stream, rx_running, rx_stop, keepalive_stop, caller>>

JoinKeepalive ==
    /\ UiAt("joinKeepalive") /\ pc.ka \in {"none", "done"}
    /\ pc' = [pc EXCEPT !.ka = "none", !.ui = "shut"]
    /\ UNCHANGED <<server, client, ladder, stream, rx_running, rx_stop, keepalive_stop, caller>>

\* The rest of close(), under the mutex.
Shut ==
    /\ UiAt("shut") /\ lock = "free"
    /\ control' = "null" /\ link' = "Disconnected" /\ open' = FALSE
    /\ session' = "none" /\ armed' = FALSE
    /\ UiGoesTo(IF call = "open" THEN "establish" ELSE "idle")
    /\ UNCHANGED <<serverUp, remote, faults, cached, max_attempts, ladder, stream,
                   rx_running, rx_stop, keepalive_stop, caller>>

\* open() after its close(): the only thread left is this one.
Opened ==
    /\ UiAt("establish") /\ serverUp /\ NewSession
    /\ \E seed \in {Unset, Lowest} :
         cached' = [s \in Settings |-> IF s \in Seeded THEN seed ELSE cached[s]]
    /\ link' = "Connected" /\ open' = TRUE
    /\ keepalive_stop' = FALSE /\ pc' = [pc EXCEPT !.ui = "idle", !.ka = "sleeping"]
    /\ UNCHANGED <<serverUp, faults, max_attempts, ladder, stream, rx_running, rx_stop, caller>>

NotOpened ==
    /\ UiAt("establish") /\ NoSession /\ UiGoesTo("idle")
    /\ UNCHANGED <<link, open, cached, max_attempts, ladder, stream,
                   rx_running, rx_stop, keepalive_stop, caller>>

-----------------------------------------------------------------------------
(* keepalive_main                                                          *)

KeepaliveGoesTo(place) ==
    /\ pc' = [pc EXCEPT !.ka = place]
    /\ UNCHANGED <<server, client, ladder, stream, rx_running, rx_stop, keepalive_stop, caller>>

WakeIfOpen == open /\ pc.ka = "sleeping" /\ ~keepalive_stop /\ KeepaliveGoesTo("ping")

Wake == pc.ka = "sleeping" /\ ~keepalive_stop /\ KeepaliveGoesTo("ping")
KeepaliveEnds == pc.ka = "sleeping" /\ keepalive_stop /\ KeepaliveGoesTo("done")

-----------------------------------------------------------------------------
(* rx_thread_main and recover_stream                                       *)

RxAt(place) == pc.rx = place

RxGoesTo(place) ==
    /\ pc' = [pc EXCEPT !.rx = place]
    /\ UNCHANGED <<rx_stop, keepalive_stop>>

\* The last thing the thread does; join() waits for it.
RxEnds == RxGoesTo("done") /\ rx_running' = FALSE

RxStopped ==
    /\ rx_stop /\ (RxAt("reading") \/ (RxAt("backoff") /\ tries.rx < max_attempts)) /\ RxEnds
    /\ UNCHANGED <<server, client, ladder, stream, caller>>

StreamLost ==
    /\ RxAt("reading") /\ stream = "ended" /\ ~rx_stop
    /\ IF max_attempts = 0
       THEN RxEnds /\ UNCHANGED <<stream, tries>>
       ELSE RxGoesTo("backoff") /\ stream' = "none" /\ tries' = [tries EXCEPT !.rx = 0]
                                /\ UNCHANGED rx_running
    /\ UNCHANGED <<server, client, lock, stage, caller>>

\* backoff_sleep() ran its course; rx_stop is not looked at again.
BackedOff ==
    /\ RxAt("backoff") /\ ~rx_stop /\ tries.rx < max_attempts
    /\ RxGoesTo("locking")
    /\ UNCHANGED <<server, client, ladder, stream, rx_running, caller>>

RecoverBegins ==
    /\ RxAt("locking") /\ lock = "free" /\ lock' = "rx"
    /\ IF control = "open" THEN stage' = "start" /\ UNCHANGED link
                           ELSE stage' = "establish" /\ link' = "Reconnecting"
    /\ RxGoesTo("recovering")
    /\ UNCHANGED <<server, control, open, cached, max_attempts, tries, stream, rx_running, caller>>

\* start_rx on the (new) session, without the ladder.
StreamRequest ==
    /\ lock = "rx" /\ stage = "start"
    /\ \/ /\ Reachable /\ armed' = TRUE /\ stage' = "connect"
          /\ UNCHANGED <<control, faults, lock, tries, threads, caller>>
       \/ Reachable /\ Fail /\ AttemptFailed("rx") /\ UNCHANGED <<control, armed>>
       \/ ~Reachable /\ control' = Severed /\ AttemptFailed("rx") /\ UNCHANGED <<armed, faults>>
    /\ UNCHANGED <<serverUp, session, remote, link, open, cached, max_attempts, stream>>

StreamConnect ==
    /\ lock = "rx" /\ stage = "connect"
    /\ \/ /\ serverUp /\ stream' \in Attached
          /\ lock' = "free" /\ stage' = "none" /\ tries' = [tries EXCEPT !.rx = 0]
          /\ RxGoesTo("reading") /\ UNCHANGED <<faults, rx_running, caller>>
       \/ /\ \/ ~serverUp /\ UNCHANGED faults
             \/ serverUp /\ Fail
          /\ AttemptFailed("rx") /\ UNCHANGED stream
    /\ UNCHANGED <<serverUp, session, armed, remote, client>>

\* The attempts are spent.  Two stores, and the mutex is not held for either.
RecoverGivesUp ==
    /\ RxAt("backoff") /\ tries.rx = max_attempts
    /\ link' = "Disconnected" /\ RxGoesTo("gaveUp") /\ tries' = [tries EXCEPT !.rx = 0]
    /\ UNCHANGED <<server, control, open, cached, max_attempts, lock, stage, stream, rx_running, caller>>

RecoverFailed ==
    /\ RxAt("gaveUp") /\ open' = FALSE /\ RxEnds
    /\ UNCHANGED <<server, control, link, cached, max_attempts, ladder, stream, caller>>

SkipReplay ==
    /\ lock = "rx" /\ stage = "replay" /\ stage' = "start"
    /\ link' = "Connected" /\ open' = TRUE
    /\ UNCHANGED <<server, control, cached, max_attempts, lock, tries, stream, threads, caller>>

RecoverUnreplayed ==
    RecoverBegins \/ Establish("rx") \/ SkipReplay \/ StreamRequest \/ StreamConnect

Recover ==
    RecoverBegins \/ Establish("rx") \/ ReplayTo("rx", "start") \/ StreamRequest \/ StreamConnect

-----------------------------------------------------------------------------
Environment == ServerStops \/ ControlDrops \/ StreamDrops \/ ServerStarts

Calls ==
    \/ \E s \in Settings, v \in Values : CallSet(s, v)
    \/ CallStartRx
    \/ \E c \in {"stop", "close", "open"} : CallStopRx(c)

UiStep ==
    \/ SendRequest("ui") \/ ReconnectControl("ui")
    \/ SetOffline \/ StartThread \/ StreamRefused \/ JoinRx
    \/ StopKeepalive \/ JoinKeepalive \/ Shut \/ Opened \/ NotOpened

KaStep == Wake \/ KeepaliveEnds \/ SendRequest("ka") \/ ReconnectControl("ka")

RxStep == RxStopped \/ StreamLost \/ BackedOff \/ Recover \/ RecoverGivesUp \/ RecoverFailed

Next == Environment \/ Calls \/ UiStep \/ KaStep \/ RxStep

Spec == Init /\ [][Next]_vars

(***************************************************************************)
(* A thread that can always step does, and one that finds the mutex free   *)
(* again and again gets it: the keepalive holds it for one request every   *)
(* two seconds, the stream's recovery sleeps between its attempts, and     *)
(* nothing holds it for ever.  Nothing is assumed of callers or outages.   *)
(***************************************************************************)
FairSpec == Spec /\ SF_vars(UiStep) /\ SF_vars(KaStep) /\ SF_vars(RxStep)

-----------------------------------------------------------------------------
(* Properties                                                              *)

\* Every variable keeps the shape Init gives it.
TypeOK ==
    /\ serverUp \in BOOLEAN /\ session \in {"none", "live"} /\ armed \in BOOLEAN
    /\ remote \in [Settings -> Known \cup {Default}] /\ faults \in 0 .. MaxFaults
    /\ control \in {"null", "open", "closed"} /\ open \in BOOLEAN
    /\ link \in {"Connected", "Reconnecting", "Disconnected"}
    /\ cached \in [Settings -> Known \cup {Unset}] /\ max_attempts \in Policies
    /\ lock \in Threads \cup {"free"}
    /\ stage \in {"none", "establish", "replay", "retry", "start", "connect"}
    /\ tries \in [Threads -> 0 .. max_attempts]
    /\ stream \in {"none", "live", "ended", "silent"}
    /\ rx_running \in BOOLEAN /\ rx_stop \in BOOLEAN /\ keepalive_stop \in BOOLEAN
    /\ pc.ui \in Requesting \cup {"idle", "connect", "joinRx", "stopKeepalive",
                                  "joinKeepalive", "shut", "establish"}
    /\ pc.ka \in {"none", "sleeping", "ping", "done"}
    /\ pc.rx \in {"none", "reading", "backoff", "locking", "recovering", "gaveUp", "done"}
    /\ call \in {"none", "start", "stop", "close", "open"} /\ receiving \in BOOLEAN
    /\ ask \in {NoAsk} \cup (Settings \X Values)

\* The device stands where the cached settings say, for those that a caller
\* has asked for and that a reconnect sends again.
Tuned == \A s \in Replayed : cached[s] \in Values => remote[s] = Achieved[cached[s]]

(***************************************************************************)
(* A connection in use is a tuned one: whichever thread reconnected, and   *)
(* whatever was set while the link was away, the session behind a link     *)
(* that says Connected and open has the caller's settings ("a connection   *)
(* we cannot put back into the caller's configuration is worse than no     *)
(* connection", reconnect_control).                                        *)
(***************************************************************************)
TuningSurvives ==
    (link = "Connected" /\ open /\ session = "live" /\ lock = "free") => Tuned

(***************************************************************************)
(* Samples come from a tuned device only: no stream is ever attached to a  *)
(* session that recover_stream or a setter left at the device's defaults.  *)
(***************************************************************************)
StreamIsTuned == stream = "live" => Tuned

(***************************************************************************)
(* After close() returns, no thread that was reconnecting while it ran can *)
(* bring the link back up behind the caller's back.                        *)
(***************************************************************************)
ClosedStaysClosed ==
    (call = "close" /\ pc.ui \in {"idle", "set"}) =>
        control = "null" /\ link = "Disconnected" /\ ~open /\ session = "none"

(***************************************************************************)
(* Every call returns, whatever the other threads are in the middle of:    *)
(* close() and stop_rx() join threads that take config_mutex_ themselves.  *)
(***************************************************************************)
CallsReturn == ~UiAt("idle") ~> UiAt("idle")

(***************************************************************************)
(* If the server is back to stay and the radio was opened, the keepalive   *)
(* finds it, even long after the ladder gave up (keepalive_main), as long  *)
(* as there never was a stream and reconnecting is not switched off.       *)
(***************************************************************************)
Restored ==
    <>[](serverUp /\ max_attempts > 0 /\ pc.ka \in {"sleeping", "ping"})
        => <>[](link = "Connected" /\ open)
LinkRecovers == [](pc.rx = "none") => Restored

(***************************************************************************)
(* "...which is what makes an sdrlink server that is restarted ...         *)
(* reconnect on its own" (network_radio.hpp, of the keepalive): the same   *)
(* with a stream.                                                          *)
(***************************************************************************)
KeepaliveRestores == Restored

(***************************************************************************)
(* "...and restarts the IQ stream if one was running" (network_radio.hpp): *)
(* while the receiver believes it is receiving and the server is there,    *)
(* samples come again.                                                     *)
(***************************************************************************)
StreamComesBack == <>[](serverUp /\ receiving) => []<>(stream = "live")

(***************************************************************************)
(* "Re-applies the cached settings to a freshly established connection so  *)
(* the caller's tuning survives the drop" (replay_settings): a reconnect   *)
(* leaves the device where every cached setting says.                      *)
(***************************************************************************)
EveryCachedSettingSurvives ==
    [][stage = "replay" /\ link' = "Connected" =>
         \A s \in Settings : cached[s] \in Values => remote'[s] = Achieved[cached[s]]]_vars
=============================================================================
