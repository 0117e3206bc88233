----------------------------- MODULE WebDevice -----------------------------
(***************************************************************************)
(* The web GUI's device over the control connection                        *)
(* (src/webgui/internal/webadapter/{backend,device,fanout}.go), the HTTP   *)
(* handlers that use it (web/handlers.go) and the socket that shows the    *)
(* spectrum (web/spectrum.go).                                             *)
(*                                                                         *)
(* An HTTP request runs on one of the Callers and is cut where it takes    *)
(* or releases a lock and where it waits for a reply.  Only OpenDevice     *)
(* holds the backend's lock over a call.  Adapters are numbered.  The      *)
(* server (external) serves in order; its replies may overtake one         *)
(* another, come late or twice.  The samples, the poll of the statistics   *)
(* and get_stats, whose failure is ignored, are left out.                  *)
(*                                                                         *)
(* Bounds: MaxRequests HTTP requests, MaxFaults faults (any command        *)
(* refused, close_device too, a reply that is late or comes twice, a       *)
(* failed dial, the end of the connection), frequencies in Freqs, and the  *)
(* requests that come in Ops.                                              *)
(*                                                                         *)
(* A timer that fires is a fault here, and no fairness is asked of it.     *)
(*                                                                         *)
(* LeavesItOpen, ClosesAnyway and SubscribesOnce are faulty variants of    *)
(* the definitions they precede; nothing uses them.                        *)
(***************************************************************************)
EXTENDS SdrClient

CONSTANTS Freqs, MaxRequests, MaxFaults, Ops

VARIABLES
    http,        \* what each caller is doing: the handler's place, its device
    lock,        \* Backend.mu: whether an OpenDevice holds it
    current,     \* Backend.current, 0 for none
    adapter,     \* the adapters made: Streaming, the stream, the frequency
    subs,        \* the adapters whose fanout has the socket's channel
    watch,       \* the spectrum socket: curDev, and what a tick has seen
    shut,        \* the channels that have been closed
    panicked,    \* a channel was closed twice
    server,      \* external: what the server holds; kept: it has refused to
                 \* close the device
    made, faults, late

device == <<http, lock, current, adapter, subs, watch, shut, panicked>>
vars == <<client, device, server, made, faults, late>>

Idle == [op |-> "none", at |-> "idle", dev |-> 0, freq |-> 0]
NoWatch == [dev |-> 0, seen |-> {}]
Fresh(freq) == [streaming |-> FALSE, stream |-> FALSE, freq |-> freq]

Init ==
    /\ ClientInit
    /\ http = [c \in Callers |-> Idle] /\ lock = FALSE
    /\ current = 0 /\ adapter = <<>> /\ subs = {}
    /\ watch = NoWatch /\ shut = {} /\ panicked = FALSE
    /\ server = [open |-> FALSE, kept |-> FALSE,
                 freq |-> CHOOSE f \in Freqs : TRUE]
    /\ made = 0 /\ faults = 0 /\ late = FALSE

Quiet == UNCHANGED <<closed, requests, replies, reader, connected>>
Send(c, cmd, arg) == Register(c, cmd, arg) /\ Quiet

\* The caller is done with its last call and makes no other.
NoMoreCalls(c) ==
    /\ call' = [call EXCEPT ![c] = NoCall]
    /\ UNCHANGED <<pending, next_id, serial>> /\ Quiet

Goto(c, at) == http' = [http EXCEPT ![c].at = at]
Done(c) == http' = [http EXCEPT ![c] = Idle]
Back(c, at) == http[c].at = at /\ call[c].at = "returned"

-----------------------------------------------------------------------------
(* A request arrives: the handlers take the current device, and OpenDevice *)
(* and CloseDevice the lock.  A request that finds nothing to do, a device *)
(* in use or none, is answered at once and not modelled.                   *)

Begin(c, op) ==
    /\ http[c] = Idle /\ made < MaxRequests /\ ~lock
    /\ made' = made + 1

OpenDevice(c) ==
    /\ Begin(c, "open") /\ current = 0
    /\ lock' = TRUE
    /\ http' = [http EXCEPT ![c] = [Idle EXCEPT !.op = "open", !.at = "open"]]
    /\ Send(c, "open", 0)
    /\ UNCHANGED <<current, adapter, subs, watch, shut, panicked>>

CloseDevice(c) ==
    /\ Begin(c, "close") /\ current # 0
    /\ current' = 0
    /\ http' = [http EXCEPT ![c] =
                   [Idle EXCEPT !.op = "close", !.at = "drop", !.dev = current]]
    /\ UNCHANGED <<client, lock, adapter, subs, watch, shut, panicked>>

OnDevice(c, op, cmd, freq) ==
    /\ Begin(c, op) /\ current # 0
    /\ http' = [http EXCEPT ![c] =
                   [op |-> op, at |-> cmd, dev |-> current, freq |-> freq]]
    /\ Send(c, cmd, freq)
    /\ UNCHANGED <<lock, current, adapter, subs, watch, shut, panicked>>

-----------------------------------------------------------------------------
(* OpenDevice and newDeviceAdapter()                                       *)

LeavesItOpen(c) == /\ lock' = FALSE /\ Done(c) /\ NoMoreCalls(c)

\* A device whose state cannot be read is closed again.
GiveItBack(c) == /\ Send(c, "close_device", 0) /\ Goto(c, "give_back")
                 /\ UNCHANGED lock

OpenAnswered(c) ==
    /\ Back(c, "open")
    /\ IF call[c].ok
       THEN Send(c, "get_state", 0) /\ Goto(c, "get_state") /\ UNCHANGED lock
       ELSE lock' = FALSE /\ Done(c) /\ NoMoreCalls(c)
    /\ UNCHANGED <<current, adapter, subs, watch, shut, panicked>>

StateRead(c) ==
    /\ Back(c, "get_state")
    /\ IF call[c].ok
       THEN /\ adapter' = Append(adapter, Fresh(call[c].value))
            /\ current' = Len(adapter) + 1
            /\ lock' = FALSE /\ Done(c) /\ NoMoreCalls(c)
       ELSE GiveItBack(c) /\ UNCHANGED <<current, adapter>>
    /\ UNCHANGED <<subs, watch, shut, panicked>>

GivenBack(c) ==
    /\ Back(c, "give_back")
    /\ lock' = FALSE /\ Done(c) /\ NoMoreCalls(c)
    /\ UNCHANGED <<current, adapter, subs, watch, shut, panicked>>

-----------------------------------------------------------------------------
(* deviceAdapter: the setters, StartRx, StopRx, close                      *)

SetAnswered(c) ==
    /\ Back(c, "set")
    /\ adapter' = IF call[c].ok
                  THEN [adapter EXCEPT ![http[c].dev].freq = call[c].value]
                  ELSE adapter
    /\ Done(c) /\ NoMoreCalls(c)
    /\ UNCHANGED <<lock, current, subs, watch, shut, panicked>>

StartAnswered(c) ==
    /\ Back(c, "start_rx")
    /\ IF call[c].ok
       THEN /\ adapter' = [adapter EXCEPT ![http[c].dev].streaming = TRUE]
            /\ Goto(c, "dial")
       ELSE Done(c) /\ UNCHANGED adapter
    /\ NoMoreCalls(c)
    /\ UNCHANGED <<lock, current, subs, watch, shut, panicked>>

\* startStream(): the old stream is closed first, and a dial may fail.
Dialled(c) ==
    /\ http[c].at = "dial" /\ Done(c)
    /\ adapter' = [adapter EXCEPT ![http[c].dev].stream = TRUE]
    /\ UNCHANGED <<client, lock, current, subs, watch, shut, panicked>>

DialFails(c) ==
    /\ http[c].at = "dial" /\ Goto(c, "unwind")
    /\ adapter' = [adapter EXCEPT ![http[c].dev].stream = FALSE]
    /\ Send(c, "stop_rx", 0)
    /\ UNCHANGED <<lock, current, subs, watch, shut, panicked>>

Unwound(c) ==
    /\ \/ Back(c, "unwind") /\ NoMoreCalls(c)
       \/ http[c].at = "stopped" /\ UNCHANGED client
    /\ adapter' = [adapter EXCEPT ![http[c].dev].streaming = FALSE]
    /\ Done(c)
    /\ UNCHANGED <<lock, current, subs, watch, shut, panicked>>

\* StopRx and close() close the stream whatever the server says.
StopAnswered(c) ==
    /\ Back(c, "stop_rx") /\ NoMoreCalls(c)
    /\ adapter' = [adapter EXCEPT ![http[c].dev].stream = FALSE]
    /\ Goto(c, "stopped")
    /\ UNCHANGED <<lock, current, subs, watch, shut, panicked>>

DropStream(c) ==
    /\ http[c].at = "drop"
    /\ adapter' = [adapter EXCEPT ![http[c].dev].stream = FALSE]
    /\ Send(c, "close_device", 0) /\ Goto(c, "close_device")
    /\ UNCHANGED <<lock, current, subs, watch, shut, panicked>>

CloseAll(c) ==
    /\ Back(c, "close_device") /\ NoMoreCalls(c) /\ Done(c)
    /\ shut' = shut \cup (subs \cap {http[c].dev})
    /\ subs' = subs \ {http[c].dev}
    /\ UNCHANGED <<lock, current, adapter, watch, panicked>>

-----------------------------------------------------------------------------
(* handleSpectrumWS(): each tick looks at the current device.  Subscribing *)
(* is a step of its own: the device may have been closed since the look.   *)
(* The socket subscribes to an adapter once, so its number names the       *)
(* channel.                                                                *)

ClosesAnyway(d) ==
    IF d = 0 THEN UNCHANGED <<shut, panicked>>
    ELSE shut' = shut \cup {d} /\ panicked' = (panicked \/ d \in shut)

\* unsub(): closeAll may have taken the channel out and closed it.
Unsubscribe(d) ==
    IF d \in subs
    THEN shut' = shut \cup {d} /\ panicked' = (panicked \/ d \in shut)
    ELSE UNCHANGED <<shut, panicked>>

SubscribesOnce == current # 0 /\ watch.dev = 0

Changed == current # watch.dev

Look ==
    /\ ~lock /\ watch.seen = {} /\ Changed
    /\ watch' = [watch EXCEPT !.seen = {current}]
    /\ UNCHANGED <<client, http, lock, current, adapter, subs, shut, panicked>>

Subscribe ==
    /\ watch.seen # {}
    /\ Unsubscribe(watch.dev)
    /\ subs' = (subs \ {watch.dev}) \cup (watch.seen \ {0})
    /\ \E d \in watch.seen : watch' = [dev |-> d, seen |-> {}]
    /\ UNCHANGED <<client, http, lock, current, adapter>>

-----------------------------------------------------------------------------
(* The server, and what may go wrong on the way                            *)

Accepts(cmd) == IF cmd = "open" THEN ~server.open ELSE server.open

After(cmd, arg) ==
    [open |-> cmd = "open" \/ (server.open /\ cmd # "close_device"),
     kept |-> server.kept /\ cmd # "close_device",
     freq |-> IF cmd = "set" /\ server.open THEN arg ELSE server.freq]

Reply(request, ok) ==
    [id |-> request.id, serial |-> request.serial, ok |-> ok,
     value |-> IF request.cmd = "set" THEN request.arg ELSE server.freq]

Serve ==
    /\ requests # <<>>
    /\ LET request == Head(requests)
       IN  /\ server' = After(request.cmd, request.arg)
           /\ replies' = replies \cup {Reply(request, Accepts(request.cmd))}
    /\ requests' = Tail(requests)
    /\ UNCHANGED <<pending, closed, next_id, serial, call, reader, connected,
                   device, made, faults, late>>

Fault == faults < MaxFaults /\ faults' = faults + 1

\* CloseDevice() and GiveItBack have forgotten the adapter by now, and do not
\* try again.
Refuse ==
    /\ Fault /\ requests # <<>>
    /\ server' = IF Head(requests).cmd = "close_device"
                 THEN [server EXCEPT !.kept = server.open] ELSE server
    /\ replies' = replies \cup {Reply(Head(requests), FALSE)}
    /\ requests' = Tail(requests)
    /\ UNCHANGED <<pending, closed, next_id, serial, call, reader, connected,
                   device, made, late>>

\* The same reply once more.
Duplicate ==
    /\ Fault /\ reader # NoReply /\ replies' = replies \cup {reader}
    /\ UNCHANGED <<pending, closed, next_id, serial, call, requests, reader,
                   connected, device, server, made, late>>

TooLate(c) == Fault /\ TimeOut(c) /\ late' = TRUE
              /\ UNCHANGED <<device, server, made>>

\* The session ends with its connection, and the device with the session.
ConnectionDies ==
    /\ Fault /\ connected' = FALSE /\ connected
    /\ requests' = <<>> /\ replies' = {}
    /\ server' = [server EXCEPT !.open = FALSE, !.kept = FALSE]
    /\ UNCHANGED <<pending, closed, next_id, serial, call, reader, device,
                   made, late>>

-----------------------------------------------------------------------------
Arrive(c) ==
    \/ "open" \in Ops /\ OpenDevice(c)
    \/ "close" \in Ops /\ CloseDevice(c)
    \/ "rx" \in Ops /\ (OnDevice(c, "start", "start_rx", 0)
                        \/ OnDevice(c, "stop", "stop_rx", 0))
    \/ "set" \in Ops /\ \E f \in Freqs : OnDevice(c, "set", "set", f)

Continue(c) ==
    \/ OpenAnswered(c) \/ StateRead(c) \/ GivenBack(c) \/ SetAnswered(c)
    \/ StartAnswered(c) \/ Dialled(c) \/ Unwound(c) \/ StopAnswered(c)
    \/ DropStream(c) \/ CloseAll(c)

Outside == UNCHANGED <<server, faults, late>>

Next ==
    \/ \E c \in Callers :
          \/ Arrive(c) /\ Outside
          \/ Continue(c) /\ Outside /\ UNCHANGED made
          \/ DialFails(c) /\ Fault /\ UNCHANGED <<server, made, late>>
          \/ TooLate(c)
    \/ (Look \/ Subscribe) /\ Outside /\ UNCHANGED made
    \/ ClientSteps /\ Outside /\ UNCHANGED <<device, made>>
    \/ Serve \/ Refuse \/ Duplicate \/ ConnectionDies

Spec == Init /\ [][Next]_vars

\* Goroutines run, the ticker ticks, a server whose connection stands
\* answers.
FairSpec ==
    /\ Spec
    /\ \A c \in Callers :
          /\ WF_vars(Continue(c) /\ Outside /\ UNCHANGED made)
          /\ WF_vars(CallerSteps(c) /\ Outside /\ UNCHANGED <<device, made>>)
    /\ WF_vars(ReaderSteps /\ Outside /\ UNCHANGED <<device, made>>)
    /\ WF_vars((Look \/ Subscribe) /\ Outside /\ UNCHANGED made)
    /\ WF_vars(Serve)

-----------------------------------------------------------------------------
AtRest == /\ \A c \in Callers : http[c] = Idle
          /\ connected /\ requests = <<>>

\* A call returns the reply to its own request, however replies overtake one
\* another, come late or twice (client.go: "the matching reply is dispatched
\* back to whichever goroutine sent it, however out of order replies
\* arrive").
OwnReply ==
    \A c \in Callers :
        call[c].at = "returned" /\ call[c].reply # NoReply
            => call[c].reply.serial = call[c].serial

\* When no call has run out of time, a server that holds the device open has
\* an adapter that someone can reach (OpenDevice: "release it rather than
\* leave the server holding it open with no adapter anyone can reach"), or it
\* has refused to close the device; and no adapter speaks for a device that
\* is closed.  The refused close is left to the server for good: the adapter
\* is forgotten before the call and its error is ignored or only reported
\* (backend.go:100 and 120-129, device.go:441-444).
OpenIsReachable ==
    AtRest /\ ~late => /\ server.open <=> current # 0 \/ server.kept
                       /\ ~(current # 0 /\ server.kept)

\* No channel of a subscriber is closed twice, however the close of a device
\* and the socket's own unsubscribing fall together (fanout.go).
NeverPanics == ~panicked

\* Once no request comes, the spectrum socket watches the current device.
SpectrumFollows == <>[](watch.dev = current)

\* What State() says of the frequency is what the device has ("nothing but
\* this adapter's own setters can change it").
StateIsDevice ==
    AtRest /\ ~late /\ current # 0 => adapter[current].freq = server.freq

\* What State() says of streaming is whether there is a stream.
StreamingIsTrue ==
    AtRest /\ ~late /\ current # 0 =>
        adapter[current].streaming = adapter[current].stream
=============================================================================
