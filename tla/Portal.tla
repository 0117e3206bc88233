------------------------------- MODULE Portal -------------------------------
(***************************************************************************)
(* The program's screen in a browser.  The portal server's hub             *)
(* (webgui/internal/portal/server/screen.go) runs one long poll and one    *)
(* input loop against the program while a browser is attached; the program *)
(* (remote/app_bridge.cpp, remote_server.cpp, main.cpp) publishes a        *)
(* numbered frame when its display changed and applies queued input at its *)
(* next frame.  The program may end and be started again, and begins to    *)
(* count its frames anew.                                                  *)
(*                                                                         *)
(* A picture is named by the run of the program that drew it and its       *)
(* number in that run; <<0, 0>> is none.  There is one key, and an event is *)
(* its press ("down") or its release ("up"); the other events leave the    *)
(* hub as they came and touch no state of it.  The writer of a browser's   *)
(* socket keeps only the newest frame, so sent[b] is the frame it writes   *)
(* next or has written.  A request fails only where the program is not     *)
(* there or its caller has gone: the handlers of the two requests never    *)
(* block beyond what they were asked to.                                   *)
(*                                                                         *)
(* Bounds: a behaviour picks one of Limits, the number of frames in a run, *)
(* of runs and of events of the browsers; Generations are those of the     *)
(* hub's loops at a time (a leave and the next join make a second one      *)
(* while the first still ends).  MaxPending and MaxQueued are the code's   *)
(* own limits, 512 in the hub and kMaxQueuedInputs in the program.         *)
(*                                                                         *)
(* KeepsTheLoops, ForgetsTheKeys and NeverResyncs are faulty variants of   *)
(* the definitions they precede; no specification uses them.               *)
(***************************************************************************)
EXTENDS Naturals, SequencesExt

CONSTANTS Browsers, Generations, NoLoop, Limits, MaxPending, MaxQueued

ASSUME NoLoopAssumption == NoLoop \notin Generations

ASSUME LimitsAssumption == Limits \subseteq [seq : Nat, runs : Nat, events : Nat]
ASSUME QueueAssumption == MaxPending \in Nat \ {0} /\ MaxQueued \in Nat \ {0}

VARIABLES
    clients, held,         \* the hub: who is attached, what the controller holds
    loop,                  \* the generation of its loops that is not cancelled
    last, unreachable,     \* the frame it published last; backendErr is set
    inputQ,                \* the pending batch
    sent,                  \* the frame last handed to each browser
    poll, input,           \* the two loops of each generation
    posts,                 \* requests with a batch that are under way
    up, run, seq,          \* the program: is it there, which run, frame_seq_
    queue, down,           \* its input queue; the key counts as pressed
    limit,                 \* the bounds of this behaviour
    events, spoilt         \* history: events so far; input was dropped by leave(),
                           \* or lost, pushed out of a queue or overtaken ("lost")

hub == <<clients, held, loop>>
screen == <<last, unreachable, sent, poll>>
keys == <<inputQ, input, posts>>
program == <<up, run, seq, queue, down>>
portalVars == <<hub, screen, keys, program, limit, events, spoilt>>

NoFrame == <<0, 0>>
Frames == {NoFrame} \cup (1..limit.runs) \X (1..limit.seq)
Events == {"down", "up"}
NoPoll == [pc |-> "gone", after |-> 0, timeouts |-> 0, frame |-> NoFrame]

screenResyncTimeouts == 3

TypeOK ==
    /\ ToSet(clients) \subseteq Browsers /\ IsInjective(clients)
    /\ held \in BOOLEAN /\ loop \in {NoLoop} \cup Generations
    /\ last \in Frames /\ unreachable \in BOOLEAN
    /\ sent \in [Browsers -> Frames]
    /\ poll \in [Generations ->
           [pc : {"gone", "start", "wait", "failed", "publish", "store"},
            after : 0..limit.seq, timeouts : 0..(screenResyncTimeouts - 1),
            frame : Frames]]
    /\ input \in [Generations -> {"gone", "tick", "posting"}]
    /\ \A k \in DOMAIN posts : posts[k].by \in {NoLoop} \cup Generations
    /\ \A s \in {inputQ, queue} : ToSet(s) \subseteq Events
    /\ limit \in Limits
    /\ up \in BOOLEAN /\ run \in 1..limit.runs /\ seq \in 0..limit.seq
    /\ Len(queue) <= MaxQueued /\ down \in BOOLEAN
    /\ events \in 0..limit.events
    /\ spoilt \in {"no", "dropped", "lost"}

PortalInit ==
    /\ clients = <<>> /\ held = FALSE /\ loop = NoLoop
    /\ last = NoFrame /\ unreachable = FALSE
    /\ sent = [b \in Browsers |-> NoFrame]
    /\ poll = [l \in Generations |-> NoPoll]
    /\ input = [l \in Generations |-> "gone"]
    /\ inputQ = <<>> /\ posts = <<>>
    /\ limit \in Limits
    /\ up = TRUE /\ run = 1 /\ seq = 0 /\ queue = <<>> /\ down = FALSE
    /\ events = 0 /\ spoilt = "no"

\* The newest n events of a queue that drops its oldest.
Newest(s, n) == IF Len(s) > n THEN SubSeq(s, Len(s) - n + 1, Len(s)) ELSE s

-----------------------------------------------------------------------------
\* Browsers come, go and send events.

Join(b) ==
    /\ b \notin ToSet(clients)
    /\ clients' = Append(clients, b)
    /\ sent' = [sent EXCEPT ![b] = last]
    /\ IF clients = <<>>
       THEN \E l \in Generations :
                /\ poll[l].pc = "gone" /\ input[l] = "gone"
                /\ loop' = l
                /\ poll' = [poll EXCEPT ![l].pc = "start"]
                /\ input' = [input EXCEPT ![l] = "tick"]
       ELSE UNCHANGED <<loop, poll, input>>
    /\ UNCHANGED <<limit, held, last, unreachable, inputQ, posts, program, events, spoilt>>

heldKeyReleases == IF held THEN <<"up">> ELSE <<>>

KeepsTheLoops(b) ==
    /\ b \in ToSet(clients)
    /\ clients' = SelectSeq(clients, LAMBDA c : c # b)
    /\ sent' = [sent EXCEPT ![b] = NoFrame]
    /\ inputQ' = <<>>
    /\ held' = IF clients[1] = b THEN FALSE ELSE held
    /\ UNCHANGED <<limit, loop, last, unreachable, poll, input, posts, program, events, spoilt>>

ForgetsTheKeys(b) ==
    /\ b \in ToSet(clients)
    /\ clients' = SelectSeq(clients, LAMBDA c : c # b)
    /\ sent' = [sent EXCEPT ![b] = NoFrame]
    /\ held' = IF clients[1] = b THEN FALSE ELSE held
    /\ IF clients' = <<>> THEN loop' = NoLoop /\ inputQ' = <<>> ELSE UNCHANGED <<loop, inputQ>>
    /\ UNCHANGED <<limit, last, unreachable, poll, input, posts, program, events, spoilt>>

\* The pending batch of the last client is dropped, and the releases of the
\* keys it still holds are posted by the leaving goroutine itself.
Leave(b) ==
    /\ b \in ToSet(clients)
    /\ clients' = SelectSeq(clients, LAMBDA c : c # b)
    /\ sent' = [sent EXCEPT ![b] = NoFrame]
    /\ LET releases == IF clients[1] = b THEN heldKeyReleases ELSE <<>>
       IN  IF clients' = <<>>
           THEN /\ loop' = NoLoop
                /\ inputQ' = <<>>
                /\ spoilt' = IF inputQ = <<>> \/ spoilt = "lost" THEN spoilt ELSE "dropped"
                /\ posts' = IF releases = <<>> THEN posts
                            ELSE Append(posts, [by |-> NoLoop, batch |-> releases])
           ELSE /\ inputQ' = inputQ \o releases
                /\ UNCHANGED <<loop, posts, spoilt>>
    /\ held' = IF clients[1] = b THEN FALSE ELSE held
    /\ UNCHANGED <<limit, last, unreachable, poll, input, program, events>>

queueInput(e) ==
    /\ inputQ' = Newest(Append(inputQ, e), MaxPending)
    /\ spoilt' = IF Len(inputQ) < MaxPending THEN spoilt ELSE "lost"

\* A message of the controller; those of the others are ignored.
handleClientText(e) ==
    /\ clients # <<>> /\ events < limit.events
    /\ e = "down" => ~held
    /\ e = "up" => held
    /\ events' = events + 1
    /\ held' = (e = "down")
    /\ queueInput(e)
    /\ UNCHANGED <<limit, clients, loop, screen, input, posts, program>>

-----------------------------------------------------------------------------
\* pollLoop

Poll(l, pc, next) ==
    /\ poll[l].pc = pc
    /\ poll' = [poll EXCEPT ![l] = next]
Continues(l, p) == IF loop = l THEN p ELSE NoPoll
Framed == <<limit, hub, keys, program, events, spoilt>>

StartPoll(l) ==
    /\ Poll(l, "start", [poll[l] EXCEPT !.pc = "wait", !.after = last[2]])
    /\ UNCHANGED <<Framed, last, unreachable, sent>>

\* The call fails because the program has gone, or went during it, or is
\* abandoned on a cancelled context.
PollFails(l) ==
    /\ \/ Poll(l, "failed", Continues(l, [poll[l] EXCEPT !.pc = "wait"]))
       \/ ~up /\ Poll(l, "wait", Continues(l, poll[l]))
    /\ unreachable' = (unreachable \/ loop = l)
    /\ UNCHANGED <<Framed, last, sent>>

AbandonWait(l) ==
    /\ loop # l
    /\ Poll(l, "wait", NoPoll)
    /\ UNCHANGED <<Framed, last, unreachable, sent>>

seq_is_newer(after) == after = 0 \/ seq > after

\* screen_frame() finds a frame that is newer.
Answer(l) ==
    /\ up /\ seq # 0 /\ seq_is_newer(poll[l].after)
    /\ Poll(l, "wait", [poll[l] EXCEPT !.pc = "publish", !.after = seq,
                                       !.timeouts = 0, !.frame = <<run, seq>>])
    /\ unreachable' = FALSE
    /\ UNCHANGED <<Framed, last, sent>>

NeverResyncs(l) ==
    /\ up /\ ~(seq # 0 /\ seq_is_newer(poll[l].after))
    /\ Poll(l, "wait", Continues(l, poll[l]))
    /\ unreachable' = FALSE
    /\ UNCHANGED <<Framed, last, sent>>

\* Its deadline passes without one: 204.
Timeout(l) ==
    /\ up /\ ~(seq # 0 /\ seq_is_newer(poll[l].after))
    /\ LET again == poll[l].timeouts + 1 >= screenResyncTimeouts
       IN  Poll(l, "wait", Continues(l, [poll[l] EXCEPT
                                !.timeouts = IF again THEN 0 ELSE @ + 1,
                                !.after = IF again THEN 0 ELSE @]))
    /\ unreachable' = FALSE
    /\ UNCHANGED <<Framed, last, sent>>

\* publish() looks for a duplicate, lets go of the lock, and stores.
AlreadyShown(frame) == last # NoFrame /\ last[2] = frame[2]

CheckDuplicate(l) ==
    /\ Poll(l, "publish", IF AlreadyShown(poll[l].frame)
                          THEN Continues(l, [poll[l] EXCEPT !.pc = "wait", !.frame = NoFrame])
                          ELSE [poll[l] EXCEPT !.pc = "store"])
    /\ UNCHANGED <<Framed, last, unreachable, sent>>

Store(l) ==
    /\ Poll(l, "store", Continues(l, [poll[l] EXCEPT !.pc = "wait", !.frame = NoFrame]))
    /\ last' = poll[l].frame
    /\ sent' = [b \in Browsers |-> IF b \in ToSet(clients) THEN poll[l].frame ELSE sent[b]]
    /\ UNCHANGED <<Framed, unreachable>>

-----------------------------------------------------------------------------
\* inputLoop

\* A cancelled loop may find its ticker ready too, and take one more batch.
Tick(l) ==
    /\ input[l] = "tick" /\ inputQ # <<>>
    /\ inputQ' = <<>>
    /\ posts' = Append(posts, [by |-> l, batch |-> inputQ])
    /\ input' = [input EXCEPT ![l] = "posting"]
    /\ UNCHANGED <<limit, hub, screen, program, events, spoilt>>

\* A cancelled loop sees it, at the ticker or in the middle of its request,
\* which may have reached the program or not.
InputEnds(l) ==
    /\ loop # l /\ input[l] # "gone"
    /\ input' = [input EXCEPT ![l] = "gone"]
    /\ posts' = [k \in DOMAIN posts |->
                    IF posts[k].by = l THEN [posts[k] EXCEPT !.by = NoLoop] ELSE posts[k]]
    /\ UNCHANGED <<limit, hub, screen, inputQ, program, events, spoilt>>

Answered(k) ==
    /\ posts' = RemoveAt(posts, k)
    /\ input' = [l \in Generations |-> IF posts[k].by = l THEN "tick" ELSE input[l]]

\* The handler of a request on a thread of its own: queue_input().
Deliver(k) ==
    /\ up /\ Answered(k)
    /\ queue' = Newest(queue \o posts[k].batch, MaxQueued)
    /\ spoilt' = IF k > 1 \/ Len(queue \o posts[k].batch) > MaxQueued THEN "lost" ELSE spoilt
    /\ UNCHANGED <<limit, hub, screen, inputQ, up, run, seq, down, events>>

LosePost(k) ==
    /\ ~up \/ posts[k].by = NoLoop
    /\ Answered(k)
    /\ spoilt' = "lost"
    /\ UNCHANGED <<limit, hub, screen, inputQ, program, events>>

-----------------------------------------------------------------------------
\* The program

\* The main loop drains the queue and feeds each transition to the key.
DrainInput ==
    /\ up /\ queue # <<>>
    /\ down' = (Last(queue) = "down")
    /\ queue' = <<>>
    /\ UNCHANGED <<limit, hub, screen, keys, up, run, seq, events, spoilt>>

capture_screen_frame ==
    /\ up /\ seq < limit.seq
    /\ seq' = seq + 1
    /\ UNCHANGED <<limit, hub, screen, keys, up, run, queue, down, events, spoilt>>

\* The program ends, and its open connections with it.
End ==
    /\ up /\ run < limit.runs
    /\ up' = FALSE /\ seq' = 0 /\ queue' = <<>> /\ down' = FALSE
    /\ poll' = [l \in Generations |->
                   IF poll[l].pc = "wait" THEN [poll[l] EXCEPT !.pc = "failed"] ELSE poll[l]]
    /\ UNCHANGED <<limit, hub, last, unreachable, sent, keys, run, events, spoilt>>

Start ==
    /\ ~up
    /\ up' = TRUE /\ run' = run + 1
    /\ UNCHANGED <<limit, hub, screen, keys, seq, queue, down, events, spoilt>>

-----------------------------------------------------------------------------
PollLoop(l) ==
    \/ StartPoll(l) \/ PollFails(l) \/ AbandonWait(l)
    \/ Answer(l) \/ Timeout(l) \/ CheckDuplicate(l) \/ Store(l)

PortalNext ==
    \/ \E b \in Browsers : Join(b) \/ Leave(b)
    \/ \E e \in Events : handleClientText(e)
    \/ \E l \in Generations : PollLoop(l) \/ Tick(l) \/ InputEnds(l)
    \/ \E k \in DOMAIN posts : Deliver(k) \/ LosePost(k)
    \/ DrainInput \/ capture_screen_frame \/ End \/ Start

PortalSpec == PortalInit /\ [][PortalNext]_portalVars

\* The goroutines of the hub run, a poll ends at its deadline, a cancelled
\* context is seen, the main loop draws frames.  Nobody has to come, leave,
\* press a key or start the program, and the display need not change.
PortalFairSpec ==
    /\ PortalSpec
    /\ \A l \in Generations : WF_portalVars(PollLoop(l)) /\ WF_portalVars(Tick(l)) /\ WF_portalVars(InputEnds(l))
    /\ WF_portalVars(\E k \in DOMAIN posts : Deliver(k) \/ LosePost(k))
    /\ WF_portalVars(DrainInput)

-----------------------------------------------------------------------------
\* No key stays down that nobody holds: when all input has reached the
\* program and no browser holds the key, it is up.  The exceptions are input
\* that the last client to leave had pending, that was lost with the program or
\* an aborted request, pushed out of a full queue or overtaken by a later
\* request (screenClient.held, leave()).
KeysReleased ==
    (~held /\ inputQ = <<>> /\ posts = <<>> /\ queue = <<>> /\ spoilt = "no") => ~down

\* "so a socket that dies mid-press does not leave the key down on the
\* device" (screenClient.held), with every request served in order.  A release
\* that the browser has sent is pending for up to a tick, and leave() drops it
\* although the key is not among the held ones any more.
ReleasedOnDisconnect ==
    (~held /\ inputQ = <<>> /\ posts = <<>> /\ queue = <<>> /\ spoilt # "lost")
        => ~down

\* A browser that stays is told in the end whether the program answers, and
\* shows the frame with the newest number, however often the program was
\* started again and whichever loop stored a frame last (pollLoop's resync,
\* setBackendError).
CatchesUp ==
    \A b \in Browsers :
        []<>(b \notin ToSet(clients)
             \/ (unreachable = ~up /\ (~up \/ seq \in {0, sent[b][2]})))

\* "a portal nobody is looking at must not keep a long poll open against the
\* radio forever" (screenHub): when the last browser has left, both loops end
\* unless another one comes.
NobodyLooksNobodyPolls ==
    clients = <<>> ~> \/ clients # <<>>
                      \/ \A l \in Generations : poll[l].pc = "gone" /\ input[l] = "gone"
=============================================================================
