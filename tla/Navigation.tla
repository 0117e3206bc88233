----------------------------- MODULE Navigation -----------------------------
(***************************************************************************)
(* The UI thread of the program: the view stack of ui::NavigationView      *)
(* (src/src/apps/ui_navigation.cpp), the menus and the portal's launch     *)
(* queue that fill it, the applications that live in it (AppProfiles), the *)
(* radio they share (RadioUse), and the browser's Morse sender             *)
(* (src/src/remote/morse_tx.cpp) that uses the transmitter beside them.    *)
(*                                                                         *)
(* One frame of main.cpp is: input events; the portal's launches; the      *)
(* navigation's service(), which applies the queued operations, and the    *)
(* Morse tick of the bridge's refresh(); on_frame_sync() of the view on    *)
(* top.  "phase" is the part of the frame that comes next.  The DSP thread *)
(* that empties a waveform and the HTTP thread that asks for a Morse       *)
(* transmission run between any two of these steps.                        *)
(*                                                                         *)
(* Apps are the applications installed; AtStart says whether a device is   *)
(* found when the program starts.  PushAfterPop says whether an event      *)
(* handler may push a view when another event of the same frame has        *)
(* already popped the one it belongs to.  MaxVisited bounds the different  *)
(* applications opened in a behaviour, MaxDepth the views an event handler *)
(* stacks, MaxPending the operations the event handlers queue in one       *)
(* frame, MaxLaunches the portal requests drained in one frame,            *)
(* MaxRequests the Morse requests.                                         *)
(*                                                                         *)
(* IdleWithoutApp, AppliedLastFirst and FrameSyncIgnoresEnd are faulty     *)
(* variants.                                                               *)
(***************************************************************************)
EXTENDS AppProfiles, FiniteSets

CONSTANTS Apps, AtStart, PushAfterPop,
          MaxVisited, MaxDepth, MaxPending, MaxLaunches, MaxRequests

ASSUME AppsAssumption ==
    Apps \subseteq AppIds /\ AtStart \subseteq BOOLEAN /\ PushAfterPop \in BOOLEAN
ASSUME BoundsAssumption ==
    /\ {MaxVisited, MaxDepth, MaxPending, MaxLaunches, MaxRequests} \subseteq Nat
    /\ MaxDepth >= 2

VARIABLES
    stack,      \* the views, the root first and the visible one last
    pending,    \* the operations service() will apply, as [kind, view]
    radio,      \* the state of the two models and of the device's lifetime
    morse,      \* the browser's Morse sender: [pending, active, done, asked]
    phase,      \* what the frame does next
    launched,   \* portal requests drained in this frame
    visited     \* the applications opened so far

vars == <<stack, pending, radio, morse, phase, launched, visited>>

-----------------------------------------------------------------------------
(* Views                                                                   *)

\* found: the settings when the view was first shown.  fresh: it was opened
\* from a menu and has not been covered since.  owner: the view whose methods
\* the buttons of a prompt or a page call.
View(kind, app, id, fresh, owner) ==
    [kind |-> kind, app |-> app, id |-> id, owner |-> owner,
     saved |-> Profile(app).fresh,
     sending |-> FALSE, sent |-> FALSE, shown |-> FALSE, fresh |-> fresh,
     confirmed |-> FALSE, found |-> [mode |-> "none", rate |-> "none"]]

NoView == View("none", "none", 0, FALSE, 0)

Root == View("root", "menu", 1, FALSE, 0)

Top == Last(stack)

PendingViews == {pending[i].view : i \in DOMAIN pending}

Views == Range(stack) \cup (PendingViews \ {NoView})

FreshId == CHOOSE id \in 1..(Cardinality(Views) + 1) : id \notin {v.id : v \in Views}

Popped == \E i \in DOMAIN pending : pending[i].kind = "pop"

\* An event handler queues one operation.
Queue(op) ==
    /\ Len(pending) < MaxPending
    /\ op.kind = "push" => /\ Len(stack) + Len(pending) < MaxDepth
                           /\ Popped => PushAfterPop
    /\ pending' = Append(pending, op)

PushOp(v) == [kind |-> "push", view |-> v]
PopOp == [kind |-> "pop", view |-> NoView]
RootOp == [kind |-> "root", view |-> NoView]

\* Runs calls on the radio for the view at position i of the stack.
PerformAt(i, calls) ==
    LET after == Perform([radio |-> radio, view |-> stack[i]], calls)
    IN  /\ radio' = after.radio
        /\ stack' = [stack EXCEPT ![i] = after.view]

PerformOnTop(calls) == PerformAt(Len(stack), calls)

Visit(app) ==
    /\ visited' = visited \cup {app}
    /\ Cardinality(visited') <= MaxVisited

\* The factory of an application: its constructor runs at once.
Built(app, fresh) ==
    Perform([radio |-> radio, view |-> View("app", app, FreshId, fresh, 0)],
            Profile(app).ctor)

-----------------------------------------------------------------------------
(* Input events                                                            *)

Select(app) ==
    /\ phase = "events"
    /\ Top.kind = IF Profile(app).home THEN "root" ELSE "menu"
    /\ Visit(app)
    /\ Queue(PushOp(Built(app, TRUE).view))
    /\ radio' = Built(app, TRUE).radio
    /\ UNCHANGED <<stack, morse, phase, launched>>

OpenMenu ==
    /\ phase = "events" /\ Top.kind = "root"
    /\ Queue(PushOp(View("menu", "menu", FreshId, FALSE, 0)))
    /\ UNCHANGED <<stack, radio, morse, phase, launched, visited>>

Back ==
    /\ phase = "events" /\ Top.kind # "root"
    /\ Queue(PopOp)
    /\ UNCHANGED <<stack, radio, morse, phase, launched, visited>>

OpenPage ==
    /\ phase = "events" /\ Top.kind = "app" /\ Profile(Top.app).pages
    /\ Queue(PushOp(View("page", "menu", FreshId, FALSE, Top.id)))
    /\ UNCHANGED <<stack, radio, morse, phase, launched, visited>>

\* The scanner hands its frequency to the audio application.
OpenApp(app) ==
    /\ phase = "events" /\ Top.kind = "app" /\ app \in Profile(Top.app).opens
    /\ Visit(app)
    /\ Queue(PushOp(Built(app, FALSE).view))
    /\ radio' = Built(app, FALSE).radio
    /\ UNCHANGED <<stack, morse, phase, launched>>

PressStart ==
    /\ phase = "events" /\ Top.kind = "app"
    /\ Profile(Top.app).button /\ Profile(Top.app).begin # <<>>
    /\ ~Top.sending
    /\ \/ /\ Profile(Top.app).confirm => Top.confirmed
          /\ PerformOnTop(Profile(Top.app).begin)
          /\ UNCHANGED pending
       \/ /\ Profile(Top.app).confirm /\ ~Top.confirmed
          /\ Queue(PushOp(View("modal", "menu", FreshId, FALSE, Top.id)))
          /\ UNCHANGED <<stack, radio>>
    /\ UNCHANGED <<morse, phase, launched, visited>>

PressStop ==
    /\ phase = "events" /\ Top.kind = "app"
    /\ Top.sending
    /\ PerformOnTop(Profile(Top.app).end)
    /\ UNCHANGED <<pending, morse, phase, launched, visited>>

\* choose(): the callback acts on the application that asked, and the modal's
\* own pop is queued behind whatever is queued already.  What a callback into a
\* destroyed application does is not defined: no step stands for it, and
\* OwnersAreAlive says when there is none.
Answer(yes) ==
    /\ phase = "events" /\ Top.kind = "modal"
    /\ Queue(PopOp)
    /\ \/ /\ yes
          /\ \E i \in DOMAIN stack :
                LET asked == [stack[i] EXCEPT !.confirmed = TRUE]
                    after == Perform([radio |-> radio, view |-> asked],
                                     Profile(asked.app).begin)
                IN  /\ stack[i].id = Top.owner
                    /\ radio' = after.radio
                    /\ stack' = [stack EXCEPT ![i] = after.view]
       \/ /\ ~yes
          /\ UNCHANGED <<radio, stack>>
    /\ UNCHANGED <<morse, phase, launched, visited>>

ChooseMode ==
    /\ phase = "events" /\ Top.kind = "app"
    /\ \E m \in Profile(Top.app).modes : PerformOnTop(<<Mode(m)>>)
    /\ UNCHANGED <<pending, morse, phase, launched, visited>>

\* The capture application refuses a new rate while it records.
ChooseRate ==
    /\ phase = "events" /\ Top.kind = "app"
    /\ Top.app = "capture" => ~radio.capturing
    /\ \E hz \in Profile(Top.app).rates : PerformOnTop(<<Rate(hz)>>)
    /\ UNCHANGED <<pending, morse, phase, launched, visited>>

\* Reconnect: the device may be found or not.
Reconnect ==
    /\ phase = "events" /\ Top.app = "radio"
    /\ \E found \in BOOLEAN :
          LET reopened == [StopReceiver(radio) EXCEPT !.open = found]
          IN  radio' = IF radio.running THEN StartReceiver(reopened) ELSE reopened
    /\ UNCHANGED <<stack, pending, morse, phase, launched, visited>>

-----------------------------------------------------------------------------
(* The portal's queue                                                      *)

\* The constructor runs before the views it replaces are destroyed.
PortalLaunch(app) ==
    /\ phase \in {"events", "drain"} /\ launched < MaxLaunches
    /\ Visit(app)
    /\ pending' = pending \o <<RootOp, PushOp(Built(app, FALSE).view)>>
    /\ radio' = Built(app, FALSE).radio
    /\ phase' = "drain" /\ launched' = launched + 1
    /\ UNCHANGED <<stack, morse>>

PortalHome ==
    /\ phase \in {"events", "drain"} /\ launched < MaxLaunches
    /\ pending' = pending \o <<RootOp>>
    /\ phase' = "drain" /\ launched' = launched + 1
    /\ UNCHANGED <<stack, radio, morse, visited>>

-----------------------------------------------------------------------------
(* service(): s is [stack, radio, changed].                                *)

\* The calls of the view on top have returned.
Returned(s, after) ==
    [s EXCEPT !.radio = after.radio, !.stack[Len(s.stack)] = after.view]

HideTop(s) ==
    Returned(s, [Perform([radio |-> s.radio, view |-> Last(s.stack)],
                         Profile(Last(s.stack).app).hide)
                    EXCEPT !.view.fresh = FALSE])

DropTop(s) ==
    [s EXCEPT !.radio = Perform([radio |-> s.radio, view |-> Last(s.stack)],
                                Profile(Last(s.stack).app).dtor).radio,
              !.stack = Front(s.stack)]

DropAboveRoot(s) ==
    LET after[n \in 0..(Len(s.stack) - 1)] ==
            IF n = 0 THEN s ELSE DropTop(after[n - 1])
    IN  after[Len(s.stack) - 1]

Apply(s, op) ==
    IF op.kind = "push" THEN
        [HideTop(s) EXCEPT !.stack = Append(@, op.view), !.changed = TRUE]
    ELSE IF Len(s.stack) = 1 THEN s
    ELSE IF op.kind = "pop" THEN [DropTop(HideTop(s)) EXCEPT !.changed = TRUE]
    ELSE [DropAboveRoot(HideTop(s)) EXCEPT !.changed = TRUE]

\* on_show() of the view that is on top in the end, and of no other.
ActivateTop(s) ==
    LET found == [mode |-> s.radio.mode, rate |-> s.radio.rate]
        seen  == [Last(s.stack) EXCEPT !.found = IF Last(s.stack).shown THEN @ ELSE found,
                                       !.shown = TRUE]
    IN  Returned(s, Perform([radio |-> s.radio, view |-> seen],
                            Profile(Last(s.stack).app).show))

\* Idle wherever no application is on top, as over a prompt.
IdleWithoutApp(s) ==
    IF Last(s.stack).kind = "app" THEN s
    ELSE [s EXCEPT !.radio = StopTransmitter(StopReceiver(s.radio))]

\* At the root no application runs, so the radio has nothing to do.
IdleAtRoot(s) ==
    IF Len(s.stack) > 1 THEN s
    ELSE [s EXCEPT !.radio = StopTransmitter(IF s.radio.running THEN StopReceiver(s.radio)
                                             ELSE s.radio)]

AppliedLastFirst ==
    LET after[n \in 0..Len(pending)] ==
            IF n = 0 THEN [stack |-> stack, radio |-> radio, changed |-> FALSE]
            ELSE Apply(after[n - 1], pending[Len(pending) + 1 - n])
    IN  after[Len(pending)]

\* The queued operations in their order.
Applied ==
    LET after[n \in 0..Len(pending)] ==
            IF n = 0 THEN [stack |-> stack, radio |-> radio, changed |-> FALSE]
            ELSE Apply(after[n - 1], pending[n])
    IN  after[Len(pending)]

Settled(s) == IF s.changed THEN IdleAtRoot(ActivateTop(s)) ELSE s

Serviced == Settled(Applied)

-----------------------------------------------------------------------------
(* The browser's Morse sender                                              *)

MorseRequest ==
    /\ morse.asked < MaxRequests
    /\ radio.open /\ ~morse.active /\ ~morse.pending /\ ~radio.onAir
    /\ morse' = [morse EXCEPT !.pending = TRUE, !.asked = @ + 1]
    /\ UNCHANGED <<stack, pending, radio, phase, launched, visited>>

\* m is [radio, morse]; finished as well as stopped by somebody else.
Tick(m) ==
    IF m.morse.active THEN
        IF m.morse.done \/ ~m.radio.onAir
        THEN [radio |-> [StopTransmitter(m.radio) EXCEPT !.iq = NoSource],
              morse |-> [m.morse EXCEPT !.active = FALSE, !.done = FALSE]]
        ELSE m
    ELSE IF m.morse.pending /\ m.radio.open /\ ~m.radio.onAir THEN
        [radio |-> [StartTransmitter(m.radio) EXCEPT !.raw = TRUE, !.iq = WebSource],
         morse |-> [m.morse EXCEPT !.pending = FALSE, !.active = TRUE, !.done = FALSE]]
    ELSE [m EXCEPT !.morse.pending = FALSE]

\* The bridge's refresh(), after service().
Refresh(s) ==
    LET after == Tick([radio |-> s.radio, morse |-> morse])
    IN  /\ radio' = after.radio
        /\ morse' = after.morse
        /\ stack' = s.stack

Service ==
    /\ phase \in {"events", "drain"}
    /\ Refresh(Serviced)
    /\ pending' = <<>> /\ phase' = "sync" /\ launched' = 0
    /\ UNCHANGED visited

-----------------------------------------------------------------------------
(* on_frame_sync() of the view on top, and the DSP thread                  *)

EndOfBurst ==
    Top.kind = "app" /\ Profile(Top.app).burst /\ Top.sending /\ Top.sent

\* A frame that never asks the view whether its waveform has ended.
FrameSyncIgnoresEnd ==
    /\ phase = "sync" /\ phase' = "events"
    /\ UNCHANGED <<stack, radio, pending, morse, launched, visited>>

FrameSync ==
    /\ phase = "sync" /\ phase' = "events"
    /\ \/ /\ EndOfBurst
          /\ PerformOnTop(Profile(Top.app).end)
       \/ /\ EndOfBurst /\ Profile(Top.app).again
          /\ PerformOnTop(Profile(Top.app).begin)
       \/ /\ Top.kind = "app" /\ Profile(Top.app).vox
          /\ PerformOnTop(IF Top.sending THEN Profile(Top.app).end ELSE Profile(Top.app).begin)
       \/ /\ ~EndOfBurst
          /\ UNCHANGED <<stack, radio>>
    /\ UNCHANGED <<pending, morse, launched, visited>>

\* The view whose waveform the transmitter pulls.
Feeds(v) ==
    /\ v.sending
    /\ PulledSource(radio) = v.id \/ PulledSource(radio) = KeyerSource

Exhaust ==
    /\ radio.onAir
    /\ \/ /\ PulledSource(radio) = WebSource
          /\ ~morse.done
          /\ morse' = [morse EXCEPT !.done = TRUE]
          /\ UNCHANGED stack
       \/ /\ \E i \in DOMAIN stack :
                /\ Feeds(stack[i]) /\ Profile(stack[i].app).burst /\ ~stack[i].sent
                /\ stack' = [stack EXCEPT ![i].sent = TRUE]
          /\ UNCHANGED morse
    /\ UNCHANGED <<pending, radio, phase, launched, visited>>

-----------------------------------------------------------------------------
Init ==
    /\ stack = <<[Root EXCEPT !.shown = TRUE]>>
    /\ pending = <<>>
    /\ \E open \in AtStart : radio = FreshRadio(open)
    /\ morse = [pending |-> FALSE, active |-> FALSE, done |-> FALSE, asked |-> 0]
    /\ phase = "events"
    /\ launched = 0
    /\ visited = {}

Next ==
    \/ \E app \in Apps : Select(app) \/ OpenApp(app) \/ PortalLaunch(app)
    \/ OpenMenu \/ Back \/ OpenPage \/ PressStart \/ PressStop
    \/ \E yes \in BOOLEAN : Answer(yes)
    \/ ChooseMode \/ ChooseRate \/ Reconnect
    \/ PortalHome \/ Service \/ FrameSync \/ Exhaust \/ MorseRequest

Spec == Init /\ [][Next]_vars

\* The UI thread comes round to every part of its frame, and the DSP thread
\* keeps pulling; nobody has to press anything.  (Service and FrameSync are
\* enabled in every state of their phase, so this is their weak fairness.)
FramesKeepComing == []<>(phase = "sync") /\ []<>(phase = "events")

FairSpec == Spec /\ FramesKeepComing /\ WF_vars(Exhaust)

-----------------------------------------------------------------------------
(* Properties                                                              *)

ViewKinds == {"root", "menu", "app", "page", "modal"}

\* The stack has the root at the bottom and only there and no view twice, only
\* an application transmits, and the receiver runs only on an open device.
TypeOK ==
    /\ stack[1].kind = "root" /\ Len(stack) <= MaxDepth
    /\ \A i, j \in DOMAIN stack : (i # j) => stack[i].id # stack[j].id
    /\ \A v \in Views : v.kind \in ViewKinds /\ (v.sending => v.kind = "app")
    /\ \A i \in DOMAIN stack : i > 1 => stack[i].kind # "root"
    /\ Len(pending) <= MaxPending + 2 * MaxLaunches /\ launched <= MaxLaunches
    /\ radio.running => radio.open
    /\ phase \in {"events", "drain", "sync"}

Configured(v) ==
    LET needs == Profile(v.app).needs
    IN  /\ needs.mode \in {"any", radio.mode}
        /\ needs.rate \in {"any", radio.rate}
        /\ needs.hint \in {"any", radio.hint}
        /\ needs.monitor = "any" \/ needs.monitor = (IF radio.monitor THEN "on" ELSE "off")

\* Whatever application ran before and however this one came to the top, the
\* receiver is set up for it and running when it is shown: the mode, rate,
\* filter and monitor its decoder is built for.  An application that
\* configures in its constructor is only promised this when it was opened
\* from a menu and has not been covered (its on_show does not repeat it).
ShownAsConfigured ==
    (phase = "sync" /\ Top.kind = "app") =>
        /\ (Profile(Top.app).ctor = <<>> \/ Top.fresh) => Configured(Top)
        /\ (Start \in Range(Profile(Top.app).show) /\ radio.open) => radio.running

Destroyed == Range(stack) \ {v \in Range(stack) : v.id \in {w.id : w \in Range(stack')}}

EveryPushStays ==
    \A v \in PendingViews \ {NoView} : v.id \in {w.id : w \in Range(stack')}

\* An application that remembers the receiver's settings gives them back: when
\* it is closed to a menu, the mode and rate are those it found, whatever was
\* chosen, covered or uncovered in between.  (A view that is destroyed
\* without having been shown gives back what it never found, so batches with
\* such a view are left out.)
FoundIsRestored ==
    [][ (phase' = "sync" /\ phase # "sync" /\ Last(stack').kind \in {"root", "menu"}
         /\ EveryPushStays /\ \A v \in Destroyed : v.shown) =>
        \A v \in Destroyed :
            /\ "mode" \in Profile(v.app).gives => radio'.mode = v.found.mode
            /\ "rate" \in Profile(v.app).gives => radio'.rate = v.found.rate ]_vars

Uses(call) ==
    \E v \in Range(stack) :
        call \in Range(Profile(v.app).show) \cup Range(Profile(v.app).begin)

\* The tap, a recording and the microphone are in use only while an
\* application that uses them is on the stack: none outlives its application,
\* by whichever of menu, portal or modal it was closed.
ResourcesHaveOwners ==
    /\ radio.tap => Uses(OpenTap)
    /\ radio.capturing => Uses(Record)
    /\ radio.mic => Uses(MicOn)

Ids == {v.id : v \in Range(stack)}

\* A prompt and a page lie over the view they belong to: what their buttons
\* call is never a method of a view that has been destroyed.
OwnersAreAlive ==
    \A v \in Range(stack) : v.kind \in {"page", "modal"} => v.owner \in Ids

\* The transmitter never holds a source whose view has been destroyed, nor the
\* Morse sender's when that is over: the DSP thread would call into it.
NoDanglingSource ==
    /\ radio.iq \in Ids \cup {NoSource, KeyerSource, WebSource}
    /\ radio.audio \in Ids \cup {NoSource}
    /\ (radio.iq = WebSource /\ phase = "sync") => morse.active

\* What the views believe of the carrier is true: it is on the air only for
\* somebody who will take it off, a view that knows it is transmitting or the
\* Morse sender, and a view that believes it is transmitting is, as long as no
\* browser has asked for Morse.
CarrierIsAccountedFor ==
    /\ radio.onAir => morse.active \/ \E v \in Range(stack) : v.sending
    /\ morse.asked = 0 => \A v \in Range(stack) : v.sending => radio.onAir

\* A view that believes it is transmitting is, also with the browser's Morse
\* sender at work.
SendingIsAlwaysOnAir ==
    \A v \in Range(stack) : v.sending => radio.onAir

\* A receiver application made for listening is audible when it is shown.
ListeningAppAudible ==
    (phase = "sync" /\ Top.app \in {"audio", "level"}) => radio.monitor

\* A waveform with an end takes the transmitter off the air without the
\* operator: the application on top that sends it does not do so for ever.
BurstEnds ==
    LET sends == /\ Top.sending /\ Profile(Top.app).burst
                 /\ ~Profile(Top.app).again /\ morse.asked = 0
    IN  sends ~> ~sends
=============================================================================
