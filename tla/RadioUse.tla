------------------------------ MODULE RadioUse ------------------------------
(***************************************************************************)
(* What the applications do to the one radio of the program, as the UI     *)
(* thread sees it: the control surface of radio::ReceiverModel and         *)
(* radio::TransmitterModel (src/src/radio/receiver_model.cpp,              *)
(* transmitter_model.cpp) and the calls an application's constructor,      *)
(* on_show, on_hide, destructor and start/stop button make on it.          *)
(*                                                                         *)
(* A record "radio" is the shared state.  A record "view" is one instance  *)
(* of an application view: what it saved of the receiver, and whether it   *)
(* believes it is transmitting.  A call is a record [op, arg]; Do applies  *)
(* one call to a pair [radio, view], and Perform a sequence of them.  The  *)
(* threads behind the two models are the subject of other modules; here    *)
(* every call is complete when it returns, as it is for the UI thread.     *)
(*                                                                         *)
(* SetModeAfterReturn and StopKeepsSource are faulty variants of SetMode   *)
(* and EndSend.                                                            *)
(***************************************************************************)
EXTENDS Integers, Sequences, SequencesExt

\* Who feeds the transmitter: nobody, the browser Morse sender, a keyer kept
\* alive by the callback itself, or the view with that identity, 1 and above.
NoSource == 0
WebSource == -1
KeyerSource == -2

FreshRadio(open) ==
    [mode |-> "NFM", rate |-> "2.4M", hint |-> "none", monitor |-> TRUE,
     running |-> FALSE, capturing |-> FALSE, tap |-> FALSE, mic |-> FALSE,
     open |-> open, onAir |-> FALSE, raw |-> FALSE,
     iq |-> NoSource, audio |-> NoSource]

-----------------------------------------------------------------------------
(* ReceiverModel                                                           *)

StartReceiver(r) ==
    [r EXCEPT !.running = r.running \/ r.open]

StopReceiver(r) ==
    [r EXCEPT !.running = FALSE, !.capturing = FALSE]

\* The early return before the monitor is switched on.
SetModeAfterReturn(r, m) ==
    IF m = r.mode THEN r ELSE [r EXCEPT !.monitor = TRUE, !.mode = m]

SetMode(r, m) == [r EXCEPT !.monitor = TRUE, !.mode = m]

\* A new rate stops the stream, which closes a recording, and starts it again.
SetSamplingRate(r, hz) ==
    LET cleared == [r EXCEPT !.hint = "none"]
        changed == [cleared EXCEPT !.rate = hz]
    IN  IF hz = r.rate THEN cleared
        ELSE IF r.running THEN StartReceiver(StopReceiver(changed))
        ELSE changed

-----------------------------------------------------------------------------
(* TransmitterModel                                                        *)

\* start() answers true when the transmitter already runs, whoever feeds it.
StartTransmitter(r) == [r EXCEPT !.onAir = r.onAir \/ r.open]

StopTransmitter(r) == [r EXCEPT !.onAir = FALSE]

\* The source the model pulls samples from in its present mode.
PulledSource(r) == IF r.raw THEN r.iq ELSE r.audio

-----------------------------------------------------------------------------
(* The calls.  kind is "iq" or "audio", and "keyer" for an IQ source that  *)
(* does not refer to the view.                                             *)

Mode(m)     == [op |-> "mode", arg |-> m]
Rate(hz)    == [op |-> "rate", arg |-> hz]
Hint(hz)    == [op |-> "hint", arg |-> hz]
Send(kind)  == [op |-> "send", arg |-> kind]
Unsend(kind) == [op |-> "unsend", arg |-> kind]
UnsendIfSending(kind) == [op |-> "unsendIfSending", arg |-> kind]
Plain(op)   == [op |-> op, arg |-> "none"]

Mute        == Plain("mute")
Start       == Plain("start")
Stop        == Plain("stop")
SaveMode    == Plain("saveMode")
SaveBoth    == Plain("saveBoth")
SaveOnce    == Plain("saveOnce")
RestoreMode == Plain("restoreMode")
RestoreModeRate == Plain("restoreModeRate")
RestoreIfSaved  == Plain("restoreIfSaved")
OpenTap     == Plain("openTap")
CloseTap    == Plain("closeTap")
Record      == Plain("record")
EndRecord   == Plain("endRecord")
MicOn       == Plain("micOn")
MicOff      == Plain("micOff")

RestoreSettings(r, v) == SetSamplingRate(SetMode(r, v.saved.mode), v.saved.rate)

\* start_tx(): install the source, start; a start that fails takes it out again.
BeginSend(s, kind) ==
    LET mine  == IF kind = "keyer" THEN KeyerSource ELSE s.view.id
        armed == IF kind = "audio"
                 THEN [s.radio EXCEPT !.raw = FALSE, !.audio = mine]
                 ELSE [s.radio EXCEPT !.raw = TRUE, !.iq = mine]
        on    == StartTransmitter(armed)
    IN  IF on.onAir
        THEN [radio |-> on, view |-> [s.view EXCEPT !.sending = TRUE, !.sent = FALSE]]
        ELSE [s EXCEPT !.radio = IF kind = "audio"
                                 THEN [armed EXCEPT !.audio = NoSource]
                                 ELSE [armed EXCEPT !.iq = NoSource]]

\* The source left in the model.
StopKeepsSource(s, kind) ==
    [radio |-> StopTransmitter(s.radio),
     view  |-> [s.view EXCEPT !.sending = FALSE, !.sent = FALSE]]

\* stop_tx(): stop joins the DSP thread first, then the source is taken out.
EndSend(s, kind) ==
    LET off == StopTransmitter(s.radio)
    IN  [radio |-> IF kind = "audio" THEN [off EXCEPT !.audio = NoSource]
                   ELSE [off EXCEPT !.iq = NoSource],
         view  |-> [s.view EXCEPT !.sending = FALSE, !.sent = FALSE]]

Do(s, c) ==
    LET r == s.radio
        v == s.view
    IN CASE c.op = "mode"  -> [s EXCEPT !.radio = SetMode(r, c.arg)]
         [] c.op = "rate"  -> [s EXCEPT !.radio = SetSamplingRate(r, c.arg)]
         [] c.op = "hint"  -> [s EXCEPT !.radio.hint = c.arg]
         [] c.op = "mute"  -> [s EXCEPT !.radio.monitor = FALSE]
         [] c.op = "start" -> [s EXCEPT !.radio = StartReceiver(r)]
         [] c.op = "stop"  -> [s EXCEPT !.radio = StopReceiver(r)]
         [] c.op = "openTap"   -> [s EXCEPT !.radio.tap = TRUE]
         [] c.op = "closeTap"  -> [s EXCEPT !.radio.tap = FALSE]
         [] c.op = "record"    -> [s EXCEPT !.radio.capturing = ~r.capturing]
         [] c.op = "endRecord" -> [s EXCEPT !.radio.capturing = FALSE]
         [] c.op = "micOn"     -> [s EXCEPT !.radio.mic = TRUE]
         [] c.op = "micOff"    -> [s EXCEPT !.radio.mic = FALSE]
         [] c.op = "saveMode"  -> [s EXCEPT !.view.saved.mode = r.mode]
         [] c.op = "saveBoth"  ->
              [s EXCEPT !.view.saved.mode = r.mode, !.view.saved.rate = r.rate]
         [] c.op = "saveOnce"  ->
              IF v.saved.valid THEN s
              ELSE [s EXCEPT !.view.saved =
                       [valid |-> TRUE, mode |-> r.mode, rate |-> r.rate,
                        running |-> r.running]]
         [] c.op = "restoreMode" -> [s EXCEPT !.radio = SetMode(r, v.saved.mode)]
         [] c.op = "restoreModeRate" -> [s EXCEPT !.radio = RestoreSettings(r, v)]
         [] c.op = "restoreIfSaved" ->
              IF ~v.saved.valid THEN s
              ELSE [s EXCEPT !.radio =
                       RestoreSettings(IF v.saved.running THEN r ELSE StopReceiver(r), v)]
         [] c.op = "send"   -> BeginSend(s, c.arg)
         [] c.op = "unsend" -> EndSend(s, c.arg)
         [] c.op = "unsendIfSending" -> IF v.sending THEN EndSend(s, c.arg) ELSE s

\* The calls in their order; after[n] is the pair when n of them have returned.
Perform(s, calls) ==
    LET after[n \in 0..Len(calls)] ==
            IF n = 0 THEN s ELSE Do(after[n - 1], calls[n])
    IN  after[Len(calls)]
=============================================================================
