----------------------------- MODULE AppProfiles -----------------------------
(***************************************************************************)
(* What each radio application of src/src/apps does to the radio: the      *)
(* calls of its constructor, on_show, on_hide, destructor and start/stop   *)
(* button, in the order the code makes them, with everything that is       *)
(* drawing, decoding or modulating left out.  The name of a profile is the *)
(* id under which the application is registered.                           *)
(*                                                                         *)
(* A profile has                                                           *)
(*   home     on the home screen, else one category menu deeper            *)
(*   ctor, show, hide, dtor   the calls of those members                   *)
(*   begin, end   the calls of the start and of the stop button            *)
(*   needs    the settings its decoder is built for; "any" where it takes  *)
(*            the receiver as it is                                        *)
(*   modes, rates   what its own fields let the operator choose            *)
(*   fresh    the initial values of the members that save settings         *)
(*   gives    the settings its destructor promises to give back            *)
(*   pages    the views it pushes over itself: a prompt, a map, a list     *)
(*   opens    an application it pushes over itself                         *)
(*   confirm  a modal asks before the first transmission                   *)
(*   burst    its waveform ends, and on_frame_sync() then stops            *)
(*   again    on_frame_sync() may send the next waveform instead           *)
(*   vox      on_frame_sync() also performs begin and end by itself        *)
(*   button   the operator can start and stop it                           *)
(*                                                                         *)
(* Left out: what an application sets in the transmitter without starting  *)
(* or stopping it.  MicTXView::apply_mode() sets its modulation on_show    *)
(* and at every change of the field, sending or not, and so also of the    *)
(* Morse that is on the air; no property here is about the modulation.     *)
(*                                                                         *)
(* AisSavingAlways and AdsbRxKeepsTap are faulty variants of the profiles. *)
(***************************************************************************)
EXTENDS RadioUse

AsItIs == [mode |-> "any", rate |-> "any", hint |-> "any", monitor |-> "any"]

Unsaved == [valid |-> FALSE, mode |-> "AM", rate |-> "2.4M", running |-> FALSE]

Blank ==
    [home |-> FALSE, ctor |-> <<>>, show |-> <<>>, hide |-> <<>>, dtor |-> <<>>,
     begin |-> <<>>, end |-> <<>>, needs |-> AsItIs, modes |-> {}, rates |-> {},
     fresh |-> Unsaved, gives |-> {}, pages |-> FALSE, opens |-> {},
     confirm |-> FALSE, burst |-> FALSE, again |-> FALSE, vox |-> FALSE,
     button |-> TRUE]

AudioModes == {"AM", "NFM", "WFM"}

-----------------------------------------------------------------------------
(* Receivers that set the receiver up in on_show.                          *)

\* Without the guard "only the first show captures the previous state".
AisSavingAlways ==
    [Blank EXCEPT
       !.show = <<SaveBoth, Mode("SPEC"), Rate("307k"), Hint("150k"), Start>>,
       !.dtor = <<RestoreModeRate>>, !.gives = {"mode", "rate"}, !.pages = TRUE]

Ais ==
    [Blank EXCEPT
       !.show = <<SaveOnce, Mode("SPEC"), Rate("307k"), Hint("150k"), Start>>,
       !.dtor = <<RestoreIfSaved>>, !.gives = {"mode", "rate"}, !.pages = TRUE,
       !.needs = [AsItIs EXCEPT !.mode = "SPEC", !.rate = "307k", !.hint = "150k"]]

LookingGlass ==
    [Blank EXCEPT
       !.home = TRUE, !.show = <<SaveMode, Mode("SPEC"), Start>>,
       !.dtor = <<RestoreMode>>, !.gives = {"mode"}, !.rates = {"1M", "2.4M"},
       !.needs = [AsItIs EXCEPT !.mode = "SPEC"]]

AnalogTv ==
    [Blank EXCEPT
       !.show = <<SaveBoth, Rate("2M"), Mode("SPEC"), Start>>,
       !.dtor = <<RestoreModeRate>>, !.gives = {"mode", "rate"},
       !.needs = [AsItIs EXCEPT !.mode = "SPEC", !.rate = "2M"]]

SearchApp ==
    [Blank EXCEPT
       !.show = <<SaveBoth, Mode("SPEC"), Rate("2.5M"), Start>>,
       !.dtor = <<RestoreModeRate>>, !.gives = {"mode", "rate"},
       !.fresh = [Unsaved EXCEPT !.mode = "NFM"],
       !.needs = [AsItIs EXCEPT !.mode = "SPEC", !.rate = "2.5M"]]

\* The destructor without disable_raw_tap().
AdsbRxKeepsTap ==
    [Blank EXCEPT
       !.show = <<Mode("SPEC"), Rate("8M"), Hint("4M"), Start, OpenTap>>, !.pages = TRUE]

AdsbRx ==
    [Blank EXCEPT
       !.show = <<Mode("SPEC"), Rate("8M"), Hint("4M"), Start, OpenTap>>,
       !.dtor = <<CloseTap>>, !.pages = TRUE,
       !.needs = [AsItIs EXCEPT !.mode = "SPEC", !.rate = "8M", !.hint = "4M"]]

AcarsRx ==
    [Blank EXCEPT
       !.show = <<Rate("2.4M"), Mode("AM"), Mute, Start>>,
       !.needs = [AsItIs EXCEPT !.mode = "AM", !.rate = "2.4M", !.monitor = "off"]]

AfskRx ==
    [Blank EXCEPT
       !.show = <<Rate("2.4M"), Mode("NFM"), Mute, Start>>,
       !.needs = [AsItIs EXCEPT !.mode = "NFM", !.rate = "2.4M", !.monitor = "off"]]

AprsRx ==
    [Blank EXCEPT
       !.show = <<Mode("NFM"), Mute, Rate("500k"), Start>>, !.pages = TRUE,
       !.needs = [AsItIs EXCEPT !.mode = "NFM", !.rate = "500k", !.monitor = "off"]]

NoaaAptRx ==
    [Blank EXCEPT
       !.show = <<Rate("3.072M"), Mode("WFM"), Mute, Start>>,
       !.needs = [AsItIs EXCEPT !.mode = "WFM", !.rate = "3.072M", !.monitor = "off"]]

WeFaxRx ==
    [Blank EXCEPT
       !.show = <<Rate("3.072M"), Mode("AM"), Mute, Start>>,
       !.needs = [AsItIs EXCEPT !.mode = "AM", !.rate = "3.072M", !.monitor = "off"]]

GfxEq ==
    [Blank EXCEPT
       !.show = <<Mode("WFM"), Rate("1.536M"), Start>>,
       !.needs = [AsItIs EXCEPT !.mode = "WFM", !.rate = "1.536M", !.monitor = "on"]]

ErtRx ==
    [Blank EXCEPT
       !.show = <<Rate("4.194M"), Mode("SPEC"), Start>>,
       !.needs = [AsItIs EXCEPT !.mode = "SPEC", !.rate = "4.194M"]]

WeatherRx ==
    [Blank EXCEPT
       !.show = <<Rate("2.457M"), Mode("SPEC"), Start>>, !.pages = TRUE,
       !.needs = [AsItIs EXCEPT !.mode = "SPEC", !.rate = "2.457M"]]

FpvDetect ==
    [Blank EXCEPT
       !.show = <<Mode("SPEC"), Rate("750k"), Start>>,
       !.needs = [AsItIs EXCEPT !.mode = "SPEC", !.rate = "750k"]]

VorRx ==
    [Blank EXCEPT
       !.show = <<Mode("AM"), Rate("vor"), Start>>,
       !.needs = [AsItIs EXCEPT !.mode = "AM", !.rate = "vor", !.monitor = "on"]]

-----------------------------------------------------------------------------
(* Receivers that set the receiver up in their constructor.                *)

PocsagRx ==
    [Blank EXCEPT
       !.ctor = <<Mode("NFM"), Mute>>, !.show = <<Start>>, !.pages = TRUE,
       !.needs = [AsItIs EXCEPT !.mode = "NFM", !.monitor = "off"]]

FlexRx ==
    [Blank EXCEPT
       !.ctor = <<Mode("NFM"), Mute>>, !.show = <<Start>>,
       !.needs = [AsItIs EXCEPT !.mode = "NFM", !.monitor = "off"]]

DetectorRx ==
    [Blank EXCEPT
       !.ctor = <<Mode("SPEC"), Rate("750k")>>, !.show = <<Start>>, !.pages = TRUE,
       !.needs = [AsItIs EXCEPT !.mode = "SPEC", !.rate = "750k"]]

FoxhuntRx ==
    [Blank EXCEPT
       !.ctor = <<Mode("AM")>>, !.show = <<Start>>, !.pages = TRUE,
       !.needs = [AsItIs EXCEPT !.mode = "AM"]]

SignalHunter ==
    [Blank EXCEPT
       !.ctor = <<Mode("SPEC"), Rate("2M")>>, !.show = <<Start>>, !.dtor = <<EndRecord>>,
       !.begin = <<Record>>, !.button = FALSE, !.vox = TRUE, !.pages = TRUE,
       !.needs = [AsItIs EXCEPT !.mode = "SPEC", !.rate = "2M"]]

SondeRx ==
    [Blank EXCEPT
       !.ctor = <<Rate("2.457M"), Hint("800k"), Mode("SPEC")>>, !.show = <<Start>>, !.pages = TRUE,
       !.needs = [AsItIs EXCEPT !.mode = "SPEC", !.rate = "2.457M", !.hint = "800k"]]

SubCarRx ==
    [Blank EXCEPT
       !.ctor = <<Mode("SPEC"), Rate("4M")>>, !.show = <<Start>>,
       !.needs = [AsItIs EXCEPT !.mode = "SPEC", !.rate = "4M"]]

TetraRx ==
    [Blank EXCEPT
       !.ctor = <<Mode("SPEC"), Rate("3.072M")>>, !.show = <<Start>>,
       !.needs = [AsItIs EXCEPT !.mode = "SPEC", !.rate = "3.072M"]]

TimeSink ==
    [Blank EXCEPT
       !.ctor = <<Mode("SPEC"), Rate("1M")>>, !.show = <<Start>>,
       !.rates = {"1M", "2M"},
       !.needs = [AsItIs EXCEPT !.mode = "SPEC"]]

Scanner ==
    [Blank EXCEPT
       !.ctor = <<Mode("NFM")>>, !.show = <<Start>>, !.modes = AudioModes,
       !.pages = TRUE, !.opens = {"audio"}]

Recon ==
    [Blank EXCEPT
       !.home = TRUE, !.ctor = <<Mode("AM")>>, !.show = <<Start>>,
       !.modes = AudioModes \cup {"SPEC"}, !.pages = TRUE]

FmRadio ==
    [Blank EXCEPT
       !.ctor = <<Mode("WFM"), Rate("3.072M")>>, !.show = <<Start>>,
       !.modes = AudioModes, !.needs = [AsItIs EXCEPT !.rate = "3.072M"]]

MorseRx ==
    [Blank EXCEPT
       !.ctor = <<Mode("AM")>>, !.show = <<Rate("3.072M"), Start>>,
       !.modes = {"AM", "NFM"}, !.needs = [AsItIs EXCEPT !.rate = "3.072M"]]

-----------------------------------------------------------------------------
(* Receivers that start from a button, or take the receiver as it is.      *)

BleRx ==
    [Blank EXCEPT
       !.begin = <<Mode("SPEC"), Start>>]

NrfRx ==
    [Blank EXCEPT
       !.begin = <<Mode("SPEC"), Start>>]

EpirbRx ==
    [Blank EXCEPT
       !.begin = <<Mode("SPEC"), Start>>]

TwoToneRx ==
    [Blank EXCEPT
       !.begin = <<Mode("NFM"), Mute, Start>>]

AnalogAudio ==
    [Blank EXCEPT
       !.show = <<Start>>, !.modes = AudioModes]

Level ==
    [Blank EXCEPT
       !.show = <<Start>>, !.modes = AudioModes]

Capture ==
    [Blank EXCEPT
       !.home = TRUE, !.show = <<Start>>, !.begin = <<Record>>, !.dtor = <<EndRecord>>,
       !.rates = {"1M", "2.4M"}]

RttyRx ==
    [Blank EXCEPT
       !.show = <<Start>>]

SstvRx ==
    [Blank EXCEPT
       !.show = <<Start>>]

Tuner ==
    [Blank EXCEPT
       !.show = <<Stop>>]

RadioSetup ==
    [Blank EXCEPT
       !.rates = {"1M", "2.4M"}]

-----------------------------------------------------------------------------
(* Transmitters that stop only in their destructor, if they are sending.   *)

AdsbTx ==
    [Blank EXCEPT
       !.begin = <<Send("iq")>>, !.end = <<Unsend("iq")>>, !.dtor = <<UnsendIfSending("iq")>>,
       !.pages = TRUE, !.confirm = TRUE]

BhtTx ==
    [Blank EXCEPT
       !.begin = <<Send("iq")>>, !.end = <<Unsend("iq")>>, !.dtor = <<UnsendIfSending("iq")>>,
       !.burst = TRUE]

CoasterTx ==
    [Blank EXCEPT
       !.begin = <<Send("iq")>>, !.end = <<Unsend("iq")>>, !.dtor = <<UnsendIfSending("iq")>>,
       !.burst = TRUE, !.again = TRUE]

EpirbTx ==
    [Blank EXCEPT
       !.begin = <<Send("iq")>>, !.end = <<Unsend("iq")>>, !.dtor = <<UnsendIfSending("iq")>>,
       !.confirm = TRUE, !.burst = TRUE]

KeeloqTx ==
    [Blank EXCEPT
       !.begin = <<Send("iq")>>, !.end = <<Unsend("iq")>>, !.dtor = <<UnsendIfSending("iq")>>,
       !.burst = TRUE]

KeyfobTx ==
    [Blank EXCEPT
       !.begin = <<Send("iq")>>, !.end = <<Unsend("iq")>>, !.dtor = <<UnsendIfSending("iq")>>,
       !.burst = TRUE]

SecplusTx ==
    [Blank EXCEPT
       !.begin = <<Send("iq")>>, !.end = <<Unsend("iq")>>, !.dtor = <<UnsendIfSending("iq")>>,
       !.burst = TRUE]

VorTx ==
    [Blank EXCEPT
       !.begin = <<Send("iq")>>, !.end = <<Unsend("iq")>>, !.dtor = <<UnsendIfSending("iq")>>,
       !.pages = TRUE, !.confirm = TRUE]

AprsTx ==
    [Blank EXCEPT
       !.begin = <<Send("audio")>>, !.end = <<Unsend("audio")>>, !.dtor = <<Unsend("audio")>>,
       !.pages = TRUE, !.burst = TRUE]

-----------------------------------------------------------------------------
(* Transmitters that stop in on_hide and in their destructor.              *)

BleTx ==
    [Blank EXCEPT
       !.begin = <<Send("iq")>>, !.end = <<Unsend("iq")>>, !.hide = <<Unsend("iq")>>,
       !.dtor = <<Unsend("iq")>>,
       !.burst = TRUE]

OokTx ==
    [Blank EXCEPT
       !.begin = <<Send("keyer")>>, !.end = <<Unsend("keyer")>>, !.hide = <<Unsend("keyer")>>,
       !.dtor = <<Unsend("keyer")>>,
       !.burst = TRUE]

FlexTx ==
    [Blank EXCEPT
       !.begin = <<Send("iq")>>, !.end = <<Unsend("iq")>>, !.hide = <<Unsend("iq")>>,
       !.dtor = <<Unsend("iq")>>,
       !.pages = TRUE, !.burst = TRUE]

GpsSim ==
    [Blank EXCEPT
       !.begin = <<Send("iq")>>, !.end = <<Unsend("iq")>>, !.hide = <<Unsend("iq")>>,
       !.dtor = <<Unsend("iq")>>,
       !.confirm = TRUE]

Jammer ==
    [Blank EXCEPT
       !.begin = <<Send("iq")>>, !.end = <<Unsend("iq")>>, !.hide = <<Unsend("iq")>>,
       !.dtor = <<Unsend("iq")>>,
       !.confirm = TRUE]

KissTnc ==
    [Blank EXCEPT
       !.begin = <<Send("audio")>>, !.end = <<Unsend("audio")>>, !.hide = <<Unsend("audio")>>,
       !.dtor = <<Unsend("audio")>>,
       !.burst = TRUE]

MicTx ==
    [Blank EXCEPT
       !.show = <<MicOn>>, !.begin = <<MicOn, Send("audio")>>, !.end = <<Unsend("audio")>>,
       !.hide = <<Unsend("audio")>>, !.dtor = <<Unsend("audio"), MicOff>>, !.vox = TRUE]

MorseTx ==
    [Blank EXCEPT
       !.begin = <<Send("iq")>>, !.end = <<Unsend("iq")>>, !.hide = <<Unsend("iq")>>,
       !.dtor = <<Unsend("iq")>>,
       !.pages = TRUE, !.burst = TRUE]

OokEditor ==
    [Blank EXCEPT
       !.begin = <<Send("keyer")>>, !.end = <<Unsend("keyer")>>, !.hide = <<Unsend("keyer")>>,
       !.dtor = <<Unsend("keyer")>>,
       !.pages = TRUE, !.burst = TRUE]

OokBrute ==
    [Blank EXCEPT
       !.begin = <<Send("keyer")>>, !.end = <<Unsend("keyer")>>, !.hide = <<Unsend("keyer")>>,
       !.dtor = <<Unsend("keyer")>>,
       !.burst = TRUE, !.again = TRUE]

Playlist ==
    [Blank EXCEPT
       !.begin = <<Send("iq")>>, !.end = <<Unsend("iq")>>, !.hide = <<Unsend("iq")>>,
       !.dtor = <<Unsend("iq")>>,
       !.home = TRUE, !.pages = TRUE, !.burst = TRUE, !.again = TRUE]

PocsagTx ==
    [Blank EXCEPT
       !.begin = <<Send("iq")>>, !.end = <<Unsend("iq")>>, !.hide = <<Unsend("iq")>>,
       !.dtor = <<Unsend("iq")>>,
       !.pages = TRUE, !.burst = TRUE]

RdsTx ==
    [Blank EXCEPT
       !.begin = <<Send("iq")>>, !.end = <<Unsend("iq")>>, !.hide = <<Unsend("iq")>>,
       !.dtor = <<Unsend("iq")>>,
       !.pages = TRUE]

RemoteTx ==
    [Blank EXCEPT
       !.begin = <<Send("iq")>>, !.end = <<Unsend("iq")>>, !.hide = <<Unsend("iq")>>,
       !.dtor = <<Unsend("iq")>>,
       !.home = TRUE, !.pages = TRUE, !.burst = TRUE]

RttyTx ==
    [Blank EXCEPT
       !.begin = <<Send("iq")>>, !.end = <<Unsend("iq")>>, !.hide = <<Unsend("iq")>>,
       !.dtor = <<Unsend("iq")>>,
       !.pages = TRUE, !.burst = TRUE]

SameTx ==
    [Blank EXCEPT
       !.begin = <<Send("audio")>>, !.end = <<Unsend("audio")>>, !.hide = <<Unsend("audio")>>,
       !.dtor = <<Unsend("audio")>>,
       !.burst = TRUE]

SoundBoard ==
    [Blank EXCEPT
       !.begin = <<Send("audio")>>, !.end = <<Unsend("audio")>>, !.hide = <<Unsend("audio")>>,
       !.dtor = <<Unsend("audio")>>,
       !.burst = TRUE]

SstvTx ==
    [Blank EXCEPT
       !.begin = <<Send("audio")>>, !.end = <<Unsend("audio")>>, !.hide = <<Unsend("audio")>>,
       !.dtor = <<Unsend("audio")>>,
       !.burst = TRUE]

TouchTunes ==
    [Blank EXCEPT
       !.begin = <<Send("iq")>>, !.end = <<Unsend("iq")>>, !.hide = <<Unsend("iq")>>,
       !.dtor = <<Unsend("iq")>>,
       !.burst = TRUE]

SigGen ==
    [Blank EXCEPT
       !.begin = <<Send("audio")>>, !.end = <<Unsend("audio")>>, !.hide = <<UnsendIfSending("audio")>>,
       !.dtor = <<UnsendIfSending("audio")>>,
       !.burst = TRUE]

TwoTonePager ==
    [Blank EXCEPT
       !.begin = <<Send("audio")>>, !.end = <<Unsend("audio")>>, !.hide = <<UnsendIfSending("audio")>>,
       !.dtor = <<UnsendIfSending("audio")>>,
       !.burst = TRUE]

-----------------------------------------------------------------------------
(* The profile of an application, and of the views without one.            *)

Profiles ==
    [ais |-> Ais, lookingglass |-> LookingGlass, analogtv |-> AnalogTv,
     search |-> SearchApp, adsbrx |-> AdsbRx, acars_rx |-> AcarsRx,
     afsk_rx |-> AfskRx, aprsrx |-> AprsRx, noaaapt_rx |-> NoaaAptRx,
     wefax_rx |-> WeFaxRx, gfxeq |-> GfxEq, ert |-> ErtRx,
     weather |-> WeatherRx, fpv_detect |-> FpvDetect, vor_rx |-> VorRx,
     pocsag |-> PocsagRx, flex_rx |-> FlexRx, detector_rx |-> DetectorRx,
     foxhunt |-> FoxhuntRx, signal_hunter |-> SignalHunter,
     radiosonde |-> SondeRx, subcarrx |-> SubCarRx, tetra_rx |-> TetraRx,
     time_sink |-> TimeSink, scanner |-> Scanner, recon |-> Recon,
     fmradio |-> FmRadio, morseradio |-> MorseRx, blerx |-> BleRx,
     nrf_rx |-> NrfRx, epirb_rx |-> EpirbRx, two_tone_rx |-> TwoToneRx,
     audio |-> AnalogAudio, level |-> Level, capture |-> Capture,
     rtty_rx |-> RttyRx, sstvrx |-> SstvRx, tuner |-> Tuner,
     radio |-> RadioSetup, adsbtx |-> AdsbTx, bht_tx |-> BhtTx,
     coasterp |-> CoasterTx, epirb_tx |-> EpirbTx, keeloqtx |-> KeeloqTx,
     keyfob |-> KeyfobTx, secplustx |-> SecplusTx, vor_tx |-> VorTx,
     aprstx |-> AprsTx, bletx |-> BleTx, ooktx |-> OokTx,
     flex_tx |-> FlexTx, gpssim |-> GpsSim, jammer |-> Jammer,
     kiss_tnc |-> KissTnc, microphone |-> MicTx, morse_tx |-> MorseTx,
     ook_editor |-> OokEditor, ookbrute |-> OokBrute, replay |-> Playlist,
     pocsag_tx |-> PocsagTx, rdstx |-> RdsTx, remote |-> RemoteTx,
     rtty_tx |-> RttyTx, same_tx |-> SameTx, soundboard |-> SoundBoard,
     sstvtx |-> SstvTx, touchtune |-> TouchTunes, siggen |-> SigGen,
     two_tone_pager |-> TwoTonePager]

AppIds == DOMAIN Profiles

\* A menu and a page have none of an application's calls.
Profile(app) == IF app \in {"menu", "none"} THEN Blank ELSE Profiles[app]
==============================================================================
