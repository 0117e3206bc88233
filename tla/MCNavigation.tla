---------------------------- MODULE MCNavigation ----------------------------
(* Instances of Navigation for TLC: which applications are installed.       *)
EXTENDS Navigation

Senders == {app \in AppIds : \E c \in Range(Profile(app).begin) : c.op = "send"}

\* Every receiver application.
ReceiverApps == AppIds \ Senders

\* Every transmitter application, and one receiver.
SenderApps == Senders \cup {"audio"}

\* A decoder without sound and the applications made for listening.
ListeningApps == {"acars_rx", "audio", "level"}

\* An application with a prompt.
PromptingApps == {"epirb_tx"}

\* One transmitter application, for the browser's Morse sender to meet.
KeyfobOnly == {"keyfob"}
=============================================================================
