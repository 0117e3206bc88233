----------------------------- MODULE SdrClient -----------------------------
(***************************************************************************)
(* The control connection of the web GUI to an sdrlink server              *)
(* (src/webgui/internal/sdrclient/client.go): any goroutine calls, every   *)
(* call has an id, and the one read loop hands each reply to the call that *)
(* waits for it.  The server is external: it serves the requests in the    *)
(* order they come, and its replies may overtake one another, be late and  *)
(* come twice.                                                             *)
(*                                                                         *)
(* Callers are the goroutines.  What a command does to the server and the  *)
(* bound on faults are those of the module that extends this one.  Events, *)
(* and lines that are no reply, are left out: the read loop drops them or  *)
(* puts them where they fit.                                               *)
(*                                                                         *)
(* ReusedId is a faulty variant of NewId; nothing uses it.                 *)
(***************************************************************************)
EXTENDS Naturals, FiniteSets, Sequences

CONSTANT Callers

VARIABLES
    pending,     \* the ids calls wait for; nil once the client is closed
    closed,      \* fail() has run: calls are refused and the waiting woken
    next_id,
    serial,      \* history: the requests made, to tell ids from requests
    call,        \* each caller's call: where it is, its id and what came back
    requests,    \* on the way to the server
    replies,     \* on the way back
    reader,      \* the read loop: idle, or about to hand a reply over
    connected

client == <<pending, closed, next_id, serial, call, requests, replies, reader,
            connected>>

NoCall == [at |-> "none"]
Returned(serial_, reply) == [at |-> "returned", serial |-> serial_, reply |-> reply,
                             ok |-> reply.ok, value |-> reply.value]
NoReply == [id |-> 0, serial |-> 0, ok |-> FALSE, value |-> 0]

ClientInit ==
    /\ pending = {} /\ closed = FALSE /\ next_id = 0 /\ serial = 0
    /\ call = [c \in Callers |-> NoCall]
    /\ requests = <<>> /\ replies = {} /\ reader = NoReply
    /\ connected = TRUE

Failed(c) == Returned(call[c].serial, NoReply)

-----------------------------------------------------------------------------
(* call()                                                                  *)

ReusedId == CHOOSE i \in 1..Cardinality(pending) + 1 : i \notin pending

NewId == next_id + 1

\* The id and the channel, or a refusal: one critical section.
Register(c, cmd, arg) ==
    IF closed
    THEN /\ call' = [call EXCEPT ![c] = Returned(0, NoReply)]
         /\ UNCHANGED <<pending, next_id, serial>>
    ELSE /\ next_id' = next_id + 1 /\ serial' = serial + 1
         /\ pending' = pending \cup {NewId}
         /\ call' = [call EXCEPT ![c] =
                        [at |-> "write", id |-> NewId, serial |-> serial + 1,
                         cmd |-> cmd, arg |-> arg]]

\* The write, which fails on a connection that is gone.
WriteRequest(c) ==
    /\ call[c].at = "write"
    /\ IF connected
       THEN /\ requests' = Append(requests,
                  [id |-> call[c].id, serial |-> call[c].serial,
                   cmd |-> call[c].cmd, arg |-> call[c].arg])
            /\ call' = [call EXCEPT ![c].at = "wait"]
            /\ UNCHANGED pending
       ELSE /\ pending' = pending \ {call[c].id}
            /\ call' = [call EXCEPT ![c] = Failed(c)]
            /\ UNCHANGED requests
    /\ UNCHANGED <<closed, next_id, serial, replies, reader, connected>>

\* The reply timeout, or the end of the caller's context.
TimeOut(c) ==
    /\ call[c].at \in {"wait", "full"}
    /\ pending' = pending \ {call[c].id}
    /\ call' = [call EXCEPT ![c] = Failed(c)]
    /\ UNCHANGED <<closed, next_id, serial, requests, replies, reader,
                   connected>>

\* The reply is in the channel of the call.
TakeReply(c) ==
    /\ call[c].at = "full"
    /\ call' = [call EXCEPT ![c] =
                  Returned(call[c].serial, call[c].reply)]
    /\ UNCHANGED <<pending, closed, next_id, serial, requests, replies, reader,
                   connected>>

SeeClosed(c) ==
    /\ call[c].at \in {"wait", "full"} /\ closed
    /\ call' = [call EXCEPT ![c] = Failed(c)]
    /\ UNCHANGED <<pending, closed, next_id, serial, requests, replies, reader,
                   connected>>

-----------------------------------------------------------------------------
(* readLoop() and handleLine()                                             *)

\* The channel is looked up and taken out in one critical section.
TakeOut(reply) ==
    /\ reader' = IF reply.id \in pending THEN reply ELSE NoReply
    /\ pending' = pending \ {reply.id}

\* A reply to a call that has given up is dropped.
ReadReply ==
    /\ reader = NoReply /\ connected
    /\ \E reply \in replies :
          /\ replies' = replies \ {reply}
          /\ TakeOut(reply)
    /\ UNCHANGED <<closed, next_id, serial, call, requests, connected>>

Waiting(id) == {c \in Callers : call[c].at \in {"write", "wait", "full"}
                                /\ call[c].id = id}

\* The channel of a call has room for one reply.  A caller that has given up
\* leaves its channel to the reader alone.
HandOver ==
    /\ reader # NoReply
    /\ \A c \in Waiting(reader.id) : call[c].at # "full"
    /\ call' = [c \in Callers |->
                  IF c \in Waiting(reader.id)
                  THEN [at |-> "full", id |-> call[c].id,
                        serial |-> call[c].serial, reply |-> reader]
                  ELSE call[c]]
    /\ reader' = NoReply
    /\ UNCHANGED <<pending, closed, next_id, serial, requests, replies,
                   connected>>

\* fail(): the connection has ended, and the read loop with it.
Fail ==
    /\ ~connected /\ ~closed /\ reader = NoReply
    /\ closed' = TRUE /\ pending' = {}
    /\ UNCHANGED <<next_id, serial, call, requests, replies, reader, connected>>

CallerSteps(c) == WriteRequest(c) \/ TakeReply(c) \/ SeeClosed(c)
ReaderSteps == ReadReply \/ HandOver \/ Fail
ClientSteps == (\E c \in Callers : CallerSteps(c)) \/ ReaderSteps
=============================================================================
