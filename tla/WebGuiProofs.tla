--------------------------- MODULE WebGuiProofs ---------------------------
(***************************************************************************)
(* Proofs about the two servers of webgui.  WebDevice and the client it    *)
(* uses, for any number of callers, requests and faults: a call gets the   *)
(* reply to its own request, no channel is closed twice, and the device    *)
(* that the server holds open is one that somebody can reach.  Portal, for *)
(* any browsers, loops and runs of the program and any limits of the two   *)
(* queues: no key stays down that nobody holds.                            *)
(***************************************************************************)
EXTENDS WebDevice, Portal, TLAPS

-----------------------------------------------------------------------------
(* Ids.  They are handed out once, so an id is as good as the request; who *)
(* waits, the requests, the replies and what the reader holds have it.     *)

Commands == {"open", "get_state", "set", "start_rx", "stop_rx", "close_device"}
Values == Freqs \cup {0, CHOOSE f \in Freqs : TRUE}
Requests == [id : Nat, serial : Nat, cmd : Commands, arg : Values]
Replies == [id : Nat, serial : Nat, ok : BOOLEAN, value : Values]

\* A call that has made its request, or is about to.
Out(c) == call[c].at \in {"write", "wait", "full"}
Coming == replies \cup {reader}

CallOK(c) ==
    /\ call[c].at \in {"none", "write", "wait", "full", "returned"}
    /\ call[c].at \in {"write", "wait"} =>
          /\ call[c] = [at |-> call[c].at, id |-> call[c].id, serial |-> call[c].serial,
                        cmd |-> call[c].cmd, arg |-> call[c].arg]
          /\ call[c].cmd \in Commands /\ call[c].arg \in Values
    /\ Out(c) => call[c].id \in 1 .. next_id /\ call[c].serial = call[c].id
    /\ call[c].at = "full" =>
          call[c].reply \in Replies /\ call[c].reply.id = call[c].id
          /\ call[c].reply.serial = call[c].serial
    /\ call[c].at = "returned" =>
          /\ call[c].reply \in Replies /\ call[c].ok = call[c].reply.ok
          /\ call[c].value = call[c].reply.value
          /\ call[c].reply # NoReply => call[c].reply.serial = call[c].serial

CallInv ==
    /\ call = [c \in Callers |-> call[c]]
    /\ \A c \in Callers : CallOK(c)

IdInv ==
    /\ next_id \in Nat /\ serial = next_id
    /\ requests \in Seq(Requests)
    /\ \A i \in DOMAIN requests :
          requests[i].id \in 1 .. next_id /\ requests[i].serial = requests[i].id
    /\ replies \subseteq Replies /\ reader \in Replies
    /\ \A r \in Coming : r.serial = r.id /\ r.id \in 0 .. next_id
    /\ \A r \in replies : r.id # 0
    /\ reader = NoReply \/ reader.id # 0

\* A request is served once: it is on its way, or replies to it are, which are
\* all the same.
OnceInv ==
    /\ \A i, j \in DOMAIN requests : requests[i].id = requests[j].id => i = j
    /\ \A i \in DOMAIN requests : \A r \in Coming : requests[i].id # r.id
    /\ \A r, s \in Coming : r.id = s.id => r = s
    /\ \A c, d \in Callers : Out(c) /\ Out(d) /\ call[c].id = call[d].id => c = d
    /\ \A c \in Callers : call[c].at = "write" =>
          /\ \A i \in DOMAIN requests : requests[i].id # call[c].id
          /\ \A r \in Coming : r.id # call[c].id
    /\ closed => ~connected

-----------------------------------------------------------------------------
(* The socket.  A channel is open or has been closed, and the device the   *)
(* socket has looked at and not subscribed to has no channel yet: adapters *)
(* come one after the other, and none is current again.                    *)

Adapters == [streaming : BOOLEAN, stream : BOOLEAN, freq : Values]

SocketInv ==
    /\ adapter \in Seq(Adapters) /\ current \in {0, Len(adapter)}
    /\ watch = [dev |-> watch.dev, seen |-> watch.seen]
    /\ subs \cap shut = {}
    /\ \A d \in subs \cup shut :
          d \in 1 .. Len(adapter) /\ (d = current => d = watch.dev /\ watch.seen = {})
    /\ \A d \in watch.seen : d \in 0 .. Len(adapter) /\ d \notin subs \cup shut
    /\ \A d, e \in watch.seen : d = e
    /\ NeverPanics

-----------------------------------------------------------------------------
(* The requests and their calls.  While nothing has been late and the      *)
(* connection stands, every request on its way has its caller waiting, and *)
(* the device is open for one reason: there is an adapter, or it is being  *)
(* made, or the last one is being closed.                                  *)

CommandOf(at) == CASE at = "give_back" -> "close_device"
                   [] at = "unwind" -> "stop_rx"
                   [] OTHER -> at

Opening(c) == http[c].at \in {"open", "get_state", "give_back"}

HttpOK(c) ==
    /\ http[c] = [op |-> http[c].op, at |-> http[c].at, dev |-> http[c].dev, freq |-> http[c].freq]
    /\ http[c].at \in Commands \cup {"idle", "drop", "dial", "stopped", "give_back", "unwind"}
    /\ http[c].at = "idle" => http[c] = Idle
    /\ http[c].at \in {"idle", "drop", "dial", "stopped"} => call[c].at = "none"
    /\ http[c].at \in Commands \cup {"give_back", "unwind"} =>
          /\ call[c].at # "none"
          /\ call[c].at \in {"write", "wait"} => call[c].cmd = CommandOf(http[c].at)

HttpInv == http = [c \in Callers |-> http[c]] /\ \A c \in Callers : HttpOK(c)

LockInv ==
    /\ lock \in BOOLEAN
    /\ lock => current = 0
    /\ \A c \in Callers : Opening(c) => lock
    /\ \A c, d \in Callers : Opening(c) /\ Opening(d) => c = d

Unserved(c) ==
    \/ call[c].at = "write"
    \/ call[c].at = "wait" /\ \E i \in DOMAIN requests : requests[i].id = call[c].id

Opened(c) ==
    \/ call[c].at = "wait" /\ \E r \in Coming : r.id = call[c].id /\ r.ok
    \/ call[c].at = "full" /\ call[c].reply.ok
    \/ call[c].at = "returned" /\ call[c].ok

Holds(c) ==
    \/ http[c].at \in {"drop", "get_state"}
    \/ http[c].at \in {"close_device", "give_back"} /\ Unserved(c)
    \/ http[c].at = "open" /\ Opened(c)

ForOneReason ==
    /\ server.open <=> (current # 0 \/ server.kept \/ \E c \in Callers : Holds(c))
    /\ server.kept => current = 0
    /\ \A c \in Callers : Holds(c) => current = 0 /\ ~server.kept
    /\ \A c, d \in Callers : Holds(c) /\ Holds(d) => c = d

Awaited ==
    /\ ~closed
    /\ \A i \in DOMAIN requests : \E c \in Callers :
          call[c].at = "wait" /\ call[c].id = requests[i].id /\ call[c].cmd = requests[i].cmd
    /\ \A c \in Callers :
          /\ call[c].at = "write" => call[c].id \in pending
          /\ call[c].at = "wait" => call[c].id \in pending \/ reader.id = call[c].id

ServerInv ==
    /\ server \in [open : BOOLEAN, kept : BOOLEAN, freq : Values]
    /\ late \in BOOLEAN /\ connected \in BOOLEAN
    /\ connected /\ ~late => Awaited /\ ForOneReason

IInv == CallInv /\ IdInv /\ OnceInv /\ SocketInv /\ HttpInv /\ LockInv /\ ServerInv

-----------------------------------------------------------------------------
(* The calls, one by one.                                                  *)

ClientInv == CallInv /\ IdInv /\ OnceInv

LEMMA NoReplyType == NoReply \in Replies /\ NoReply.id = 0 /\ NoReply.serial = 0 /\ NoReply.ok = FALSE
BY DEF NoReply, Replies, Values

LEMMA CallsAre ==
  ASSUME CallInv, NEW c \in Callers, NEW k, call' = [call EXCEPT ![c] = k]
  PROVE  /\ call' = [d \in Callers |-> call'[d]]
         /\ call'[c] = k
         /\ \A d \in Callers : d # c => call'[d] = call[d]
BY DEF CallInv

(* A call that is over leaves the others as they were.                     *)
LEMMA OverKeeps ==
  ASSUME ClientInv, NEW c \in Callers, NEW k,
         k = NoCall \/ \E n, r : k = Returned(n, r) /\ r \in Replies /\ (r # NoReply => r.serial = n),
         call' = [call EXCEPT ![c] = k],
         UNCHANGED <<closed, next_id, serial, requests, replies, reader, connected>>
  PROVE  ClientInv'
<1> USE DEF ClientInv
<1>1. /\ call' = [d \in Callers |-> call'[d]] /\ call'[c] = k
      /\ \A d \in Callers : d # c => call'[d] = call[d]
  BY CallsAre
<1>2. k.at \in {"none", "returned"}
  BY DEF NoCall, Returned
<1>3. CallOK(c)'
  BY <1>1, <1>2 DEF CallOK, Out, NoCall, Returned
<1>4. \A d \in Callers : d # c => CallOK(d)'
  BY <1>1 DEF CallInv, CallOK, Out
<1>5. CallInv'
  BY <1>1, <1>3, <1>4 DEF CallInv
<1>6. IdInv'
  BY DEF IdInv, Coming
<1>7. OnceInv'
  BY <1>1, <1>2 DEF OnceInv, Out, Coming
<1> QED
  BY <1>5, <1>6, <1>7

LEMMA NoMoreCallsKeeps ==
  ASSUME ClientInv, NEW c \in Callers, NoMoreCalls(c) PROVE ClientInv'
BY OverKeeps DEF NoMoreCalls, Quiet

LEMMA SendKeeps ==
  ASSUME ClientInv, NEW c \in Callers, NEW cmd \in Commands, NEW arg \in Values, Send(c, cmd, arg)
  PROVE  ClientInv'
<1> USE DEF ClientInv
<1>1. CASE closed
  <2>1. call' = [call EXCEPT ![c] = Returned(0, NoReply)]
        /\ UNCHANGED <<closed, next_id, serial, requests, replies, reader, connected>>
    BY <1>1 DEF Send, Register, Quiet
  <2> QED
    BY <2>1, OverKeeps, NoReplyType
<1>2. CASE ~closed
  <2> DEFINE k == [at |-> "write", id |-> next_id + 1, serial |-> serial + 1, cmd |-> cmd, arg |-> arg]
  <2>1. /\ next_id' = next_id + 1 /\ serial' = serial + 1
        /\ call' = [call EXCEPT ![c] = k]
        /\ UNCHANGED <<closed, requests, replies, reader, connected>>
    BY <1>2 DEF Send, Register, Quiet, NewId
  <2>2. /\ call' = [d \in Callers |-> call'[d]] /\ call'[c] = k
        /\ \A d \in Callers : d # c => call'[d] = call[d]
    BY <2>1, CallsAre
  <2>3. next_id \in Nat /\ serial = next_id /\ next_id + 1 \in 1 .. (next_id + 1)
        /\ \A n \in 0 .. next_id : n \in 0 .. (next_id + 1) /\ n # next_id + 1
    BY DEF IdInv
  <2>4. CallOK(c)'
    BY <2>1, <2>2, <2>3 DEF CallOK, Out
  <2>5. \A d \in Callers : d # c => CallOK(d)'
    <3> TAKE d \in Callers
    <3> HAVE d # c
    <3>1. Out(d) => call[d].id \in 1 .. (next_id + 1)
      BY <2>3 DEF CallInv, CallOK
    <3> QED
      BY <2>1, <2>2, <3>1 DEF CallInv, CallOK, Out
  <2>6. CallInv'
    BY <2>2, <2>4, <2>5 DEF CallInv
  <2>7. IdInv'
    <3>1. /\ \A i \in DOMAIN requests : requests[i].id \in 1 .. (next_id + 1)
          /\ \A r \in Coming : r.id \in 0 .. (next_id + 1)
      BY <2>3 DEF IdInv
    <3> QED
      BY <2>1, <2>3, <3>1 DEF IdInv, Coming
  <2>8. OnceInv'
    <3>1. call'[c].id = next_id + 1
      BY <2>2
    <3>2. /\ \A i \in DOMAIN requests : requests[i].id # next_id + 1
          /\ \A r \in Coming : r.id # next_id + 1
          /\ \A d \in Callers : Out(d) => call[d].id # next_id + 1
      BY <2>3 DEF IdInv, CallInv, CallOK
    <3> QED
      BY <2>1, <2>2, <3>1, <3>2 DEF OnceInv, Out, Coming
  <2> QED
    BY <2>6, <2>7, <2>8
<1> QED
  BY <1>1, <1>2

LEMMA WriteRequestKeeps ==
  ASSUME ClientInv, NEW c \in Callers, WriteRequest(c) PROVE ClientInv'
<1> USE DEF ClientInv
<1>1. call[c].at = "write" /\ UNCHANGED <<closed, next_id, serial, replies, reader, connected>>
      /\ CallOK(c)
  BY DEF WriteRequest, CallInv
<1>2. CASE ~connected
  <2>1. call' = [call EXCEPT ![c] = Returned(call[c].serial, NoReply)] /\ UNCHANGED requests
    BY <1>2 DEF WriteRequest, Failed
  <2> QED
    BY <1>1, <2>1, OverKeeps, NoReplyType
<1>3. CASE connected
  <2> DEFINE k == [at |-> "wait", id |-> call[c].id, serial |-> call[c].serial,
                   cmd |-> call[c].cmd, arg |-> call[c].arg]
             q == [id |-> call[c].id, serial |-> call[c].serial,
                   cmd |-> call[c].cmd, arg |-> call[c].arg]
  <2>1. requests' = Append(requests, q) /\ call' = [call EXCEPT ![c].at = "wait"]
    BY <1>3 DEF WriteRequest
  <2>2. call[c] = [at |-> "write", id |-> call[c].id, serial |-> call[c].serial,
                   cmd |-> call[c].cmd, arg |-> call[c].arg]
        /\ call[c].cmd \in Commands /\ call[c].arg \in Values
        /\ call[c].id \in 1 .. next_id /\ call[c].serial = call[c].id
    BY <1>1 DEF CallOK, Out
  <2>3. [call[c] EXCEPT !.at = "wait"] = k
    BY <2>2
  <2>4. call' = [call EXCEPT ![c] = k]
    BY <2>1, <2>3 DEF CallInv
  <2>5. /\ call' = [d \in Callers |-> call'[d]] /\ call'[c] = k
        /\ \A d \in Callers : d # c => call'[d] = call[d]
    BY <2>4, CallsAre
  <2>6. CallInv'
    <3>1. CallOK(c)'
      BY <1>1, <2>2, <2>5 DEF CallOK, Out
    <3>2. \A d \in Callers : d # c => CallOK(d)'
      BY <1>1, <2>5 DEF CallInv, CallOK, Out
    <3> QED
      BY <2>5, <3>1, <3>2 DEF CallInv
  <2> DEFINE n == Len(requests)
  <2>7. requests \in Seq(Requests) /\ q \in Requests /\ n \in Nat /\ DOMAIN requests = 1 .. n
    BY <2>2 DEF IdInv, Requests
  <2>8. /\ requests' \in Seq(Requests) /\ DOMAIN requests' = 1 .. (n + 1)
        /\ (\A i \in 1 .. n : requests'[i] = requests[i]) /\ requests'[n + 1] = q
    BY <2>1, <2>7
  <2> HIDE DEF n
  <2>9. IdInv'
    <3>1. \A i \in DOMAIN requests' : requests'[i].id \in 1 .. next_id /\ requests'[i].serial = requests'[i].id
      BY <2>2, <2>7, <2>8 DEF IdInv
    <3> QED
      BY <1>1, <2>8, <3>1 DEF IdInv, Coming
  <2>10. OnceInv'
    <3>1. /\ \A i \in 1 .. n : requests'[i].id # q.id
          /\ \A r \in Coming : r.id # q.id
      BY <1>1, <2>7, <2>8 DEF OnceInv
    <3>2. \A i, j \in DOMAIN requests' : requests'[i].id = requests'[j].id => i = j
      BY <2>7, <2>8, <3>1 DEF OnceInv
    <3>3. \A i \in DOMAIN requests' : \A r \in Coming : requests'[i].id # r.id
      BY <2>7, <2>8, <3>1 DEF OnceInv
    <3>4. \A d, e \in Callers : (Out(d) /\ Out(e) /\ call[d].id = call[e].id => d = e)'
      BY <1>1, <2>5 DEF OnceInv, Out
    <3>5. ASSUME NEW d \in Callers, call'[d].at = "write"
          PROVE  /\ \A i \in DOMAIN requests' : requests'[i].id # call'[d].id
                 /\ \A r \in Coming : r.id # call'[d].id
      <4>1. d # c /\ call'[d] = call[d] /\ call[d].id # q.id
        BY <1>1, <2>5, <3>5 DEF OnceInv, Out
      <4> QED
        BY <2>7, <2>8, <3>5, <4>1 DEF OnceInv
    <3> QED
      BY <1>1, <3>2, <3>3, <3>4, <3>5 DEF OnceInv, Coming
  <2> QED
    BY <2>6, <2>9, <2>10
<1> QED
  BY <1>2, <1>3

LEMMA CallerKeeps ==
  ASSUME ClientInv, NEW c \in Callers, TimeOut(c) \/ TakeReply(c) \/ SeeClosed(c) PROVE ClientInv'
<1> USE DEF ClientInv
<1>1. UNCHANGED <<closed, next_id, serial, requests, replies, reader, connected>> /\ CallOK(c)
  BY DEF TimeOut, TakeReply, SeeClosed, CallInv
<1>2. CASE call' = [call EXCEPT ![c] = Returned(call[c].serial, NoReply)]
  BY <1>1, <1>2, OverKeeps, NoReplyType
<1>3. CASE TakeReply(c)
  <2>1. call[c].reply \in Replies /\ call[c].reply.serial = call[c].serial
        /\ call' = [call EXCEPT ![c] = Returned(call[c].serial, call[c].reply)]
    BY <1>1, <1>3 DEF TakeReply, CallOK
  <2> QED
    BY <1>1, <2>1, OverKeeps
<1> QED
  BY <1>2, <1>3 DEF TimeOut, SeeClosed, Failed

LEMMA ReadReplyKeeps == ASSUME ClientInv, ReadReply PROVE ClientInv'
<1> USE DEF ClientInv
<1>1. /\ reader = NoReply /\ UNCHANGED <<closed, next_id, serial, call, requests, connected>>
      /\ replies' \subseteq replies /\ reader' \in Coming /\ Coming' \subseteq Coming
  BY DEF ReadReply, TakeOut, Coming
<1>2. CallInv'
  BY <1>1 DEF CallInv, CallOK, Out
<1>3. IdInv'
  <2>1. reader' = NoReply \/ (reader' \in replies /\ reader'.id # 0)
    BY <1>1, NoReplyType DEF IdInv, Coming
  <2> QED
    BY <1>1, <2>1, NoReplyType DEF IdInv
<1>4. OnceInv'
  BY <1>1 DEF OnceInv, Out
<1> QED
  BY <1>2, <1>3, <1>4

LEMMA HandOverCalls ==
  ASSUME ClientInv, HandOver
  PROVE  /\ reader \in Replies /\ reader.id \in 1 .. next_id /\ reader.serial = reader.id
         /\ call' = [c \in Callers |-> call'[c]]
         /\ \A c \in Callers : call[c].at = "wait" /\ call[c].id = reader.id =>
               call'[c] = [at |-> "full", id |-> call[c].id, serial |-> call[c].serial, reply |-> reader]
         /\ \A c \in Callers : ~(call[c].at = "wait" /\ call[c].id = reader.id) => call'[c] = call[c]
<1> USE DEF ClientInv
<1>1. reader # NoReply /\ reader \in Coming
  BY DEF HandOver, Coming
<1>2. reader \in Replies /\ reader.id \in 0 .. next_id /\ reader.id # 0 /\ reader.serial = reader.id
      /\ next_id \in Nat
  BY <1>1 DEF IdInv
<1>3. \A c \in Callers : c \in Waiting(reader.id) <=> call[c].at = "wait" /\ call[c].id = reader.id
  BY <1>1 DEF Waiting, HandOver, OnceInv
<1>4. call' = [c \in Callers |->
                  IF c \in Waiting(reader.id)
                  THEN [at |-> "full", id |-> call[c].id, serial |-> call[c].serial, reply |-> reader]
                  ELSE call[c]]
  BY DEF HandOver
<1>5. \A c \in Callers : call'[c] =
          IF c \in Waiting(reader.id)
          THEN [at |-> "full", id |-> call[c].id, serial |-> call[c].serial, reply |-> reader]
          ELSE call[c]
  BY <1>4
<1>6. call' = [c \in Callers |-> call'[c]]
  BY <1>4
<1> QED
  BY <1>2, <1>3, <1>5, <1>6

LEMMA HandOverKeeps == ASSUME ClientInv, HandOver PROVE ClientInv'
<1> USE DEF ClientInv
<1>1. UNCHANGED <<closed, next_id, serial, requests, replies, connected>> /\ reader' = NoReply
  BY DEF HandOver
<1>2. CallInv'
  <2>1. ASSUME NEW c \in Callers PROVE CallOK(c)'
    <3>1. CallOK(c)
      BY DEF CallInv
    <3>2. CASE call[c].at = "wait" /\ call[c].id = reader.id
      <4>1. call'[c] = [at |-> "full", id |-> call[c].id, serial |-> call[c].serial, reply |-> reader]
        BY <3>2, HandOverCalls
      <4> QED
        BY <1>1, <3>1, <3>2, <4>1, HandOverCalls DEF CallOK, Out
    <3>3. CASE ~(call[c].at = "wait" /\ call[c].id = reader.id)
      BY <1>1, <3>1, <3>3, HandOverCalls DEF CallOK, Out
    <3> QED
      BY <3>2, <3>3
  <2> QED
    BY <2>1, HandOverCalls DEF CallInv
<1>3. IdInv'
  <2>1. \A r \in Coming' : r \in Coming \/ r = NoReply
    BY <1>1 DEF Coming
  <2> QED
    BY <1>1, <2>1, NoReplyType DEF IdInv
<1>4. OnceInv'
  <2>1. \A c \in Callers : /\ Out(c)' <=> Out(c)
                           /\ Out(c) => call'[c].id = call[c].id
                           /\ call'[c].at = "write" <=> call[c].at = "write"
    BY HandOverCalls DEF Out
  <2>2. \A r \in Coming' : r \in Coming \/ r = NoReply
    BY <1>1 DEF Coming
  <2>3. /\ \A i \in DOMAIN requests : requests[i].id # 0
        /\ \A c \in Callers : Out(c) => call[c].id # 0
        /\ \A r \in replies : r.id # 0
    BY DEF IdInv, CallInv, CallOK
  <2>4. \A r, s \in Coming' : r.id = s.id => r = s
    BY <1>1, <2>3, NoReplyType DEF OnceInv, Coming
  <2>5. \A i \in DOMAIN requests : \A r \in Coming' : requests[i].id # r.id
    BY <2>2, <2>3, NoReplyType DEF OnceInv
  <2>6. \A c \in Callers : call'[c].at = "write" =>
           /\ \A i \in DOMAIN requests : requests[i].id # call'[c].id
           /\ \A r \in Coming' : r.id # call'[c].id
    BY <2>1, <2>2, <2>3, NoReplyType DEF OnceInv, Out
  <2> QED
    BY <1>1, <2>1, <2>4, <2>5, <2>6 DEF OnceInv
<1> QED
  BY <1>2, <1>3, <1>4

LEMMA FailKeeps == ASSUME ClientInv, Fail PROVE ClientInv'
BY DEF ClientInv, Fail, CallInv, CallOK, Out, IdInv, OnceInv, Coming

-----------------------------------------------------------------------------
(* The server.                                                             *)

LEMMA HeadAndTail ==
  ASSUME NEW s \in Seq(Requests), s # <<>>
  PROVE  /\ Head(s) \in Requests /\ Head(s) = s[1] /\ 1 \in DOMAIN s
         /\ Tail(s) \in Seq(Requests)
         /\ \A i \in DOMAIN Tail(s) : i + 1 \in DOMAIN s /\ i + 1 # 1 /\ Tail(s)[i] = s[i + 1]
         /\ \A i \in DOMAIN s : i # 1 => i - 1 \in DOMAIN Tail(s) /\ Tail(s)[i - 1] = s[i]
<1>1. Len(s) \in Nat /\ Len(s) > 0 /\ DOMAIN s = 1 .. Len(s)
  OBVIOUS
<1>2. /\ Tail(s) \in Seq(Requests) /\ Len(Tail(s)) = Len(s) - 1 /\ DOMAIN Tail(s) = 1 .. (Len(s) - 1)
      /\ \A i \in 1 .. (Len(s) - 1) : Tail(s)[i] = s[i + 1]
  BY <1>1
<1>3. \A i \in 1 .. Len(s) : i # 1 => i - 1 \in 1 .. (Len(s) - 1) /\ (i - 1) + 1 = i
  BY <1>1
<1>4. \A i \in 1 .. (Len(s) - 1) : i + 1 \in 1 .. Len(s) /\ i + 1 # 1
  BY <1>1
<1> QED
  BY <1>1, <1>2, <1>3, <1>4

(* A reply takes the place of the first request.                           *)
LEMMA AnswerKeeps ==
  ASSUME ClientInv, server.freq \in Values, NEW ok \in BOOLEAN,
         requests # <<>>, requests' = Tail(requests),
         replies' = replies \cup {Reply(Head(requests), ok)},
         UNCHANGED <<closed, next_id, serial, call, reader, connected>>
  PROVE  ClientInv'
<1> USE DEF ClientInv
<1> DEFINE q == Head(requests)
           a == Reply(q, ok)
<1>1. /\ q \in Requests /\ q = requests[1] /\ 1 \in DOMAIN requests
      /\ requests' \in Seq(Requests)
      /\ \A i \in DOMAIN requests' : i + 1 \in DOMAIN requests /\ i + 1 # 1 /\ requests'[i] = requests[i + 1]
  BY HeadAndTail DEF IdInv
<1>2. \A i, j \in DOMAIN requests' : i + 1 = j + 1 => i = j
  BY <1>1
<1>3. /\ q.id \in 1 .. next_id /\ q.serial = q.id /\ next_id \in Nat
      /\ q.id # 0 /\ q.id \in 0 .. next_id
  BY <1>1 DEF IdInv
<1>4. a \in Replies /\ a.id = q.id /\ a.serial = q.id
  BY <1>1, <1>3 DEF Reply, Requests, Replies
<1> HIDE DEF q, a
<1>5. Coming' = Coming \cup {a} /\ replies' = replies \cup {a}
  BY DEF Coming, q, a
<1>6. CallInv'
  BY DEF CallInv, CallOK, Out
<1>7. IdInv'
  <2>1. /\ replies' \subseteq Replies /\ reader' \in Replies /\ (reader' = NoReply \/ reader'.id # 0)
        /\ (\A r \in Coming' : r.serial = r.id /\ r.id \in 0 .. next_id)
        /\ \A r \in replies' : r.id # 0
    BY <1>3, <1>4, <1>5 DEF IdInv
  <2>2. \A i \in DOMAIN requests' : requests'[i].id \in 1 .. next_id /\ requests'[i].serial = requests'[i].id
    BY <1>1 DEF IdInv
  <2> QED
    BY <1>1, <2>1, <2>2 DEF IdInv
<1>8. OnceInv'
  <2>1. \A i, j \in DOMAIN requests' : requests'[i].id = requests'[j].id => i = j
    BY <1>1, <1>2 DEF OnceInv
  <2>2. \A i \in DOMAIN requests' : \A r \in Coming' : requests'[i].id # r.id
    BY <1>1, <1>4, <1>5 DEF OnceInv
  <2>3. \A r, s \in Coming' : r.id = s.id => r = s
    BY <1>1, <1>4, <1>5 DEF OnceInv
  <2>4. \A c \in Callers : call[c].at = "write" =>
           /\ \A i \in DOMAIN requests' : requests'[i].id # call[c].id
           /\ \A r \in Coming' : r.id # call[c].id
    BY <1>1, <1>4, <1>5 DEF OnceInv
  <2> QED
    BY <2>1, <2>2, <2>3, <2>4 DEF OnceInv, Out
<1> QED
  BY <1>6, <1>7, <1>8

LEMMA DuplicateKeeps == ASSUME ClientInv, Duplicate PROVE ClientInv'
<1> USE DEF ClientInv
<1>1. /\ reader # NoReply /\ replies' = replies \cup {reader} /\ Coming' = Coming
      /\ UNCHANGED <<closed, next_id, serial, call, requests, reader, connected>>
  BY DEF Duplicate, Coming
<1>2. CallInv'
  BY <1>1 DEF CallInv, CallOK, Out
<1>3. IdInv'
  BY <1>1 DEF IdInv
<1>4. OnceInv'
  BY <1>1 DEF OnceInv, Out
<1> QED
  BY <1>2, <1>3, <1>4

LEMMA ConnectionDiesKeeps == ASSUME ClientInv, ConnectionDies PROVE ClientInv'
<1> USE DEF ClientInv
<1>1. /\ requests' = <<>> /\ replies' = {} /\ ~connected'
      /\ UNCHANGED <<closed, next_id, serial, call, reader>>
      /\ Coming' \subseteq Coming
  BY DEF ConnectionDies, Coming
<1>2. CallInv'
  BY <1>1 DEF CallInv, CallOK, Out
<1>3. IdInv'
  BY <1>1 DEF IdInv
<1>4. OnceInv'
  BY <1>1 DEF OnceInv, Out
<1> QED
  BY <1>2, <1>3, <1>4

-----------------------------------------------------------------------------
(* The handlers.  A step of one is about its own call and its own place.   *)

LEMMA HttpCalls ==
  ASSUME NEW c \in Callers, Arrive(c) \/ Continue(c) \/ DialFails(c)
  PROVE  \/ UNCHANGED client
         \/ NoMoreCalls(c)
         \/ \E cmd \in Commands, arg \in Values : Send(c, cmd, arg)
<1> USE DEF Commands, Values
<1>1. CASE Arrive(c)
  <2>1. CASE OpenDevice(c)
    BY <2>1 DEF OpenDevice
  <2>2. CASE CloseDevice(c)
    BY <2>2 DEF CloseDevice
  <2>3. CASE OnDevice(c, "start", "start_rx", 0) \/ OnDevice(c, "stop", "stop_rx", 0)
    BY <2>3 DEF OnDevice
  <2>4. CASE \E f \in Freqs : OnDevice(c, "set", "set", f)
    BY <2>4 DEF OnDevice
  <2> QED
    BY <1>1, <2>1, <2>2, <2>3, <2>4 DEF Arrive
<1>2. CASE OpenAnswered(c) \/ StateRead(c) \/ GivenBack(c)
  BY <1>2 DEF OpenAnswered, StateRead, GivenBack, GiveItBack
<1>3. CASE SetAnswered(c) \/ StartAnswered(c) \/ Dialled(c) \/ Unwound(c) \/ StopAnswered(c)
           \/ DropStream(c) \/ CloseAll(c) \/ DialFails(c)
  BY <1>3 DEF SetAnswered, StartAnswered, Dialled, Unwound, StopAnswered, DropStream, CloseAll, DialFails
<1> QED
  BY <1>1, <1>2, <1>3 DEF Continue

LEMMA SendCall ==
  ASSUME CallInv, NEW c \in Callers, NEW cmd, NEW arg, Send(c, cmd, arg)
  PROVE  /\ call'[c].at = IF closed THEN "returned" ELSE "write"
         /\ ~closed => call'[c].cmd = cmd /\ call'[c].id = next_id + 1 /\ pending' = pending \cup {next_id + 1}
         /\ closed => pending' = pending /\ ~call'[c].ok
         /\ \A d \in Callers : d # c => call'[d] = call[d]
         /\ UNCHANGED <<closed, requests, replies, reader, connected>>
<1>1. CASE closed
  <2>1. call' = [call EXCEPT ![c] = Returned(0, NoReply)]
    BY <1>1 DEF Send, Register
  <2> QED
    BY <1>1, <2>1, CallsAre DEF Send, Register, Quiet, Returned, NoReply
<1>2. CASE ~closed
  <2>1. call' = [call EXCEPT ![c] =
           [at |-> "write", id |-> NewId, serial |-> serial + 1, cmd |-> cmd, arg |-> arg]]
    BY <1>2 DEF Send, Register
  <2> QED
    BY <1>2, <2>1, CallsAre DEF Send, Register, Quiet, NewId
<1> QED
  BY <1>1, <1>2

LEMMA NoMoreCall ==
  ASSUME CallInv, NEW c \in Callers, NoMoreCalls(c)
  PROVE  /\ call'[c].at = "none"
         /\ \A d \in Callers : d # c => call'[d] = call[d]
         /\ UNCHANGED <<pending, closed, requests, replies, reader, connected>>
<1>1. call' = [call EXCEPT ![c] = NoCall]
  BY DEF NoMoreCalls
<1>2. call'[c] = NoCall /\ \A d \in Callers : d # c => call'[d] = call[d]
  BY <1>1, CallsAre
<1>3. UNCHANGED <<pending, closed, requests, replies, reader, connected>>
  BY DEF NoMoreCalls, Quiet
<1> QED
  BY <1>2, <1>3 DEF NoCall

LEMMA PlaceIs ==
  ASSUME HttpInv, NEW c \in Callers, NEW at, Goto(c, at)
  PROVE  /\ http' = [d \in Callers |-> http'[d]]
         /\ http'[c] = [op |-> http[c].op, at |-> at, dev |-> http[c].dev, freq |-> http[c].freq]
         /\ http'[c].at = at
         /\ \A d \in Callers : d # c => http'[d] = http[d]
<1>1. http[c] = [op |-> http[c].op, at |-> http[c].at, dev |-> http[c].dev, freq |-> http[c].freq]
  BY DEF HttpInv, HttpOK
<1>2. [http[c] EXCEPT !.at = at] = [op |-> http[c].op, at |-> at, dev |-> http[c].dev, freq |-> http[c].freq]
  BY <1>1
<1>3. http' = [http EXCEPT ![c] = [op |-> http[c].op, at |-> at, dev |-> http[c].dev, freq |-> http[c].freq]]
  BY <1>2 DEF Goto, HttpInv
<1> QED
  BY <1>3 DEF HttpInv

LEMMA NewPlace ==
  ASSUME HttpInv, NEW c \in Callers, NEW h, http' = [http EXCEPT ![c] = h]
  PROVE  /\ http' = [d \in Callers |-> http'[d]] /\ http'[c] = h
         /\ \A d \in Callers : d # c => http'[d] = http[d]
BY DEF HttpInv

LEMMA OthersKeep ==
  ASSUME HttpInv, NEW c \in Callers, http' = [d \in Callers |-> http'[d]],
         \A d \in Callers : d # c => http'[d] = http[d] /\ call'[d] = call[d], HttpOK(c)'
  PROVE  HttpInv'
BY DEF HttpInv, HttpOK

(* A handler that goes on to its next call, and one that is done.          *)
LEMMA GoesOn ==
  ASSUME HttpInv, CallInv, NEW c \in Callers, NEW at, NEW cmd, NEW arg,
         at \in Commands \cup {"give_back", "unwind"}, cmd = CommandOf(at),
         Goto(c, at), Send(c, cmd, arg)
  PROVE  HttpInv' /\ http'[c].at = at /\ \A d \in Callers : d # c => http'[d] = http[d]
<1>1. /\ http' = [d \in Callers |-> http'[d]]
      /\ http'[c] = [op |-> http[c].op, at |-> at, dev |-> http[c].dev, freq |-> http[c].freq]
      /\ \A d \in Callers : d # c => http'[d] = http[d]
  BY PlaceIs
<1>2. /\ call'[c].at \in {"write", "returned"} /\ (call'[c].at = "write" => call'[c].cmd = cmd)
      /\ \A d \in Callers : d # c => call'[d] = call[d]
  BY SendCall
<1>3. HttpOK(c)'
  BY <1>1, <1>2 DEF HttpOK, Commands
<1> QED
  BY <1>1, <1>2, <1>3, OthersKeep

LEMMA IsDone ==
  ASSUME HttpInv, CallInv, NEW c \in Callers, Done(c),
         NoMoreCalls(c) \/ (UNCHANGED client /\ call[c].at = "none")
  PROVE  HttpInv' /\ http'[c] = Idle /\ \A d \in Callers : d # c => http'[d] = http[d]
<1>1. /\ http' = [d \in Callers |-> http'[d]] /\ http'[c] = Idle
      /\ \A d \in Callers : d # c => http'[d] = http[d]
  BY NewPlace DEF Done
<1>2. call'[c].at = "none" /\ \A d \in Callers : d # c => call'[d] = call[d]
  BY NoMoreCall DEF client
<1>3. HttpOK(c)'
  BY <1>1, <1>2 DEF HttpOK, Commands, Idle
<1> QED
  BY <1>1, <1>2, <1>3, OthersKeep

(* A handler that goes on without a call.                                  *)
LEMMA GoesQuietly ==
  ASSUME HttpInv, CallInv, NEW c \in Callers, NEW at, at \in {"drop", "dial", "stopped"},
         Goto(c, at), NoMoreCalls(c)
  PROVE  HttpInv' /\ http'[c].at = at /\ \A d \in Callers : d # c => http'[d] = http[d]
<1>1. /\ http' = [d \in Callers |-> http'[d]]
      /\ http'[c] = [op |-> http[c].op, at |-> at, dev |-> http[c].dev, freq |-> http[c].freq]
      /\ \A d \in Callers : d # c => http'[d] = http[d]
  BY PlaceIs
<1>2. call'[c].at = "none" /\ \A d \in Callers : d # c => call'[d] = call[d]
  BY NoMoreCall
<1>3. HttpOK(c)'
  BY <1>1, <1>2 DEF HttpOK, Commands
<1> QED
  BY <1>1, <1>2, <1>3, OthersKeep

(* A handler that begins with a call.                                      *)
LEMMA Begins ==
  ASSUME HttpInv, CallInv, NEW c \in Callers, NEW h, NEW arg,
         h = [op |-> h.op, at |-> h.at, dev |-> h.dev, freq |-> h.freq],
         h.at \in Commands, http' = [http EXCEPT ![c] = h], Send(c, h.at, arg)
  PROVE  HttpInv' /\ http'[c] = h /\ \A d \in Callers : d # c => http'[d] = http[d]
<1>1. /\ http' = [d \in Callers |-> http'[d]] /\ http'[c] = h
      /\ \A d \in Callers : d # c => http'[d] = http[d]
  BY NewPlace
<1>2. /\ call'[c].at \in {"write", "returned"} /\ (call'[c].at = "write" => call'[c].cmd = h.at)
      /\ \A d \in Callers : d # c => call'[d] = call[d]
  BY SendCall
<1>3. HttpOK(c)'
  BY <1>1, <1>2 DEF HttpOK, Commands, CommandOf
<1> QED
  BY <1>1, <1>2, <1>3, OthersKeep

LEMMA IdleBut ==
  ASSUME NEW op, NEW at, NEW dev
  PROVE  /\ [Idle EXCEPT !.op = op, !.at = at] = [op |-> op, at |-> at, dev |-> 0, freq |-> 0]
         /\ [Idle EXCEPT !.op = op, !.at = at, !.dev = dev]
              = [op |-> op, at |-> at, dev |-> dev, freq |-> 0]
<1> DEFINE a == [Idle EXCEPT !.op = op]
           b == [op |-> op, at |-> at, dev |-> 0, freq |-> 0]
<1>1. a = [op |-> op, at |-> "idle", dev |-> 0, freq |-> 0]
  BY DEF Idle
<1>2. [a EXCEPT !.at = at] = b
  <2> HIDE DEF a
  <2> QED
    BY <1>1
<1>3. [Idle EXCEPT !.op = op, !.at = at] = [a EXCEPT !.at = at]
  OBVIOUS
<1>4. [Idle EXCEPT !.op = op, !.at = at, !.dev = dev] = [[a EXCEPT !.at = at] EXCEPT !.dev = dev]
  OBVIOUS
<1>5. [b EXCEPT !.dev = dev] = [op |-> op, at |-> at, dev |-> dev, freq |-> 0]
  OBVIOUS
<1> QED
  BY <1>2, <1>3, <1>4, <1>5

\* An OpenDevice keeps the lock from its first call to its last.
LEMMA LockKeeps ==
  ASSUME LockInv, NEW c \in Callers, \A d \in Callers : d # c => http'[d] = http[d],
         \/ Opening(c) /\ Opening(c)' /\ UNCHANGED <<lock, current>>
         \/ Opening(c) /\ ~Opening(c)' /\ lock' = FALSE
         \/ ~Opening(c) /\ ~Opening(c)' /\ lock' = lock /\ (current' = 0 \/ current' = current)
         \/ ~lock /\ current = 0 /\ Opening(c)' /\ lock' = TRUE /\ current' = current
  PROVE  LockInv'
<1>1. \A d \in Callers : d # c => (Opening(d)' <=> Opening(d))
  BY DEF Opening
<1>2. lock' \in BOOLEAN
  BY DEF LockInv
<1>3. CASE Opening(c) /\ Opening(c)' /\ UNCHANGED <<lock, current>>
  BY <1>1, <1>2, <1>3 DEF LockInv
<1>4. CASE Opening(c) /\ ~Opening(c)' /\ lock' = FALSE
  BY <1>1, <1>2, <1>4 DEF LockInv
<1>5. CASE ~Opening(c) /\ ~Opening(c)' /\ lock' = lock /\ (current' = 0 \/ current' = current)
  BY <1>1, <1>2, <1>5 DEF LockInv
<1>6. CASE ~lock /\ current = 0 /\ Opening(c)' /\ lock' = TRUE /\ current' = current
  BY <1>1, <1>2, <1>6 DEF LockInv
<1> QED
  BY <1>3, <1>4, <1>5, <1>6

\* A handler that does not open a device, and does not touch the lock.
LEMMA LockLeft ==
  ASSUME LockInv, NEW c \in Callers, \A d \in Callers : d # c => http'[d] = http[d],
         http[c].at \notin {"open", "get_state", "give_back"},
         http'[c].at \notin {"open", "get_state", "give_back"},
         lock' = lock, current' = 0 \/ current' = current
  PROVE  LockInv'
BY LockKeeps DEF Opening

LEMMA HttpStep ==
  ASSUME HttpInv, LockInv, CallInv, NEW c \in Callers, Arrive(c) \/ Continue(c) \/ DialFails(c)
  PROVE  HttpInv' /\ LockInv'
<1>1. CASE OpenDevice(c)
  <2> DEFINE h == [Idle EXCEPT !.op = "open", !.at = "open"]
  <2>1. h = [op |-> "open", at |-> "open", dev |-> 0, freq |-> 0]
    BY IdleBut
  <2>2. /\ http[c] = Idle /\ http' = [http EXCEPT ![c] = h] /\ Send(c, "open", 0)
        /\ ~lock /\ lock' = TRUE /\ current = 0 /\ current' = current
    BY <1>1 DEF OpenDevice, Begin
  <2> HIDE DEF h
  <2>3. HttpInv' /\ http'[c] = h /\ \A d \in Callers : d # c => http'[d] = http[d]
    BY <2>1, <2>2, Begins DEF Commands
  <2> QED
    <3>1. ~lock /\ current = 0 /\ Opening(c)' /\ lock' = TRUE /\ current' = current
      BY <2>1, <2>2, <2>3 DEF Opening
    <3> QED
      BY <2>3, <3>1, LockKeeps
<1>2. CASE CloseDevice(c)
  <2> DEFINE h == [Idle EXCEPT !.op = "close", !.at = "drop", !.dev = current]
  <2>1. h = [op |-> "close", at |-> "drop", dev |-> current, freq |-> 0]
    BY ZenonT(40), IdleBut
  <2>2. /\ http[c] = Idle /\ http' = [http EXCEPT ![c] = h] /\ UNCHANGED client
        /\ lock' = lock /\ current' = 0
    BY <1>2 DEF CloseDevice, Begin
  <2> HIDE DEF h
  <2>3. /\ http' = [d \in Callers |-> http'[d]] /\ http'[c] = h
        /\ \A d \in Callers : d # c => http'[d] = http[d]
    BY <2>2, NewPlace
  <2>4. call[c].at = "none" /\ call' = call
    BY <2>2 DEF HttpInv, HttpOK, Idle, client
  <2>5. HttpOK(c)'
    BY <2>1, <2>3, <2>4 DEF HttpOK, Commands
  <2>6. HttpInv'
    BY <2>3, <2>4, <2>5, OthersKeep
  <2> QED
    BY <2>1, <2>2, <2>3, <2>6, LockLeft DEF Idle
<1>3. ASSUME NEW op, NEW cmd \in {"start_rx", "stop_rx", "set"}, NEW f, OnDevice(c, op, cmd, f)
      PROVE  HttpInv' /\ LockInv'
  <2> DEFINE h == [op |-> op, at |-> cmd, dev |-> current, freq |-> f]
  <2>1. /\ http[c] = Idle /\ http' = [http EXCEPT ![c] = h] /\ Send(c, cmd, f)
        /\ lock' = lock /\ current' = current
    BY <1>3 DEF OnDevice, Begin
  <2>2. h = [op |-> h.op, at |-> h.at, dev |-> h.dev, freq |-> h.freq] /\ h.at = cmd /\ cmd \in Commands
    BY DEF Commands
  <2> HIDE DEF h
  <2>3. HttpInv' /\ http'[c] = h /\ \A d \in Callers : d # c => http'[d] = http[d]
    BY <2>1, <2>2, Begins
  <2> QED
    BY <2>1, <2>2, <2>3, LockLeft DEF Idle
<1>4. CASE OpenAnswered(c)
  <2>1. http[c].at = "open" /\ current' = current
    BY <1>4 DEF OpenAnswered, Back
  <2>2. CASE call[c].ok
    <3>1. Send(c, "get_state", 0) /\ Goto(c, "get_state") /\ lock' = lock
      BY <1>4, <2>2 DEF OpenAnswered
    <3>2. HttpInv' /\ http'[c].at = "get_state" /\ \A d \in Callers : d # c => http'[d] = http[d]
      BY <3>1, GoesOn DEF CommandOf, Commands
    <3> QED
      BY <2>1, <3>1, <3>2, LockKeeps DEF Opening
  <2>3. CASE ~call[c].ok
    <3>1. lock' = FALSE /\ Done(c) /\ NoMoreCalls(c)
      BY <1>4, <2>3 DEF OpenAnswered
    <3>2. HttpInv' /\ http'[c] = Idle /\ \A d \in Callers : d # c => http'[d] = http[d]
      BY <3>1, IsDone
    <3>3. Opening(c) /\ ~Opening(c)' /\ lock' = FALSE
      BY <2>1, <3>1, <3>2 DEF Opening, Idle
    <3> QED
      BY <3>2, <3>3, LockKeeps
  <2> QED
    BY <2>2, <2>3
<1>5. CASE StateRead(c)
  <2>1. http[c].at = "get_state"
    BY <1>5 DEF StateRead, Back
  <2>2. CASE call[c].ok
    <3>1. lock' = FALSE /\ Done(c) /\ NoMoreCalls(c)
      BY <1>5, <2>2 DEF StateRead
    <3>2. HttpInv' /\ http'[c] = Idle /\ \A d \in Callers : d # c => http'[d] = http[d]
      BY <3>1, IsDone
    <3>3. Opening(c) /\ ~Opening(c)' /\ lock' = FALSE
      BY <2>1, <3>1, <3>2 DEF Opening, Idle
    <3> QED
      BY <3>2, <3>3, LockKeeps
  <2>3. CASE ~call[c].ok
    <3>1. Send(c, "close_device", 0) /\ Goto(c, "give_back") /\ lock' = lock /\ current' = current
      BY <1>5, <2>3 DEF StateRead, GiveItBack
    <3>2. HttpInv' /\ http'[c].at = "give_back" /\ \A d \in Callers : d # c => http'[d] = http[d]
      BY <3>1, GoesOn DEF CommandOf, Commands
    <3> QED
      BY <2>1, <3>1, <3>2, LockKeeps DEF Opening
  <2> QED
    BY <2>2, <2>3
<1>6. CASE GivenBack(c)
  <2>1. http[c].at = "give_back" /\ lock' = FALSE /\ Done(c) /\ NoMoreCalls(c)
    BY <1>6 DEF GivenBack, Back
  <2>2. HttpInv' /\ http'[c] = Idle /\ \A d \in Callers : d # c => http'[d] = http[d]
    BY <2>1, IsDone
  <2> QED
    <3>1. Opening(c) /\ ~Opening(c)' /\ lock' = FALSE
      BY <2>1, <2>2 DEF Opening, Idle
    <3> QED
      BY <2>2, <3>1, LockKeeps
<1>7. CASE SetAnswered(c) \/ Dialled(c) \/ Unwound(c) \/ CloseAll(c)
  <2>1. /\ http[c].at \in {"set", "dial", "unwind", "stopped", "close_device"}
        /\ Done(c) /\ lock' = lock /\ current' = current
        /\ NoMoreCalls(c) \/ (UNCHANGED client /\ http[c].at \in {"dial", "stopped"})
    BY <1>7 DEF SetAnswered, Dialled, Unwound, CloseAll, Back
  <2>2. http[c].at \in {"dial", "stopped"} => call[c].at = "none"
    BY DEF HttpInv, HttpOK
  <2>3. HttpInv' /\ http'[c] = Idle /\ \A d \in Callers : d # c => http'[d] = http[d]
    BY <2>1, <2>2, IsDone
  <2> QED
    BY <2>1, <2>3, LockLeft DEF Idle
<1>8. CASE StartAnswered(c)
  <2>1. http[c].at = "start_rx" /\ NoMoreCalls(c) /\ lock' = lock /\ current' = current
        /\ (Goto(c, "dial") \/ Done(c))
    BY <1>8 DEF StartAnswered, Back
  <2>2. HttpInv' /\ http'[c].at \in {"dial", "idle"} /\ \A d \in Callers : d # c => http'[d] = http[d]
    BY <2>1, IsDone, GoesQuietly DEF Idle
  <2> QED
    BY <2>1, <2>2, LockLeft
<1>9. CASE StopAnswered(c)
  <2>1. http[c].at = "stop_rx" /\ NoMoreCalls(c) /\ lock' = lock /\ current' = current
        /\ Goto(c, "stopped")
    BY <1>9 DEF StopAnswered, Back
  <2>2. HttpInv' /\ http'[c].at = "stopped" /\ \A d \in Callers : d # c => http'[d] = http[d]
    BY <2>1, GoesQuietly
  <2> QED
    BY <2>1, <2>2, LockLeft
<1>10. CASE DropStream(c) \/ DialFails(c)
  <2>1. PICK at \in {"close_device", "unwind"}, cmd \in {"close_device", "stop_rx"} :
          /\ http[c].at \in {"drop", "dial"} /\ cmd = CommandOf(at)
          /\ Goto(c, at) /\ Send(c, cmd, 0) /\ lock' = lock /\ current' = current
    BY <1>10 DEF DropStream, DialFails, CommandOf
  <2>2. HttpInv' /\ http'[c].at = at /\ \A d \in Callers : d # c => http'[d] = http[d]
    BY <2>1, GoesOn DEF Commands
  <2> QED
    BY <2>1, <2>2, LockLeft
<1> QED
  BY <1>1, <1>2, <1>3, <1>4, <1>5, <1>6, <1>7, <1>8, <1>9, <1>10 DEF Arrive, Continue

-----------------------------------------------------------------------------
(* Steps of the connection and the server are about no handler.            *)

LEMMA CallGoesOn ==
  ASSUME ClientInv,
         \/ \E c \in Callers : WriteRequest(c) \/ TimeOut(c) \/ TakeReply(c) \/ SeeClosed(c)
         \/ HandOver \/ UNCHANGED call
  PROVE  \A d \in Callers :
            /\ call'[d].at = "none" <=> call[d].at = "none"
            /\ call'[d].at \in {"write", "wait"} =>
                  call[d].at \in {"write", "wait"} /\ call'[d].cmd = call[d].cmd
<1> USE DEF ClientInv
<1>1. ASSUME NEW c \in Callers, WriteRequest(c) PROVE call[c].at = "write" /\ call'[c].at \in {"wait", "returned"}
                /\ (call'[c].at = "wait" => call'[c].cmd = call[c].cmd)
                /\ \A d \in Callers : d # c => call'[d] = call[d]
  <2>1. call[c].at = "write" /\ call[c] = [at |-> call[c].at, id |-> call[c].id, serial |-> call[c].serial,
                              cmd |-> call[c].cmd, arg |-> call[c].arg]
    BY <1>1 DEF WriteRequest, CallInv, CallOK
  <2>2. CASE connected
    <3> DEFINE k == [at |-> "wait", id |-> call[c].id, serial |-> call[c].serial,
                     cmd |-> call[c].cmd, arg |-> call[c].arg]
    <3>1. [call[c] EXCEPT !.at = "wait"] = k
      BY <2>1
    <3>2. call' = [call EXCEPT ![c] = k]
      BY <1>1, <2>2, <3>1 DEF WriteRequest, CallInv
    <3> QED
      BY ZenonT(40), <2>1, <3>2, CallsAre
  <2>3. CASE ~connected
    <3>1. call' = [call EXCEPT ![c] = Returned(call[c].serial, NoReply)]
      BY <1>1, <2>3 DEF WriteRequest, Failed
    <3> QED
      BY ZenonT(40), <2>1, <3>1, CallsAre DEF Returned
  <2> QED
    BY <2>2, <2>3
<1>2. ASSUME NEW c \in Callers, TimeOut(c) \/ TakeReply(c) \/ SeeClosed(c)
      PROVE  call[c].at # "none" /\ call'[c].at = "returned" /\ \A d \in Callers : d # c => call'[d] = call[d]
  <2>1. call[c].at # "none"
    BY <1>2 DEF TimeOut, TakeReply, SeeClosed
  <2>2. PICK r : call' = [call EXCEPT ![c] = Returned(call[c].serial, r)]
    BY <1>2 DEF TimeOut, TakeReply, SeeClosed, Failed
  <2>3. call'[c] = Returned(call[c].serial, r) /\ \A d \in Callers : d # c => call'[d] = call[d]
    BY <2>2, CallsAre
  <2> QED
    BY <2>1, <2>3 DEF Returned
<1>3. CASE HandOver
  BY <1>3, HandOverCalls
<1> QED
  BY <1>1, <1>2, <1>3

LEMMA OutsideKeeps ==
  ASSUME HttpInv, LockInv, UNCHANGED <<http, lock, current>>,
         \A d \in Callers :
            /\ call'[d].at = "none" <=> call[d].at = "none"
            /\ call'[d].at \in {"write", "wait"} =>
                  call[d].at \in {"write", "wait"} /\ call'[d].cmd = call[d].cmd
  PROVE  HttpInv' /\ LockInv'
<1>1. HttpInv'
  BY DEF HttpInv, HttpOK
<1>2. LockInv'
  BY DEF LockInv, Opening
<1> QED
  BY <1>1, <1>2

-----------------------------------------------------------------------------
(* The socket.                                                             *)

LEMMA AdapterKeeps ==
  ASSUME adapter \in Seq(Adapters), NEW d
  PROVE  /\ \A v \in BOOLEAN : /\ [adapter EXCEPT ![d].streaming = v] \in Seq(Adapters)
                               /\ Len([adapter EXCEPT ![d].streaming = v]) = Len(adapter)
                               /\ [adapter EXCEPT ![d].stream = v] \in Seq(Adapters)
                               /\ Len([adapter EXCEPT ![d].stream = v]) = Len(adapter)
         /\ \A f \in Values : /\ [adapter EXCEPT ![d].freq = f] \in Seq(Adapters)
                              /\ Len([adapter EXCEPT ![d].freq = f]) = Len(adapter)
<1>1. Len(adapter) \in Nat /\ DOMAIN adapter = 1 .. Len(adapter)
      /\ adapter = [i \in 1 .. Len(adapter) |-> adapter[i]]
      /\ \A i \in 1 .. Len(adapter) : adapter[i] \in Adapters
  OBVIOUS
<1>2. ASSUME NEW a \in Adapters, d \in 1 .. Len(adapter)
      PROVE  [adapter EXCEPT ![d] = a] \in Seq(Adapters) /\ Len([adapter EXCEPT ![d] = a]) = Len(adapter)
  BY <1>2
<1>3. CASE d \in 1 .. Len(adapter)
  <2>1. adapter[d] \in Adapters
    BY <1>1, <1>3
  <2>2. /\ \A v \in BOOLEAN : [adapter[d] EXCEPT !.streaming = v] \in Adapters
        /\ \A v \in BOOLEAN : [adapter[d] EXCEPT !.stream = v] \in Adapters
        /\ \A f \in Values : [adapter[d] EXCEPT !.freq = f] \in Adapters
    BY <2>1 DEF Adapters
  <2> QED
    BY <1>2, <1>3, <2>2
<1>4. CASE d \notin 1 .. Len(adapter)
  <2>1. /\ \A v : [adapter EXCEPT ![d].streaming = v] = adapter
        /\ \A v : [adapter EXCEPT ![d].stream = v] = adapter
        /\ \A f : [adapter EXCEPT ![d].freq = f] = adapter
    BY <1>1, <1>4
  <2> QED
    BY <2>1
<1> QED
  BY <1>3, <1>4

\* Handlers leave the socket and its channels alone.
LEMMA SocketLeft ==
  ASSUME SocketInv, UNCHANGED <<subs, watch, shut, panicked>>,
         adapter' \in Seq(Adapters),
         \/ Len(adapter') = Len(adapter) /\ (current' = 0 \/ current' = current)
         \/ Len(adapter') = Len(adapter) + 1 /\ current' = Len(adapter')
  PROVE  SocketInv'
<1>1. Len(adapter) \in Nat
  BY DEF SocketInv
<1>2. CASE Len(adapter') = Len(adapter) /\ (current' = 0 \/ current' = current)
  <2>1. \A d \in subs \cup shut : d # 0
    BY <1>1 DEF SocketInv
  <2> QED
    BY <1>1, <1>2, <2>1 DEF SocketInv, NeverPanics
<1>3. CASE Len(adapter') = Len(adapter) + 1 /\ current' = Len(adapter')
  <2>1. \A d \in 0 .. Len(adapter) : d \in 0 .. Len(adapter') /\ d # current'
    BY <1>1, <1>3
  <2>2. \A d \in 1 .. Len(adapter) : d \in 1 .. Len(adapter') /\ d # current'
    BY <1>1, <1>3
  <2> QED
    BY <1>1, <1>3, <2>1, <2>2 DEF SocketInv, NeverPanics
<1> QED
  BY <1>2, <1>3

LEMMA SocketStep ==
  ASSUME SocketInv, Look \/ Subscribe PROVE SocketInv'
<1>0. adapter \in Seq(Adapters) /\ Len(adapter) \in Nat /\ current \in 0 .. Len(adapter)
  BY DEF SocketInv
<1>1. CASE Look
  <2>1. /\ watch.seen = {} /\ current # watch.dev
        /\ watch' = [watch EXCEPT !.seen = {current}]
        /\ UNCHANGED <<current, adapter, subs, shut, panicked>>
    BY <1>1 DEF Look, Changed
  <2>2. watch = [dev |-> watch.dev, seen |-> watch.seen]
    BY DEF SocketInv
  <2>3. watch' = [dev |-> watch.dev, seen |-> {current}]
    BY <2>1, <2>2
  <2>4. current \notin subs \cup shut
    BY <2>1 DEF SocketInv
  <2> QED
    BY ZenonT(40), <1>0, <2>1, <2>3, <2>4 DEF SocketInv, NeverPanics
<1>2. CASE Subscribe
  <2>1. PICK d \in watch.seen :
          /\ watch' = [dev |-> d, seen |-> {}] /\ UNCHANGED <<current, adapter>>
          /\ subs' = (subs \ {watch.dev}) \cup (watch.seen \ {0})
          /\ Unsubscribe(watch.dev)
    BY <1>2 DEF Subscribe
  <2> QED
    <3>1. watch.seen = {d} /\ d \in 0 .. Len(adapter) /\ d \notin subs \cup shut
      BY DEF SocketInv
    <3>2. watch.seen # {} /\ \A e \in subs \cup shut : e \in 1 .. Len(adapter) /\ e # current
      BY <3>1 DEF SocketInv
    <3>3. watch.dev \in subs => NeverPanics'
      <4> HAVE watch.dev \in subs
      <4>1. panicked' = (panicked \/ watch.dev \in shut)
        BY <2>1 DEF Unsubscribe
      <4>2. watch.dev \notin shut
        BY DEF SocketInv
      <4> QED
        BY <4>1, <4>2 DEF SocketInv, NeverPanics
    <3>4. NeverPanics'
      <4>1. CASE watch.dev \notin subs
        <5>1. panicked' = panicked
          BY <2>1, <4>1 DEF Unsubscribe
        <5> QED
          BY <5>1 DEF SocketInv, NeverPanics
      <4> QED
        BY <3>3, <4>1
    <3>5. /\ subs' = (subs \ {watch.dev}) \cup ({d} \ {0})
          /\ shut' = IF watch.dev \in subs THEN shut \cup {watch.dev} ELSE shut
      BY <2>1, <3>1 DEF Unsubscribe
    <3>6. subs' \cap shut' = {}
      BY <3>1, <3>5 DEF SocketInv
    <3>7. \A e \in subs' \cup shut' : e \in 1 .. Len(adapter) /\ (e = current => e = d)
      BY <1>0, <3>1, <3>2, <3>5
    <3> QED
      BY <1>0, <2>1, <3>4, <3>6, <3>7 DEF SocketInv
<1> QED
  BY <1>1, <1>2

LEMMA HttpSocket ==
  ASSUME SocketInv, CallInv, IdInv, NEW c \in Callers, Arrive(c) \/ Continue(c) \/ DialFails(c)
  PROVE  SocketInv'
<1>1. adapter \in Seq(Adapters) /\ Len(adapter) \in Nat
  BY DEF SocketInv
<1>2. CASE Arrive(c)
  <2>1. UNCHANGED <<adapter, subs, watch, shut, panicked>> /\ (current' = 0 \/ current' = current)
    BY <1>2 DEF Arrive, OpenDevice, CloseDevice, OnDevice
  <2> QED
    BY <1>1, <2>1, SocketLeft
<1>3. CASE OpenAnswered(c) \/ GivenBack(c)
  <2>1. UNCHANGED <<adapter, subs, watch, shut, panicked, current>>
    BY <1>3 DEF OpenAnswered, GivenBack
  <2> QED
    BY <1>1, <2>1, SocketLeft
<1>4. CASE StateRead(c)
  <2>1. call[c].value \in Values /\ UNCHANGED <<subs, watch, shut, panicked>>
    BY <1>4 DEF StateRead, Back, CallInv, CallOK, Replies
  <2>2. CASE call[c].ok
    <3>1. Fresh(call[c].value) \in Adapters
      BY <2>1 DEF Fresh, Adapters
    <3>2. adapter' = Append(adapter, Fresh(call[c].value)) /\ current' = Len(adapter) + 1
      BY <1>4, <2>2 DEF StateRead
    <3>3. adapter' \in Seq(Adapters) /\ Len(adapter') = Len(adapter) + 1
      BY <1>1, <3>1, <3>2
    <3> QED
      BY <2>1, <3>2, <3>3, SocketLeft
  <2>3. CASE ~call[c].ok
    <3>1. UNCHANGED <<adapter, current>>
      BY <1>4, <2>3 DEF StateRead
    <3> QED
      BY <1>1, <2>1, <3>1, SocketLeft
  <2> QED
    BY <2>2, <2>3
<1>5. CASE SetAnswered(c)
  <2>1. call[c].value \in Values /\ UNCHANGED <<subs, watch, shut, panicked, current>>
        /\ (adapter' = adapter \/ adapter' = [adapter EXCEPT ![http[c].dev].freq = call[c].value])
    BY <1>5 DEF SetAnswered, Back, CallInv, CallOK, Replies
  <2>2. adapter' \in Seq(Adapters) /\ Len(adapter') = Len(adapter)
    BY <1>1, <2>1, AdapterKeeps
  <2> QED
    BY <2>1, <2>2, SocketLeft
<1>6. CASE StartAnswered(c) \/ Dialled(c) \/ DialFails(c) \/ Unwound(c) \/ StopAnswered(c) \/ DropStream(c)
  <2>1. UNCHANGED <<subs, watch, shut, panicked, current>>
    BY <1>6 DEF StartAnswered, Dialled, DialFails, Unwound, StopAnswered, DropStream
  <2>2. \/ adapter' = adapter
        \/ adapter' = [adapter EXCEPT ![http[c].dev].streaming = TRUE]
        \/ adapter' = [adapter EXCEPT ![http[c].dev].streaming = FALSE]
        \/ adapter' = [adapter EXCEPT ![http[c].dev].stream = TRUE]
        \/ adapter' = [adapter EXCEPT ![http[c].dev].stream = FALSE]
    BY <1>6 DEF StartAnswered, Dialled, DialFails, Unwound, StopAnswered, DropStream
  <2>3. adapter' \in Seq(Adapters) /\ Len(adapter') = Len(adapter)
    BY <1>1, <2>2, AdapterKeeps
  <2> QED
    BY <2>1, <2>3, SocketLeft
<1>7. CASE CloseAll(c)
  <2>1. /\ shut' = shut \cup (subs \cap {http[c].dev}) /\ subs' = subs \ {http[c].dev}
        /\ UNCHANGED <<current, adapter, watch, panicked>>
    BY <1>7 DEF CloseAll
  <2>2. subs' \cup shut' = subs \cup shut /\ subs' \cap shut' = {}
    BY <2>1 DEF SocketInv
  <2> QED
    BY <2>1, <2>2 DEF SocketInv, NeverPanics
<1> QED
  BY <1>2, <1>3, <1>4, <1>5, <1>6, <1>7 DEF Continue

-----------------------------------------------------------------------------
(* The device.  What a step of a handler changes is its own reason for the *)
(* device to be open.                                                      *)

LEMMA ReasonMoves ==
  ASSUME ForOneReason, NEW c \in Callers, server' = server,
         \A d \in Callers : d # c => (Holds(d)' <=> Holds(d)),
         \/ (Holds(c)' <=> Holds(c)) /\ current' = current
         \/ Holds(c) /\ ~Holds(c)' /\ current' # 0
         \/ Holds(c)' /\ current # 0 /\ current' = 0
  PROVE  ForOneReason'
<1>1. CASE (Holds(c)' <=> Holds(c)) /\ current' = current
  <2>1. \A d \in Callers : Holds(d)' <=> Holds(d)
    BY <1>1
  <2> QED
    BY <1>1, <2>1 DEF ForOneReason
<1>2. CASE Holds(c) /\ ~Holds(c)' /\ current' # 0
  <2>1. server.open /\ ~server.kept /\ \A d \in Callers : ~Holds(d)'
    BY <1>2 DEF ForOneReason
  <2> QED
    BY <1>2, <2>1 DEF ForOneReason
<1>3. CASE Holds(c)' /\ current # 0 /\ current' = 0
  <2>1. server.open /\ ~server.kept /\ \A d \in Callers : Holds(d)' => d = c
    BY <1>3 DEF ForOneReason
  <2> QED
    BY <1>3, <2>1 DEF ForOneReason
<1> QED
  BY <1>1, <1>2, <1>3

LEMMA SameReasons ==
  ASSUME ForOneReason, UNCHANGED <<server, current>>, \A d \in Callers : Holds(d)' <=> Holds(d)
  PROVE  ForOneReason'
BY DEF ForOneReason

(* The call of a handler that takes a step is none, or has returned; and   *)
(* the step leaves none, or one that is about to make its request.         *)
LEMMA HttpReasons ==
  ASSUME IInv, ForOneReason, ~closed, NEW c \in Callers, Arrive(c) \/ Continue(c) \/ DialFails(c),
         server' = server
  PROVE  ForOneReason' /\ call[c].at \in {"none", "returned"}
<1> USE DEF IInv
<1>0. HttpOK(c) /\ CallOK(c)
  BY DEF HttpInv, CallInv
<1>1. call[c].at \in {"none", "returned"}
  <2>1. CASE Arrive(c)
    <3>1. http[c] = Idle
      BY <2>1 DEF Arrive, OpenDevice, CloseDevice, OnDevice, Begin
    <3> QED
      BY <1>0, <3>1 DEF HttpOK, Idle
  <2>2. CASE Continue(c) \/ DialFails(c)
    <3>1. call[c].at = "returned" \/ http[c].at \in {"drop", "dial", "stopped"}
      BY <2>2 DEF Continue, DialFails, OpenAnswered, StateRead, GivenBack, SetAnswered,
         StartAnswered, Dialled, Unwound, StopAnswered, DropStream, CloseAll, Back
    <3> QED
      BY <1>0, <3>1 DEF HttpOK
  <2> QED
    BY <2>1, <2>2
<1>2. /\ UNCHANGED <<requests, Coming>>
      /\ call'[c].at \in {"none", "write"} \/ call' = call
      /\ \A d \in Callers : d # c => call'[d] = call[d]
  <2>1. CASE UNCHANGED client
    BY <2>1 DEF client, Coming
  <2>2. CASE NoMoreCalls(c)
    BY <2>2, NoMoreCall DEF Coming
  <2>3. CASE \E cmd \in Commands, arg \in Values : Send(c, cmd, arg)
    BY <2>3, SendCall DEF Coming
  <2> QED
    BY <2>1, <2>2, <2>3, HttpCalls
<1>3. \A d \in Callers : d # c => http'[d] = http[d]
  BY DEF Arrive, OpenDevice, CloseDevice, OnDevice, Continue, DialFails, OpenAnswered, StateRead,
     GiveItBack, GivenBack, SetAnswered, StartAnswered, Dialled, Unwound, StopAnswered, DropStream,
     CloseAll, Goto, Done, HttpInv
<1>4. \A d \in Callers : d # c => (Holds(d)' <=> Holds(d))
  BY <1>2, <1>3 DEF Holds, Unserved, Opened
<1>5. /\ Unserved(c) <=> FALSE
      /\ Opened(c) <=> call[c].at = "returned" /\ call[c].ok
      /\ Unserved(c)' <=> call'[c].at = "write"
      /\ call'[c].at \in {"none", "write"} => ~Opened(c)'
  BY <1>1, <1>2 DEF Unserved, Opened
<1>6. CASE OpenDevice(c)
  <2> DEFINE h == [Idle EXCEPT !.op = "open", !.at = "open"]
  <2>0. h.at = "open"
    BY IdleBut
  <2>1. /\ http[c] = Idle /\ http' = [http EXCEPT ![c] = h]
        /\ current' = current /\ Send(c, "open", 0)
    BY <1>6 DEF OpenDevice, Begin
  <2> HIDE DEF h
  <2>3. http'[c].at = "open"
    BY <2>0, <2>1, NewPlace
  <2>2. ~Holds(c) /\ ~Holds(c)'
    BY <1>5, <2>1, <2>3, SendCall DEF Holds, Idle
  <2>4. (Holds(c)' <=> Holds(c)) /\ current' = current
    BY <2>1, <2>2
  <2> QED
    BY <1>4, <2>4, <1>1, ReasonMoves
<1>7. CASE CloseDevice(c)
  <2> DEFINE h == [Idle EXCEPT !.op = "close", !.at = "drop", !.dev = current]
  <2>0. h.at = "drop"
    BY IdleBut
  <2>1. http' = [http EXCEPT ![c] = h] /\ current # 0 /\ current' = 0
    BY <1>7 DEF CloseDevice
  <2> HIDE DEF h
  <2>2. http'[c].at = "drop"
    BY <2>0, <2>1, NewPlace
  <2>3. Holds(c)' /\ current # 0 /\ current' = 0
    BY <2>1, <2>2 DEF Holds
  <2> QED
    BY <1>4, <2>3, <1>1, ReasonMoves
<1>8. ASSUME NEW op, NEW cmd \in {"start_rx", "stop_rx", "set"}, NEW f, OnDevice(c, op, cmd, f)
      PROVE  ForOneReason'
  <2> DEFINE h == [op |-> op, at |-> cmd, dev |-> current, freq |-> f]
  <2>1. http[c] = Idle /\ http' = [http EXCEPT ![c] = h] /\ current' = current
    BY <1>8 DEF OnDevice, Begin
  <2>2. http'[c].at = cmd
    BY <2>1, NewPlace
  <2>3. ~Holds(c) /\ ~Holds(c)'
    BY <2>1, <2>2 DEF Holds, Idle
  <2>4. (Holds(c)' <=> Holds(c)) /\ current' = current
    BY <2>1, <2>3
  <2> QED
    BY <1>4, <2>4, <1>1, ReasonMoves
<1>9. CASE OpenAnswered(c)
  <2>1. http[c].at = "open" /\ call[c].at = "returned" /\ current' = current
    BY <1>9 DEF OpenAnswered, Back
  <2>2. CASE call[c].ok
    <3>0. Goto(c, "get_state")
      BY <1>9, <2>2 DEF OpenAnswered
    <3>1. http'[c].at = "get_state"
      BY <3>0, PlaceIs
    <3>2. (Holds(c)' <=> Holds(c)) /\ current' = current
      BY <1>5, <2>1, <2>2, <3>1 DEF Holds
    <3> QED
      BY <1>4, <3>2, <1>1, ReasonMoves
  <2>3. CASE ~call[c].ok
    <3>1. http'[c] = Idle
      BY <1>9, <2>3, NewPlace DEF OpenAnswered, Done
    <3>2. (Holds(c)' <=> Holds(c)) /\ current' = current
      BY <1>5, <2>1, <2>3, <3>1 DEF Holds, Idle
    <3> QED
      BY <1>4, <3>2, <1>1, ReasonMoves
  <2> QED
    BY <2>2, <2>3
<1>10. CASE StateRead(c)
  <2>1. http[c].at = "get_state"
    BY <1>10 DEF StateRead, Back
  <2>2. CASE call[c].ok
    <3>1. http'[c] = Idle /\ current' = Len(adapter) + 1
      BY <1>10, <2>2, NewPlace DEF StateRead, Done
    <3>2. current' # 0
      BY <3>1 DEF SocketInv
    <3>3. Holds(c) /\ ~Holds(c)' /\ current' # 0
      BY <2>1, <3>1, <3>2 DEF Holds, Idle
    <3> QED
      BY <1>4, <3>3, <1>1, ReasonMoves
  <2>3. CASE ~call[c].ok
    <3>0. Goto(c, "give_back") /\ current' = current /\ Send(c, "close_device", 0)
      BY <1>10, <2>3 DEF StateRead, GiveItBack
    <3>1. http'[c].at = "give_back" /\ call'[c].at = "write"
      BY <3>0, PlaceIs, SendCall
    <3>2. (Holds(c)' <=> Holds(c)) /\ current' = current
      BY <1>5, <2>1, <3>0, <3>1 DEF Holds
    <3> QED
      BY <1>4, <3>2, <1>1, ReasonMoves
  <2> QED
    BY <2>2, <2>3
<1>11. CASE GivenBack(c) \/ SetAnswered(c) \/ Dialled(c) \/ Unwound(c) \/ CloseAll(c)
  <2>1. http[c].at \in {"give_back", "set", "dial", "unwind", "stopped", "close_device"} /\ current' = current
    BY <1>11 DEF GivenBack, SetAnswered, Dialled, Unwound, CloseAll, Back
  <2>2. Done(c)
    BY <1>11 DEF GivenBack, SetAnswered, Dialled, Unwound, CloseAll
  <2>3. http'[c] = Idle
    BY <2>2, NewPlace DEF Done
  <2>4. ~Holds(c) /\ ~Holds(c)'
    BY <1>5, <2>1, <2>3 DEF Holds, Idle
  <2>5. (Holds(c)' <=> Holds(c)) /\ current' = current
    BY <2>1, <2>4
  <2> QED
    BY <1>4, <2>5, <1>1, ReasonMoves
<1>12. CASE StartAnswered(c) \/ StopAnswered(c) \/ DialFails(c)
  <2>1. http[c].at \in {"start_rx", "stop_rx", "dial"} /\ current' = current
    BY <1>12 DEF StartAnswered, StopAnswered, DialFails, Back
  <2>2. Goto(c, "dial") \/ Goto(c, "stopped") \/ Goto(c, "unwind") \/ Done(c)
    BY <1>12 DEF StartAnswered, StopAnswered, DialFails
  <2>3. http'[c].at \in {"dial", "stopped", "unwind", "idle"}
    <3>1. CASE Done(c)
      BY <3>1, NewPlace DEF Done, Idle
    <3>2. ASSUME NEW at \in {"dial", "stopped", "unwind"}, Goto(c, at)
          PROVE  http'[c].at = at
      BY <3>2, PlaceIs
    <3> QED
      BY <2>2, <3>1, <3>2
  <2>4. ~Holds(c) /\ ~Holds(c)'
    BY <2>1, <2>3 DEF Holds
  <2>5. (Holds(c)' <=> Holds(c)) /\ current' = current
    BY <2>1, <2>4
  <2> QED
    BY <1>4, <2>5, <1>1, ReasonMoves
<1>13. CASE DropStream(c)
  <2>1. /\ http[c].at = "drop" /\ current' = current
        /\ Goto(c, "close_device") /\ Send(c, "close_device", 0)
    BY <1>13 DEF DropStream
  <2>2. http'[c].at = "close_device" /\ call'[c].at = "write"
    BY <2>1, PlaceIs, SendCall
  <2>3. (Holds(c)' <=> Holds(c)) /\ current' = current
    BY <1>5, <2>1, <2>2 DEF Holds
  <2> QED
    BY <1>4, <2>3, <1>1, ReasonMoves
<1> QED
  BY <1>1, <1>6, <1>7, <1>8, <1>9, <1>10, <1>11, <1>12, <1>13 DEF Arrive, Continue


LEMMA HttpHeld ==
  ASSUME IInv, Awaited, ForOneReason, NEW c \in Callers, Arrive(c) \/ Continue(c) \/ DialFails(c),
         server' = server
  PROVE  Awaited' /\ ForOneReason'
<1>1. ForOneReason' /\ call[c].at \in {"none", "returned"}
  BY HttpReasons DEF Awaited
<1>2. Awaited'
  <2> USE DEF IInv
  <2>1. CASE UNCHANGED client
    BY <2>1 DEF client, Awaited
  <2>2. CASE NoMoreCalls(c)
    BY <1>1, <2>2, NoMoreCall DEF Awaited
  <2>3. CASE \E cmd \in Commands, arg \in Values : Send(c, cmd, arg)
    <3>1. PICK cmd \in Commands, arg \in Values : Send(c, cmd, arg)
      BY <2>3
    <3>2. /\ call'[c].at = "write" /\ call'[c].id \in pending' /\ pending \subseteq pending'
          /\ \A d \in Callers : d # c => call'[d] = call[d]
          /\ UNCHANGED <<closed, requests, reader>>
      BY <3>1, SendCall DEF Awaited
    <3> QED
      BY <1>1, <3>2 DEF Awaited
  <2> QED
    BY <2>1, <2>2, <2>3, HttpCalls
<1> QED
  BY <1>1, <1>2

-----------------------------------------------------------------------------
(* The client's own steps give nobody a reason and take none away.         *)

LEMMA WriteHeld ==
  ASSUME IInv, Awaited, ForOneReason, NEW c \in Callers, WriteRequest(c), connected,
         UNCHANGED <<http, server, current>>
  PROVE  Awaited' /\ ForOneReason'
<1> USE DEF IInv
<1>1. /\ call[c].at = "write" /\ UNCHANGED <<pending, closed, replies, reader>>
      /\ call[c] = [at |-> "write", id |-> call[c].id, serial |-> call[c].serial,
                    cmd |-> call[c].cmd, arg |-> call[c].arg]
  BY DEF WriteRequest, CallInv, CallOK
<1> DEFINE k == [at |-> "wait", id |-> call[c].id, serial |-> call[c].serial,
                 cmd |-> call[c].cmd, arg |-> call[c].arg]
           q == [id |-> call[c].id, serial |-> call[c].serial,
                 cmd |-> call[c].cmd, arg |-> call[c].arg]
           n == Len(requests)
<1>2. requests' = Append(requests, q)
  BY DEF WriteRequest
<1>3. call' = [call EXCEPT ![c] = k]
  <2>1. [call[c] EXCEPT !.at = "wait"] = k
    BY <1>1
  <2> QED
    BY <2>1 DEF WriteRequest, CallInv
<1>4. call'[c] = k /\ \A d \in Callers : d # c => call'[d] = call[d]
  BY <1>3, CallsAre
<1>5. /\ n \in Nat /\ DOMAIN requests = 1 .. n /\ DOMAIN requests' = 1 .. (n + 1)
      /\ (\A i \in 1 .. n : requests'[i] = requests[i]) /\ requests'[n + 1] = q
  <2>1. requests \in Seq(Requests)
    BY DEF IdInv
  <2> QED
    BY <1>2, <2>1
<1> HIDE DEF n
<1>6. \A i \in 1 .. (n + 1) : i \in 1 .. n \/ i = n + 1
  BY <1>5
<1>7. Awaited'
  <2>1. \A i \in DOMAIN requests' : \E d \in Callers :
           call'[d].at = "wait" /\ call'[d].id = requests'[i].id /\ call'[d].cmd = requests'[i].cmd
    <3> TAKE i \in DOMAIN requests'
    <3>1. CASE i = n + 1
      BY <1>4, <1>5, <3>1
    <3>2. CASE i \in 1 .. n
      BY <1>1, <1>4, <1>5, <3>2 DEF Awaited
    <3> QED
      BY <1>5, <1>6, <3>1, <3>2
  <2> QED
    BY <1>1, <1>4, <2>1 DEF Awaited
<1>8. \A d \in Callers : Holds(d)' <=> Holds(d)
  <2>1. Unserved(c) /\ Unserved(c)' /\ ~Opened(c)
    BY <1>1, <1>4, <1>5 DEF Unserved, Opened
  <2>2. ~Opened(c)'
    BY <1>1, <1>4 DEF Opened, Coming, OnceInv
  <2>3. ASSUME NEW d \in Callers, d # c PROVE (Unserved(d)' <=> Unserved(d)) /\ (Opened(d)' <=> Opened(d))
    <3>1. Opened(d)' <=> Opened(d)
      BY <1>1, <1>4, <2>3 DEF Opened, Coming
    <3>2. call[d].at = "wait" => call[d].id # q.id
      BY <1>1, <2>3 DEF OnceInv, Out
    <3>3. call[d].at = "wait" =>
             ((\E i \in 1 .. (n + 1) : requests'[i].id = call[d].id) <=>
              (\E i \in 1 .. n : requests[i].id = call[d].id))
      BY <1>5, <1>6, <3>2
    <3> QED
      BY <1>4, <1>5, <2>3, <3>1, <3>3 DEF Unserved
  <2> QED
    BY <2>1, <2>2, <2>3 DEF Holds
<1> QED
  BY <1>7, <1>8, SameReasons

LEMMA TakeHeld ==
  ASSUME IInv, Awaited, ForOneReason, NEW c \in Callers, TakeReply(c),
         UNCHANGED <<http, server, current>>
  PROVE  Awaited' /\ ForOneReason'
<1> USE DEF IInv
<1>1. /\ call[c].at = "full" /\ UNCHANGED <<pending, closed, requests, replies, reader>>
      /\ call' = [call EXCEPT ![c] = Returned(call[c].serial, call[c].reply)]
  BY DEF TakeReply
<1>2. /\ call'[c].at = "returned" /\ call'[c].ok = call[c].reply.ok
      /\ \A d \in Callers : d # c => call'[d] = call[d]
  BY <1>1, CallsAre DEF Returned
<1>3. Awaited'
  BY <1>1, <1>2 DEF Awaited
<1>4. \A d \in Callers : Holds(d)' <=> Holds(d)
  BY <1>1, <1>2 DEF Holds, Unserved, Opened, Coming
<1> QED
  BY <1>3, <1>4, SameReasons

LEMMA ReadHeld ==
  ASSUME IInv, Awaited, ForOneReason, ReadReply, UNCHANGED <<http, server, current>>
  PROVE  Awaited' /\ ForOneReason'
<1> USE DEF IInv
<1>1. PICK r \in replies : /\ reader = NoReply /\ replies' = replies \ {r}
                           /\ reader' = (IF r.id \in pending THEN r ELSE NoReply)
                           /\ pending' = pending \ {r.id}
                           /\ UNCHANGED <<closed, call, requests>>
  BY DEF ReadReply, TakeOut
<1>2. r \in Coming /\ \A c \in Callers : Out(c) => call[c].id # 0
  BY DEF Coming, CallInv, CallOK
<1>3. \A c \in Callers : /\ call[c].at = "write" => call[c].id \in pending /\ call[c].id # r.id
                         /\ call[c].at = "wait" => call[c].id \in pending
  BY <1>1, <1>2, NoReplyType DEF Awaited, OnceInv, Out
<1>4. Awaited'
  BY <1>1, <1>3 DEF Awaited
<1>5. ASSUME NEW c \in Callers PROVE Opened(c)' <=> Opened(c)
  <2>1. CASE call[c].at # "wait"
    BY <1>1, <2>1 DEF Opened
  <2>2. CASE call[c].at = "wait"
    <3>1. \A s \in Coming : s.id = call[c].id => s \in Coming'
      BY <1>1, <1>2, <1>3, <2>2, NoReplyType DEF Coming, Out
    <3>2. \A s \in Coming' : s \in Coming \/ s = NoReply
      BY <1>1 DEF Coming
    <3> QED
      BY <1>1, <2>2, <3>1, <3>2, NoReplyType DEF Opened
  <2> QED
    BY <2>1, <2>2
<1>6. \A c \in Callers : Holds(c)' <=> Holds(c)
  BY <1>1, <1>5 DEF Holds, Unserved
<1> QED
  BY <1>4, <1>6, SameReasons

LEMMA HandHeld ==
  ASSUME IInv, Awaited, ForOneReason, HandOver, UNCHANGED <<http, server, current>>
  PROVE  Awaited' /\ ForOneReason'
<1> USE DEF IInv
<1>1. UNCHANGED <<pending, closed, requests, replies>> /\ reader' = NoReply
  BY DEF HandOver
<1>2. /\ \A c \in Callers : call[c].at = "wait" /\ call[c].id = reader.id =>
            call'[c].at = "full" /\ call'[c].reply = reader
      /\ \A c \in Callers : ~(call[c].at = "wait" /\ call[c].id = reader.id) => call'[c] = call[c]
  BY HandOverCalls DEF ClientInv
<1>3. reader \in Coming /\ \A i \in DOMAIN requests : requests[i].id # reader.id
  BY DEF Coming, OnceInv
<1>4. Awaited'
  <2>1. \A c \in Callers : call'[c].at = "wait" => call[c].at = "wait" /\ call'[c] = call[c] /\ call[c].id # reader.id
    BY <1>2
  <2>2. \A c \in Callers : call'[c].at = "write" => call[c].at = "write" /\ call'[c] = call[c]
    BY <1>2
  <2>3. \A i \in DOMAIN requests : \E c \in Callers :
           call'[c].at = "wait" /\ call'[c].id = requests[i].id /\ call'[c].cmd = requests[i].cmd
    BY <1>2, <1>3 DEF Awaited
  <2> QED
    BY <1>1, <2>1, <2>2, <2>3 DEF Awaited
<1>5. ASSUME NEW c \in Callers PROVE (Opened(c)' <=> Opened(c)) /\ (Unserved(c)' <=> Unserved(c))
  <2>1. CASE call[c].at = "wait" /\ call[c].id = reader.id
    <3>1. call'[c].at = "full" /\ call'[c].reply = reader
      BY <1>2, <2>1
    <3>2. Opened(c) <=> reader.ok
      BY <1>3, <2>1 DEF Opened, OnceInv
    <3>3. ~Unserved(c) /\ ~Unserved(c)' /\ (Opened(c)' <=> reader.ok)
      BY <1>3, <2>1, <3>1 DEF Unserved, Opened
    <3> QED
      BY <3>2, <3>3
  <2>2. CASE call[c].at = "wait" /\ call[c].id # reader.id
    <3>1. call'[c] = call[c] /\ call[c].id # 0
      BY <1>2, <2>2 DEF CallInv, CallOK, Out
    <3> QED
      BY <1>1, <2>2, <3>1, NoReplyType DEF Opened, Unserved, Coming
  <2>3. CASE call[c].at # "wait"
    BY <1>1, <1>2, <2>3 DEF Opened, Unserved
  <2> QED
    BY <2>1, <2>2, <2>3
<1>6. \A c \in Callers : Holds(c)' <=> Holds(c)
  BY <1>5 DEF Holds
<1> QED
  BY <1>4, <1>6, SameReasons

(* The server's answer to a request: its caller waits, and has the answer  *)
(* coming instead of the request.                                          *)
LEMMA AnswerHolds ==
  ASSUME IInv, Awaited, NEW ok \in BOOLEAN, requests # <<>>, requests' = Tail(requests),
         replies' = replies \cup {Reply(Head(requests), ok)},
         UNCHANGED <<pending, closed, call, reader, http>>
  PROVE  /\ Awaited'
         /\ \E c \in Callers :
               /\ call[c].at = "wait" /\ call[c].cmd = Head(requests).cmd
               /\ Unserved(c) /\ ~Unserved(c)' /\ ~Opened(c) /\ (Opened(c)' <=> ok)
               /\ \A d \in Callers : d # c => (Holds(d)' <=> Holds(d))
<1> USE DEF IInv
<1> DEFINE q == Head(requests)
           a == Reply(q, ok)
<1>1. /\ q = requests[1] /\ 1 \in DOMAIN requests
      /\ \A i \in DOMAIN requests' : i + 1 \in DOMAIN requests /\ i + 1 # 1 /\ requests'[i] = requests[i + 1]
      /\ \A i \in DOMAIN requests : i # 1 => i - 1 \in DOMAIN requests' /\ requests'[i - 1] = requests[i]
  BY HeadAndTail DEF IdInv
<1>2. a.id = q.id /\ (a.ok <=> ok)
  BY DEF Reply
<1>3. Coming' = Coming \cup {a}
  BY DEF Coming
<1> HIDE DEF q, a
<1>4. PICK c \in Callers : call[c].at = "wait" /\ call[c].id = q.id /\ call[c].cmd = q.cmd
  BY <1>1 DEF Awaited
<1>5. \A d \in Callers : d # c /\ call[d].at = "wait" => call[d].id # q.id
  BY <1>4 DEF OnceInv, Out
<1>6. Awaited'
  BY <1>1 DEF Awaited
<1>7. /\ \A i \in DOMAIN requests' : requests'[i].id # q.id
      /\ \A r \in Coming : r.id # q.id
  BY <1>1 DEF OnceInv
<1>8. Unserved(c) /\ ~Unserved(c)' /\ ~Opened(c)
  BY <1>1, <1>4, <1>7 DEF Unserved, Opened
<1>9. Opened(c)' <=> ok
  BY <1>2, <1>3, <1>4, <1>7 DEF Opened
<1>10. ASSUME NEW d \in Callers, d # c PROVE (Opened(d)' <=> Opened(d)) /\ (Unserved(d)' <=> Unserved(d))
  <2>1. Opened(d)' <=> Opened(d)
    BY <1>2, <1>3, <1>5, <1>10 DEF Opened
  <2>2. Unserved(d)' <=> Unserved(d)
    <3>1. CASE call[d].at = "wait"
      <4>1. ASSUME NEW i \in DOMAIN requests', requests'[i].id = call[d].id
            PROVE  \E j \in DOMAIN requests : requests[j].id = call[d].id
        BY <1>1, <4>1
      <4>2. ASSUME NEW i \in DOMAIN requests, requests[i].id = call[d].id
            PROVE  \E j \in DOMAIN requests' : requests'[j].id = call[d].id
        BY <1>1, <1>5, <1>10, <3>1, <4>2
      <4> QED
        BY <3>1, <4>1, <4>2 DEF Unserved
    <3>2. CASE call[d].at # "wait"
      BY <3>2 DEF Unserved
    <3> QED
      BY <3>1, <3>2
  <2> QED
    BY <2>1, <2>2
<1>11. \A d \in Callers : d # c => (Holds(d)' <=> Holds(d))
  BY <1>10 DEF Holds
<1> QED
  BY <1>4, <1>6, <1>8, <1>9, <1>11 DEF q

(* What an answer makes of the reasons: an OpenDevice whose open was       *)
(* accepted has one, a close that was served has none left, and one that   *)
(* was refused has passed its reason to the server.                        *)
LEMMA AnswerReasons ==
  ASSUME ForOneReason, NEW c \in Callers, current' = current,
         \A d \in Callers : d # c => (Holds(d)' <=> Holds(d)),
         \/ (Holds(c)' <=> Holds(c)) /\ server'.open = server.open /\ server'.kept = server.kept
         \/ Holds(c) /\ ~Holds(c)' /\ server'.open = FALSE /\ server'.kept = FALSE
         \/ Holds(c)' /\ server.open = FALSE /\ server'.open = TRUE /\ server'.kept = FALSE
         \/ Holds(c) /\ ~Holds(c)' /\ server'.open = TRUE /\ server'.kept = TRUE
  PROVE  ForOneReason'
<1>1. CASE (Holds(c)' <=> Holds(c)) /\ server'.open = server.open /\ server'.kept = server.kept
  <2>1. \A d \in Callers : Holds(d)' <=> Holds(d)
    BY <1>1
  <2> QED
    BY <1>1, <2>1 DEF ForOneReason
<1>2. CASE Holds(c) /\ ~Holds(c)' /\ server'.open = FALSE /\ server'.kept = FALSE
  <2>1. current = 0 /\ \A d \in Callers : ~Holds(d)'
    BY <1>2 DEF ForOneReason
  <2> QED
    BY <1>2, <2>1 DEF ForOneReason
<1>3. CASE Holds(c)' /\ server.open = FALSE /\ server'.open = TRUE /\ server'.kept = FALSE
  <2>1. current = 0 /\ \A d \in Callers : Holds(d)' => d = c
    BY <1>3 DEF ForOneReason
  <2> QED
    BY <1>3, <2>1 DEF ForOneReason
<1>4. CASE Holds(c) /\ ~Holds(c)' /\ server'.open = TRUE /\ server'.kept = TRUE
  <2>1. current = 0 /\ \A d \in Callers : ~Holds(d)'
    BY <1>4 DEF ForOneReason
  <2> QED
    BY <1>4, <2>1 DEF ForOneReason
<1> QED
  BY <1>1, <1>2, <1>3, <1>4

LEMMA ServerType ==
  ASSUME IInv, Serve \/ Refuse \/ ConnectionDies
  PROVE  server' \in [open : BOOLEAN, kept : BOOLEAN, freq : Values]
<1> USE DEF IInv
<1>1. /\ server.open \in BOOLEAN /\ server.kept \in BOOLEAN /\ server.freq \in Values
      /\ server = [open |-> server.open, kept |-> server.kept, freq |-> server.freq]
  BY DEF ServerInv
<1>2. CASE Serve
  <2> DEFINE q == Head(requests)
  <2>1. q.arg \in Values
    BY <1>2, HeadAndTail DEF Serve, IdInv, Requests
  <2>2. server' = After(q.cmd, q.arg)
    BY <1>2 DEF Serve
  <2> HIDE DEF q
  <2>3. /\ (q.cmd = "open" \/ (server.open /\ q.cmd # "close_device")) \in BOOLEAN
        /\ (server.kept /\ q.cmd # "close_device") \in BOOLEAN
    OBVIOUS
  <2>4. (IF q.cmd = "set" /\ server.open THEN q.arg ELSE server.freq) \in Values
    BY <1>1, <2>1
  <2> QED
    BY <2>2, <2>3, <2>4 DEF After
<1>3. CASE ConnectionDies
  <2>1. server' = [server EXCEPT !.open = FALSE, !.kept = FALSE]
    BY <1>3 DEF ConnectionDies
  <2>2. server' = [open |-> FALSE, kept |-> FALSE, freq |-> server.freq]
    BY <1>1, <2>1
  <2> QED
    BY <1>1, <2>2
<1>4. CASE Refuse
  <2>1. server' = server \/ server' = [open |-> server.open, kept |-> server.open, freq |-> server.freq]
    BY <1>1, <1>4 DEF Refuse
  <2> QED
    BY <1>1, <2>1
<1> QED
  BY <1>2, <1>3, <1>4

LEMMA ServeHeld ==
  ASSUME IInv, Awaited, ForOneReason, Serve PROVE Awaited' /\ ForOneReason'
<1> USE DEF IInv
<1> DEFINE q == Head(requests)
           ok == Accepts(q.cmd)
<1>1. /\ requests # <<>> /\ requests' = Tail(requests) /\ server' = After(q.cmd, q.arg)
      /\ replies' = replies \cup {Reply(q, ok)}
      /\ UNCHANGED <<pending, closed, call, reader, http, current>>
  BY DEF Serve, device
<1>2. server.open \in BOOLEAN /\ server.kept \in BOOLEAN /\ ok \in BOOLEAN
      /\ (server.kept => server.open)
      /\ (ok <=> IF q.cmd = "open" THEN ~server.open ELSE server.open)
  BY DEF ServerInv, Accepts, ForOneReason
<1>3. /\ server'.open = (q.cmd = "open" \/ (server.open /\ q.cmd # "close_device"))
      /\ server'.kept = (server.kept /\ q.cmd # "close_device")
  BY <1>1 DEF After
<1> HIDE DEF ok
<1>4. /\ Awaited'
      /\ \E c \in Callers :
            /\ call[c].at = "wait" /\ call[c].cmd = q.cmd
            /\ Unserved(c) /\ ~Unserved(c)' /\ ~Opened(c) /\ (Opened(c)' <=> ok)
            /\ \A d \in Callers : d # c => (Holds(d)' <=> Holds(d))
  BY <1>1, <1>2, AnswerHolds
<1>5. PICK c \in Callers :
            /\ call[c].at = "wait" /\ call[c].cmd = q.cmd
            /\ Unserved(c) /\ ~Unserved(c)' /\ ~Opened(c) /\ (Opened(c)' <=> ok)
            /\ \A d \in Callers : d # c => (Holds(d)' <=> Holds(d))
  BY <1>4
<1> HIDE DEF q
<1>6. /\ http[c].at \in Commands \cup {"give_back", "unwind"}
      /\ q.cmd = CommandOf(http[c].at)
  BY <1>5 DEF HttpInv, HttpOK
<1>7. \/ (Holds(c)' <=> Holds(c)) /\ server'.open = server.open /\ server'.kept = server.kept
      \/ Holds(c) /\ ~Holds(c)' /\ server'.open = FALSE /\ server'.kept = FALSE
      \/ Holds(c)' /\ server.open = FALSE /\ server'.open = TRUE /\ server'.kept = FALSE
  <2>1. CASE http[c].at = "open"
    <3>1. q.cmd = "open" /\ ~Holds(c) /\ (Holds(c)' <=> ~server.open)
      BY <1>1, <1>2, <1>5, <1>6, <2>1 DEF Holds, CommandOf
    <3>2. server'.open = TRUE /\ server'.kept = server.kept
      BY <1>2, <1>3, <3>1
    <3> QED
      BY <1>2, <3>1, <3>2
  <2>2. CASE http[c].at \in {"close_device", "give_back"}
    <3>1. q.cmd = "close_device" /\ Holds(c) /\ ~Holds(c)'
      BY <1>1, <1>5, <1>6, <2>2 DEF Holds, CommandOf
    <3>2. server'.open = FALSE /\ server'.kept = FALSE
      BY <1>3, <3>1
    <3> QED
      BY <3>1, <3>2
  <2>3. CASE http[c].at \in {"get_state", "set", "start_rx", "stop_rx", "unwind"}
    <3>1. q.cmd # "open" /\ q.cmd # "close_device"
      BY <1>6, <2>3 DEF CommandOf
    <3>2. Holds(c)' <=> Holds(c)
      BY <1>1, <2>3 DEF Holds
    <3>3. server'.open = server.open /\ server'.kept = server.kept
      BY <1>2, <1>3, <3>1
    <3> QED
      BY <3>2, <3>3
  <2> QED
    BY <1>6, <2>1, <2>2, <2>3 DEF Commands
<1>8. ForOneReason'
  BY <1>1, <1>5, <1>7, AnswerReasons
<1> QED
  BY <1>4, <1>8

(* A refusal changes nothing, but that the device of a refused close stays *)
(* open with the server.                                                   *)
LEMMA RefuseHeld ==
  ASSUME IInv, Awaited, ForOneReason, Refuse PROVE Awaited' /\ ForOneReason'
<1> USE DEF IInv
<1> DEFINE q == Head(requests)
<1>1. /\ requests # <<>> /\ requests' = Tail(requests)
      /\ replies' = replies \cup {Reply(q, FALSE)}
      /\ UNCHANGED <<pending, closed, call, reader, http, current>>
      /\ server' = IF q.cmd = "close_device" THEN [server EXCEPT !.kept = server.open] ELSE server
  BY DEF Refuse, device
<1>2. /\ Awaited'
      /\ \E c \in Callers :
            /\ call[c].at = "wait" /\ call[c].cmd = q.cmd
            /\ Unserved(c) /\ ~Unserved(c)' /\ ~Opened(c) /\ (Opened(c)' <=> FALSE)
            /\ \A d \in Callers : d # c => (Holds(d)' <=> Holds(d))
  BY <1>1, AnswerHolds
<1>3. PICK c \in Callers :
            /\ call[c].at = "wait" /\ call[c].cmd = q.cmd
            /\ Unserved(c) /\ ~Unserved(c)' /\ ~Opened(c) /\ ~Opened(c)'
            /\ \A d \in Callers : d # c => (Holds(d)' <=> Holds(d))
  BY <1>2
<1>4. /\ server.open \in BOOLEAN
      /\ server = [open |-> server.open, kept |-> server.kept, freq |-> server.freq]
  BY DEF ServerInv
<1> HIDE DEF q
<1>5. /\ http[c].at \in Commands \cup {"give_back", "unwind"}
      /\ q.cmd = CommandOf(http[c].at)
  BY <1>3 DEF HttpInv, HttpOK
<1>6. CASE q.cmd = "close_device"
  <2>1. http[c].at \in {"close_device", "give_back"}
    BY <1>5, <1>6 DEF CommandOf, Commands
  <2>2. Holds(c) /\ ~Holds(c)'
    BY <1>1, <1>3, <2>1 DEF Holds
  <2>3. server'.open = TRUE /\ server'.kept = TRUE
    BY <1>1, <1>4, <1>6, <2>2 DEF ForOneReason
  <2>4. ForOneReason'
    BY <1>1, <1>3, <2>2, <2>3, AnswerReasons
  <2> QED
    BY <1>2, <2>4
<1>7. CASE q.cmd # "close_device"
  <2>1. http[c].at \notin {"close_device", "give_back"}
    BY <1>5, <1>7 DEF CommandOf
  <2>2. Holds(c)' <=> Holds(c)
    BY <1>1, <1>3, <2>1 DEF Holds
  <2>3. \A d \in Callers : Holds(d)' <=> Holds(d)
    BY <1>3, <2>2
  <2>4. ForOneReason'
    BY <1>1, <1>7, <2>3, SameReasons
  <2> QED
    BY <1>2, <2>4
<1> QED
  BY <1>6, <1>7

-----------------------------------------------------------------------------
(* Every step.                                                             *)

LEMMA InitIInv == Init => IInv
<1> SUFFICES ASSUME Init PROVE IInv
  OBVIOUS
<1> USE DEF Init, ClientInit
<1>1. call = [c \in Callers |-> NoCall] /\ http = [c \in Callers |-> Idle]
      /\ \A c \in Callers : call[c] = NoCall /\ http[c] = Idle
  OBVIOUS
<1>2. CallInv
  BY <1>1 DEF CallInv, CallOK, Out, NoCall
<1>3. IdInv
  BY NoReplyType DEF IdInv, Coming
<1>4. OnceInv
  BY <1>1 DEF OnceInv, Out, NoCall, Coming
<1>5. SocketInv
  <2>1. adapter \in Seq(Adapters) /\ Len(adapter) = 0
    OBVIOUS
  <2> QED
    BY <2>1 DEF SocketInv, NeverPanics, NoWatch
<1>6. HttpInv
  BY <1>1 DEF HttpInv, HttpOK, Idle, NoCall, Commands
<1>7. LockInv
  <2>1. \A c \in Callers : ~Opening(c)
    BY <1>1 DEF Opening, Idle
  <2>2. lock = FALSE /\ current = 0
    OBVIOUS
  <2> QED
    BY <2>1, <2>2 DEF LockInv
<1>8. ServerInv
  <2>1. \A c \in Callers : ~Holds(c)
    BY <1>1 DEF Holds, Idle
  <2>2. Awaited
    BY <1>1 DEF Awaited, NoCall
  <2>3. server.open = FALSE /\ server.kept = FALSE /\ current = 0
    OBVIOUS
  <2>4. ForOneReason
    BY <2>1, <2>3 DEF ForOneReason
  <2>5. server \in [open : BOOLEAN, kept : BOOLEAN, freq : Values]
    BY DEF Values
  <2> QED
    BY <2>2, <2>4, <2>5 DEF ServerInv
<1> QED
  BY <1>2, <1>3, <1>4, <1>5, <1>6, <1>7, <1>8 DEF IInv

LEMMA HandlersKeep ==
  ASSUME IInv, NEW c \in Callers, Arrive(c) \/ Continue(c) \/ DialFails(c), UNCHANGED <<server, late>>
  PROVE  IInv'
<1> USE DEF ClientInv
<1>1. CallInv /\ IdInv /\ OnceInv /\ SocketInv /\ HttpInv /\ LockInv /\ ServerInv
  BY DEF IInv
<1>2. ClientInv' /\ connected' = connected
  <2>1. CASE UNCHANGED client
    BY <1>1, <2>1 DEF client, CallInv, CallOK, Out, IdInv, OnceInv, Coming
  <2>2. CASE NoMoreCalls(c)
    BY <1>1, <2>2, NoMoreCallsKeeps, NoMoreCall
  <2>3. CASE \E cmd \in Commands, arg \in Values : Send(c, cmd, arg)
    BY <1>1, <2>3, SendKeeps, SendCall
  <2> QED
    BY <2>1, <2>2, <2>3, HttpCalls
<1>3. SocketInv'
  BY <1>1, HttpSocket
<1>4. HttpInv' /\ LockInv'
  BY <1>1, HttpStep
<1>5. connected' /\ ~late' => Awaited' /\ ForOneReason'
  BY <1>1, <1>2, HttpHeld DEF ServerInv
<1>6. ServerInv'
  BY <1>1, <1>2, <1>5 DEF ServerInv
<1> QED
  BY <1>2, <1>3, <1>4, <1>6 DEF IInv

LEMMA SocketOfClient ==
  ASSUME SocketInv, UNCHANGED <<adapter, current, watch, subs, shut, panicked>> PROVE SocketInv'
BY DEF SocketInv, NeverPanics

LEMMA ClientStepsKeep ==
  ASSUME IInv, ClientSteps \/ \E c \in Callers : TimeOut(c) /\ late' = TRUE,
         UNCHANGED <<device, server>>, late' \in {late, TRUE}
  PROVE  IInv'
<1>1. CallInv /\ IdInv /\ OnceInv /\ SocketInv /\ HttpInv /\ LockInv /\ ServerInv /\ ClientInv
  BY DEF IInv, ClientInv
<1>2. /\ UNCHANGED <<http, lock, current, adapter, subs, watch, shut, panicked>>
  BY DEF device
<1>3. \/ \E c \in Callers : WriteRequest(c) \/ TimeOut(c) \/ TakeReply(c) \/ SeeClosed(c)
      \/ ReadReply \/ HandOver \/ Fail
  BY DEF ClientSteps, CallerSteps, ReaderSteps
<1>4. ClientInv'
  BY <1>1, <1>3, WriteRequestKeeps, CallerKeeps, ReadReplyKeeps, HandOverKeeps, FailKeeps
<1>5. SocketInv'
  BY <1>1, <1>2, SocketOfClient
<1>6. HttpInv' /\ LockInv'
  <2>1. \/ \E c \in Callers : WriteRequest(c) \/ TimeOut(c) \/ TakeReply(c) \/ SeeClosed(c)
        \/ HandOver \/ UNCHANGED call
    BY <1>3 DEF ReadReply, Fail
  <2>2. \A d \in Callers :
            /\ call'[d].at = "none" <=> call[d].at = "none"
            /\ call'[d].at \in {"write", "wait"} =>
                  call[d].at \in {"write", "wait"} /\ call'[d].cmd = call[d].cmd
    BY <1>1, <2>1, CallGoesOn
  <2> QED
    BY <1>1, <1>2, <2>2, OutsideKeeps
<1>7. connected' = connected
  BY <1>3 DEF WriteRequest, TimeOut, TakeReply, SeeClosed, ReadReply, HandOver, Fail
<1>8. ASSUME connected', ~late' PROVE Awaited' /\ ForOneReason'
  <2>1. connected /\ Awaited /\ ForOneReason
    BY <1>1, <1>7, <1>8 DEF ServerInv
  <2>2. \/ \E c \in Callers : WriteRequest(c) \/ TakeReply(c)
        \/ ReadReply \/ HandOver
    BY <1>8, <2>1 DEF ClientSteps, CallerSteps, ReaderSteps, SeeClosed, Fail, Awaited
  <2> QED
    BY <1>2, <2>1, <2>2, WriteHeld, TakeHeld, ReadHeld, HandHeld
<1>9. ServerInv'
  BY <1>1, <1>7, <1>8 DEF ServerInv
<1> QED
  BY <1>4, <1>5, <1>6, <1>9 DEF IInv, ClientInv

LEMMA ServerKeeps ==
  ASSUME IInv, Serve \/ Refuse \/ Duplicate \/ ConnectionDies PROVE IInv'
<1>1. CallInv /\ IdInv /\ OnceInv /\ SocketInv /\ HttpInv /\ LockInv /\ ServerInv /\ ClientInv
  BY DEF IInv, ClientInv
<1>2. UNCHANGED <<http, lock, current, adapter, subs, watch, shut, panicked, call, late>>
  BY DEF device, Serve, Refuse, Duplicate, ConnectionDies
<1>3. ClientInv'
  <2>1. server.freq \in Values /\ server.open \in BOOLEAN
    BY <1>1 DEF ServerInv
  <2>2. CASE Serve
    <3>1. Accepts(Head(requests).cmd) \in BOOLEAN
      BY <2>1 DEF Accepts
    <3>2. /\ requests # <<>> /\ requests' = Tail(requests)
          /\ replies' = replies \cup {Reply(Head(requests), Accepts(Head(requests).cmd))}
          /\ UNCHANGED <<closed, next_id, serial, call, reader, connected>>
      BY <2>2 DEF Serve
    <3> QED
      BY <1>1, <2>1, <3>1, <3>2, AnswerKeeps
  <2>3. CASE Refuse
    <3>1. /\ requests # <<>> /\ requests' = Tail(requests)
          /\ replies' = replies \cup {Reply(Head(requests), FALSE)}
          /\ UNCHANGED <<closed, next_id, serial, call, reader, connected>>
      BY <2>3 DEF Refuse
    <3> QED
      BY <1>1, <2>1, <3>1, AnswerKeeps
  <2> QED
    BY <1>1, <2>2, <2>3, DuplicateKeeps, ConnectionDiesKeeps
<1>4. SocketInv'
  BY <1>1, <1>2, SocketOfClient
<1>5. HttpInv' /\ LockInv'
  BY <1>1, <1>2, OutsideKeeps
<1>6. server' \in [open : BOOLEAN, kept : BOOLEAN, freq : Values] /\ late' \in BOOLEAN
  <2>1. server' \in [open : BOOLEAN, kept : BOOLEAN, freq : Values]
    <3>1. CASE Duplicate
      BY <1>1, <3>1 DEF Duplicate, ServerInv
    <3> QED
      BY <3>1, ServerType
  <2> QED
    BY <1>1, <1>2, <2>1 DEF ServerInv
<1>7. connected' \in BOOLEAN /\ (connected' => connected /\ ~ConnectionDies)
  <2>1. CASE ConnectionDies
    <3>1. connected' = FALSE
      BY <2>1 DEF ConnectionDies
    <3> QED
      BY <3>1
  <2>2. CASE ~ConnectionDies
    <3>1. connected' = connected
      BY <2>2 DEF Serve, Refuse, Duplicate
    <3> QED
      BY <1>1, <2>2, <3>1 DEF ServerInv
  <2> QED
    BY <2>1, <2>2
<1>8. ASSUME connected', ~late' PROVE Awaited' /\ ForOneReason'
  <2>1. Awaited /\ ForOneReason
    BY <1>1, <1>2, <1>7, <1>8 DEF ServerInv
  <2>2. CASE Duplicate
    <3>1. /\ Coming' = Coming
          /\ UNCHANGED <<pending, closed, call, requests, reader, http, current, server>>
      BY <2>2 DEF Duplicate, Coming, device
    <3>2. Awaited' /\ \A d \in Callers : Holds(d)' <=> Holds(d)
      BY <2>1, <3>1 DEF Awaited, Holds, Unserved, Opened
    <3> QED
      BY <2>1, <3>1, <3>2, SameReasons
  <2> QED
    BY <1>7, <1>8, <2>1, <2>2, ServeHeld, RefuseHeld
<1>9. ServerInv'
  BY <1>6, <1>7, <1>8 DEF ServerInv
<1> QED
  BY <1>3, <1>4, <1>5, <1>9 DEF IInv, ClientInv

LEMMA QuietKeeps ==
  ASSUME IInv, UNCHANGED <<client, http, lock, current, adapter, server, late>>, SocketInv'
  PROVE  IInv'
<1>1. CallInv /\ IdInv /\ OnceInv /\ HttpInv /\ LockInv /\ ServerInv
  BY DEF IInv
<1>2. UNCHANGED <<pending, closed, next_id, serial, call, requests, replies, reader, connected>>
  BY DEF client
<1>3. CallInv' /\ IdInv' /\ OnceInv'
  BY <1>1, <1>2 DEF CallInv, CallOK, Out, IdInv, OnceInv, Coming
<1>4. HttpInv' /\ LockInv'
  BY <1>1, <1>2, OutsideKeeps
<1>5. ServerInv'
  <2>1. Awaited' <=> Awaited
    BY <1>2 DEF Awaited
  <2>2. \A d \in Callers : Holds(d)' <=> Holds(d)
    BY <1>2 DEF Holds, Unserved, Opened, Coming
  <2>3. ForOneReason => ForOneReason'
    BY <2>2, SameReasons
  <2> QED
    BY <1>1, <1>2, <2>1, <2>3 DEF ServerInv
<1> QED
  BY <1>3, <1>4, <1>5 DEF IInv

LEMMA NextStep == IInv /\ [Next]_vars => IInv'
<1> SUFFICES ASSUME IInv, [Next]_vars PROVE IInv'
  OBVIOUS
<1>1. ASSUME NEW c \in Callers, Arrive(c) /\ Outside PROVE IInv'
  BY <1>1, HandlersKeep DEF Outside
<1>2. ASSUME NEW c \in Callers, Continue(c) /\ Outside PROVE IInv'
  BY <1>2, HandlersKeep DEF Outside
<1>3. ASSUME NEW c \in Callers, DialFails(c) /\ UNCHANGED <<server, made, late>> PROVE IInv'
  BY <1>3, HandlersKeep
<1>4. ASSUME NEW c \in Callers, TooLate(c) PROVE IInv'
  BY <1>4, ClientStepsKeep DEF TooLate
<1>5. CASE (Look \/ Subscribe) /\ Outside
  <2>1. SocketInv'
    BY <1>5, SocketStep DEF IInv
  <2>2. UNCHANGED <<client, http, lock, current, adapter, server, late>>
    BY <1>5 DEF Look, Subscribe, Outside
  <2> QED
    BY <2>1, <2>2, QuietKeeps
<1>6. CASE ClientSteps /\ Outside /\ UNCHANGED <<device, made>>
  BY <1>6, ClientStepsKeep DEF Outside
<1>7. CASE Serve \/ Refuse \/ Duplicate \/ ConnectionDies
  BY <1>7, ServerKeeps
<1>8. CASE UNCHANGED vars
  <2>1. UNCHANGED <<client, http, lock, current, adapter, server, late, subs, watch, shut, panicked>>
    BY <1>8 DEF vars, device
  <2>2. SocketInv'
    BY <2>1, SocketOfClient DEF IInv
  <2> QED
    BY <2>1, <2>2, QuietKeeps
<1> QED
  BY <1>1, <1>2, <1>3, <1>4, <1>5, <1>6, <1>7, <1>8 DEF Next

\* What the client, the handlers, the socket and the server keep among them.
THEOREM InductiveInvariant == Spec => []IInv
BY InitIInv, NextStep, PTL DEF Spec

\* A call returns the reply to its own request, however replies overtake one
\* another, come late or twice, for any number of callers (client.go, call()
\* and handleLine()).
THEOREM RepliesMatch == Spec => []OwnReply
<1>1. IInv => OwnReply
  BY DEF IInv, CallInv, CallOK, OwnReply
<1> QED
  BY <1>1, InductiveInvariant, PTL

\* No channel of a subscriber is closed twice: the socket's unsub() and the
\* adapter's closeAll() take the channel out of the set before they close it
\* (fanout.go).
THEOREM NoChannelClosedTwice == Spec => []NeverPanics
<1>1. IInv => NeverPanics
  BY DEF IInv, SocketInv
<1> QED
  BY <1>1, InductiveInvariant, PTL

\* While no call has been late and the connection stands, and once nobody is
\* at work on it, a device that the server holds open is the current one or
\* one whose close it has refused, never both, and the current one is open
\* (backend.go, OpenDevice and CloseDevice).
THEOREM OpenDeviceIsReachable == Spec => []OpenIsReachable
<1>1. IInv => OpenIsReachable
  <2> SUFFICES ASSUME IInv, AtRest, ~late
               PROVE  /\ server.open <=> current # 0 \/ server.kept
                      /\ ~(current # 0 /\ server.kept)
    BY DEF OpenIsReachable
  <2>1. ForOneReason
    BY DEF IInv, ServerInv, AtRest
  <2>2. \A c \in Callers : ~Holds(c)
    BY DEF AtRest, Holds, Idle
  <2> QED
    BY <2>1, <2>2 DEF ForOneReason
<1> QED
  BY <1>1, InductiveInvariant, PTL
-----------------------------------------------------------------------------
(* The screen: no key stays down that nobody holds.                        *)
(*                                                                         *)
(* An event passes the hub's pending batch, a request on its way and the   *)
(* program's queue before the key feels it.  The newest event on that way  *)
(* decides what the key will be in the end, so it is the one that has to   *)
(* agree with what the hub believes is held.                               *)

Posts == [by : {NoLoop} \cup Generations, batch : Seq(Events) \ {<<>>}]

Says(s) == s[Len(s)] = "down"

\* What the key will be when everything on its way has arrived.
WillBeDown ==
    \/ inputQ # <<>> /\ Says(inputQ)
    \/ inputQ = <<>> /\ posts # <<>> /\ Says(posts[Len(posts)].batch)
    \/ inputQ = <<>> /\ posts = <<>> /\ queue # <<>> /\ Says(queue)
    \/ inputQ = <<>> /\ posts = <<>> /\ queue = <<>> /\ down

OnTheWay ==
    /\ inputQ \in Seq(Events) /\ posts \in Seq(Posts) /\ queue \in Seq(Events)
    /\ WillBeDown => held

\* What was lost, dropped or overtaken stays lost, and nothing is said of it.
KeysIInv == spoilt = "no" => OnTheWay

-----------------------------------------------------------------------------
LEMMA InitKeysIInv == PortalInit => KeysIInv
BY DEF PortalInit, KeysIInv, OnTheWay, WillBeDown

(* One more event for the batch.                                           *)
LEMMA BatchGrows ==
  ASSUME OnTheWay, NEW e \in Events, inputQ' = Append(inputQ, e),
         UNCHANGED <<posts, queue>>, e = "down" => held'
  PROVE  OnTheWay'
<1>1. inputQ' \in Seq(Events) /\ Len(inputQ') = Len(inputQ) + 1 /\ inputQ'[Len(inputQ) + 1] = e
  BY DEF OnTheWay
<1>2. inputQ' # <<>> /\ Len(inputQ) \in Nat
  BY DEF OnTheWay
<1>3. WillBeDown' => e = "down"
  BY <1>1, <1>2 DEF WillBeDown, Says
<1> QED
  BY <1>1, <1>3 DEF OnTheWay

(* One more request, which takes the batch or finds none pending.          *)
LEMMA PostMade ==
  ASSUME OnTheWay, NEW by \in {NoLoop} \cup Generations, NEW batch \in Seq(Events), batch # <<>>,
         inputQ' = <<>>, posts' = Append(posts, [by |-> by, batch |-> batch]),
         UNCHANGED queue, Says(batch) => held'
  PROVE  OnTheWay'
<1> DEFINE p == [by |-> by, batch |-> batch]
<1>1. p \in Posts /\ p.batch = batch
  BY DEF Posts
<1> HIDE DEF p
<1>2. posts \in Seq(Posts) /\ posts' = Append(posts, p)
  BY DEF OnTheWay, p
<1>3. posts' \in Seq(Posts) /\ posts' # <<>> /\ posts'[Len(posts')] = p
  BY <1>1, <1>2
<1>4. WillBeDown' => Says(batch)
  BY <1>1, <1>3 DEF WillBeDown
<1> QED
  BY <1>3, <1>4 DEF OnTheWay

LEMMA EventsKeep ==
  ASSUME OnTheWay, NEW e \in Events, handleClientText(e), spoilt' = "no" PROVE OnTheWay'
<1>1. held' = (e = "down") /\ UNCHANGED <<posts, queue>>
  BY DEF handleClientText, program
<1>2. Len(inputQ) < MaxPending /\ inputQ' = Newest(Append(inputQ, e), MaxPending)
  BY DEF handleClientText, queueInput
<1>3. Len(Append(inputQ, e)) = Len(inputQ) + 1 /\ Len(inputQ) \in Nat /\ MaxPending \in Nat
  BY QueueAssumption DEF OnTheWay
<1>4. inputQ' = Append(inputQ, e)
  BY <1>2, <1>3 DEF Newest
<1> QED
  BY <1>1, <1>4, BatchGrows

LEMMA LeaveKeeps ==
  ASSUME OnTheWay, NEW b \in Browsers, Leave(b), spoilt' = "no" PROVE OnTheWay'
<1> DEFINE releases == IF clients[1] = b THEN heldKeyReleases ELSE <<>>
<1>1. /\ UNCHANGED queue /\ down' = down
      /\ held' = IF clients[1] = b THEN FALSE ELSE held
      /\ \/ inputQ' = inputQ \o releases /\ UNCHANGED posts
         \/ /\ inputQ' = <<>> /\ inputQ = <<>>
            /\ posts' = IF releases = <<>> THEN posts
                        ELSE Append(posts, [by |-> NoLoop, batch |-> releases])
  BY DEF Leave, program
<1>2. CASE clients[1] = b /\ held
  <2>1. releases = <<"up">> /\ held' = FALSE
    BY <1>1, <1>2 DEF heldKeyReleases
  <2> HIDE DEF releases
  <2>2. "up" \in Events /\ "up" # "down" /\ inputQ \in Seq(Events)
    BY DEF Events, OnTheWay
  <2>3. CASE inputQ' = inputQ \o releases /\ UNCHANGED posts
    <3>1. inputQ' = Append(inputQ, "up")
      BY <2>1, <2>2, <2>3
    <3> QED
      BY <1>1, <2>2, <2>3, <3>1, BatchGrows
  <2>4. CASE inputQ' = <<>> /\ posts' = Append(posts, [by |-> NoLoop, batch |-> releases])
    <3>1. releases \in Seq(Events) /\ releases # <<>> /\ ~Says(releases)
      BY <2>1, <2>2 DEF Says
    <3> QED
      BY <1>1, <2>4, <3>1, PostMade
  <2>5. releases # <<>>
    BY <2>1
  <2> QED
    BY <1>1, <2>3, <2>4, <2>5
<1>3. CASE ~(clients[1] = b /\ held)
  <2>1. releases = <<>> /\ (held => held')
    BY <1>1, <1>3 DEF heldKeyReleases
  <2> HIDE DEF releases
  <2>2. inputQ' = inputQ /\ posts' = posts
    BY <1>1, <2>1 DEF OnTheWay
  <2> QED
    BY <1>1, <2>1, <2>2 DEF OnTheWay, WillBeDown
<1> QED
  BY <1>2, <1>3

LEMMA TickKeeps ==
  ASSUME OnTheWay, NEW l \in Generations, Tick(l) PROVE OnTheWay'
<1>1. /\ inputQ # <<>> /\ inputQ' = <<>> /\ UNCHANGED <<queue, held>>
      /\ posts' = Append(posts, [by |-> l, batch |-> inputQ])
  BY DEF Tick, program, hub
<1>2. inputQ \in Seq(Events) /\ (Says(inputQ) => held')
  BY <1>1 DEF OnTheWay, WillBeDown
<1> QED
  BY <1>1, <1>2, PostMade

(* A loop that ends leaves its request to itself.                          *)
LEMMA InputEndsKeeps ==
  ASSUME OnTheWay, NEW l \in Generations, InputEnds(l) PROVE OnTheWay'
<1>1. /\ UNCHANGED <<inputQ, queue, down, held>>
      /\ posts' = [k \in DOMAIN posts |->
                      IF posts[k].by = l THEN [posts[k] EXCEPT !.by = NoLoop] ELSE posts[k]]
  BY DEF InputEnds, program, hub
<1>2. posts \in Seq(Posts) /\ Len(posts) \in Nat /\ DOMAIN posts = 1 .. Len(posts)
      /\ \A k \in DOMAIN posts : posts[k] \in Posts
  BY DEF OnTheWay
<1>3. \A p \in Posts : [p EXCEPT !.by = NoLoop] \in Posts /\ [p EXCEPT !.by = NoLoop].batch = p.batch
  BY DEF Posts
<1>4. \A k \in DOMAIN posts : posts'[k] \in Posts /\ posts'[k].batch = posts[k].batch
  BY <1>1, <1>2, <1>3
<1>5. posts' = [k \in 1 .. Len(posts) |-> posts'[k]]
  BY <1>1, <1>2
<1>6. posts' \in Seq(Posts) /\ Len(posts') = Len(posts)
  BY <1>2, <1>4, <1>5
<1>7. posts # <<>> => Len(posts) \in DOMAIN posts
  BY <1>2
<1>8. posts' = <<>> <=> posts = <<>>
  BY <1>2, <1>6
<1>9. WillBeDown' => WillBeDown
  BY <1>1, <1>4, <1>6, <1>7, <1>8 DEF WillBeDown
<1> QED
  BY <1>1, <1>6, <1>9 DEF OnTheWay

(* The oldest request reaches the queue, behind what is there.             *)
LEMMA DeliverKeeps ==
  ASSUME OnTheWay, NEW k \in DOMAIN posts, Deliver(k), spoilt' = "no" PROVE OnTheWay'
<1>1. /\ ~(k > 1) /\ ~(Len(queue \o posts[k].batch) > MaxQueued)
      /\ queue' = Newest(queue \o posts[k].batch, MaxQueued)
      /\ posts' = RemoveAt(posts, k)
      /\ UNCHANGED <<inputQ, down, held>>
  BY DEF Deliver, Answered, hub
<1>2. /\ posts \in Seq(Posts) /\ Len(posts) \in Nat /\ DOMAIN posts = 1 .. Len(posts)
      /\ posts[k] \in Posts
  BY DEF OnTheWay
<1>3. k = 1 /\ posts # <<>> /\ Len(posts) >= 1
  BY <1>1, <1>2
<1> DEFINE batch == posts[1].batch
<1>4. batch \in Seq(Events) /\ batch # <<>> /\ queue \in Seq(Events)
  BY <1>2, <1>3 DEF Posts, OnTheWay
<1>5. queue' = queue \o batch
  BY <1>1, <1>3 DEF Newest
<1> HIDE DEF batch
<1>6. /\ queue' \in Seq(Events) /\ queue' # <<>>
      /\ Len(queue') = Len(queue) + Len(batch) /\ queue'[Len(queue')] = batch[Len(batch)]
  BY <1>4, <1>5
<1>7. posts' = SubSeq(posts, 1, 0) \o SubSeq(posts, 2, Len(posts))
  BY <1>1, <1>3 DEF RemoveAt
<1>8. posts' \in Seq(Posts) /\ Len(posts') = Len(posts) - 1
      /\ \A i \in 1 .. (Len(posts) - 1) : posts'[i] = posts[i + 1]
  BY <1>2, <1>3, <1>7
<1>9. CASE Len(posts) = 1
  <2>1. posts' = <<>>
    BY <1>8, <1>9
  <2>2. posts[Len(posts)].batch = batch
    BY <1>9 DEF batch
  <2>3. WillBeDown' => WillBeDown
    BY <1>1, <1>3, <1>6, <2>1, <2>2 DEF WillBeDown, Says
  <2> QED
    BY <1>1, <1>6, <1>8, <2>3 DEF OnTheWay
<1>10. CASE Len(posts) > 1
  <2>1. posts' # <<>> /\ posts'[Len(posts')] = posts[Len(posts)]
    BY <1>2, <1>8, <1>10
  <2>2. WillBeDown' => WillBeDown
    BY <1>1, <1>3, <2>1 DEF WillBeDown
  <2> QED
    BY <1>1, <1>6, <1>8, <2>2 DEF OnTheWay
<1> QED
  BY <1>2, <1>3, <1>9, <1>10

(* The program's own steps.                                                *)
LEMMA ProgramKeeps ==
  ASSUME OnTheWay, DrainInput \/ End PROVE OnTheWay'
<1>1. UNCHANGED <<inputQ, posts, held>> /\ queue' = <<>>
  BY DEF DrainInput, End, keys, hub
<1>2. CASE DrainInput
  <2>1. queue # <<>> /\ (down' <=> Says(queue))
    BY <1>2 DEF DrainInput, Last, Says
  <2>2. WillBeDown' => WillBeDown
    BY <1>1, <2>1 DEF WillBeDown
  <2> QED
    BY <1>1, <2>2 DEF OnTheWay
<1>3. CASE End
  <2>1. down' = FALSE
    BY <1>3 DEF End
  <2>2. WillBeDown' => WillBeDown
    BY <1>1, <2>1 DEF WillBeDown
  <2> QED
    BY <1>1, <2>2 DEF OnTheWay
<1> QED
  BY <1>2, <1>3

LEMMA KeysNextStep == KeysIInv /\ [PortalNext]_portalVars => KeysIInv'
<1> SUFFICES ASSUME KeysIInv, [PortalNext]_portalVars, spoilt' = "no" PROVE OnTheWay'
  BY DEF KeysIInv
<1>1. CASE UNCHANGED <<inputQ, posts, queue, down, held, spoilt>>
  BY <1>1 DEF KeysIInv, OnTheWay, WillBeDown
<1>2. ASSUME NEW b \in Browsers, Join(b) PROVE OnTheWay'
  <2>1. UNCHANGED <<inputQ, posts, queue, down, held, spoilt>>
    BY <1>2 DEF Join, program
  <2> QED
    BY <1>1, <2>1
<1>3. ASSUME NEW b \in Browsers, Leave(b) PROVE OnTheWay'
  <2>1. spoilt = "no"
    BY <1>3 DEF Leave
  <2> QED
    BY <1>3, <2>1, LeaveKeeps DEF KeysIInv
<1>4. ASSUME NEW e \in Events, handleClientText(e) PROVE OnTheWay'
  <2>1. spoilt = "no"
    BY <1>4 DEF handleClientText, queueInput
  <2> QED
    BY <1>4, <2>1, EventsKeep DEF KeysIInv
<1>5. ASSUME NEW l \in Generations, PollLoop(l) PROVE OnTheWay'
  <2>1. UNCHANGED <<inputQ, posts, queue, down, held, spoilt>>
    BY <1>5 DEF PollLoop, StartPoll, PollFails, AbandonWait, Answer, Timeout, CheckDuplicate, Store,
       Framed, hub, keys, program
  <2> QED
    BY <1>1, <2>1
<1>6. ASSUME NEW l \in Generations, Tick(l) \/ InputEnds(l) PROVE OnTheWay'
  <2>1. spoilt = "no"
    BY <1>6 DEF Tick, InputEnds
  <2> QED
    BY <1>6, <2>1, TickKeeps, InputEndsKeeps DEF KeysIInv
<1>7. ASSUME NEW k \in DOMAIN posts, Deliver(k) PROVE OnTheWay'
  <2>1. spoilt = "no"
    BY <1>7 DEF Deliver
  <2> QED
    BY <1>7, <2>1, DeliverKeeps DEF KeysIInv
<1>8. ASSUME NEW k \in DOMAIN posts, LosePost(k) PROVE FALSE
  BY <1>8 DEF LosePost
<1>9. CASE DrainInput \/ End
  <2>1. spoilt = "no"
    BY <1>9 DEF DrainInput, End
  <2> QED
    BY <1>9, <2>1, ProgramKeeps DEF KeysIInv
<1>10. CASE capture_screen_frame \/ Start
  <2>1. UNCHANGED <<inputQ, posts, queue, down, held, spoilt>>
    BY <1>10 DEF capture_screen_frame, Start, keys, hub
  <2> QED
    BY <1>1, <2>1
<1>11. CASE UNCHANGED portalVars
  <2>1. UNCHANGED <<inputQ, posts, queue, down, held, spoilt>>
    BY <1>11 DEF portalVars, keys, hub, program
  <2> QED
    BY <1>1, <2>1
<1> QED
  BY <1>2, <1>3, <1>4, <1>5, <1>6, <1>7, <1>8, <1>9, <1>10, <1>11 DEF PortalNext

\* Unless input was lost, what is on its way to the key ends in what the hub
\* believes is held.
THEOREM KeysInductiveInvariant == PortalSpec => []KeysIInv
BY InitKeysIInv, KeysNextStep, PTL DEF PortalSpec

\* When all input has arrived and no browser holds the key, it is up: leave()
\* releases what its client held, and nothing overtakes the release
\* (screenClient.held, heldKeyReleases).
THEOREM KeysAreReleased == PortalSpec => []KeysReleased
<1>1. KeysIInv => KeysReleased
  BY DEF KeysIInv, OnTheWay, WillBeDown, KeysReleased
<1> QED
  BY <1>1, KeysInductiveInvariant, PTL
=============================================================================
