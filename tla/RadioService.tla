---------------------------- MODULE RadioService ----------------------------
(***************************************************************************)
(* The radio service of src/src/radio/mod.rs between the MAC task and the  *)
(* serial device: radio_request_task and radio_response_task share the map *)
(* of response parsers under a mutex, and talk to the MAC over two         *)
(* channels of capacity 0, whose send completes only when the receiver     *)
(* takes the item.                                                         *)
(*                                                                         *)
(* The MAC (mac/service.rs) first makes its start-up requests one by one   *)
(* through SyncRadio and panics if one of them fails.  After that it sends *)
(* every request it has before it looks for a response: Burst is how many  *)
(* it may have at once (five radio parameters and the initialisation of    *)
(* the pending table after a start or a reset).                            *)
(*                                                                         *)
(* The parser of a request is its token: it turns whatever reply it is     *)
(* given into that request's RadioResponse.  A request on the wire is      *)
(* [id, token]; the device sees only the id.  Token 0 stands for a request *)
(* of an earlier process, whose late reply may meet the id of a new one.   *)
(***************************************************************************)
EXTENDS Integers, Sequences, FiniteSets

CONSTANTS
  Ids,           \* request ids (0 .. 65535)
  OldIds,        \* ids under which an earlier process may still get a reply
  StartUp,       \* requests of the start-up (5: three gets, one set, power on)
  Burst,         \* requests the MAC may have to send at once
  MaxRequests,   \* bound: requests the MAC makes, those of the start-up included
  MaxPackets,    \* bound: packets the device receives over the air
  MaxLost        \* bound: requests not written, never answered, or refused

ASSUME RadioServiceAssumption ==
  /\ Ids # {} /\ OldIds \subseteq Ids
  /\ Burst \in Nat \ {0}
  /\ StartUp \in Nat /\ MaxRequests \in Nat /\ StartUp <= MaxRequests
  /\ MaxPackets \in Nat
  /\ MaxLost \in Nat

Tokens == 1 .. MaxRequests

VARIABLES
  mac,          \* "ready", "sending" (its send is not complete), "waiting" (for
                \* the answer to its start-up request), "panicked"
  todo,         \* requests the MAC has still to send before it looks for a response
  issued,       \* tokens used so far
  req_slot,     \* the request in the request channel
  requester,    \* radio_request_task: "next", "lock", "write", "stopped"
  current,      \* the token of the request it is working on
  request_id,   \* the id it has drawn for that request
  responsemap,  \* the registered parsers, a set of [id, token]
  lock_held,    \* the response task holds the mutex of responsemap
  buffer,       \* the RawRadioSink's buffer: requests not written yet
  wire_out,     \* requests on their way to the device
  wire_in,      \* messages from the device
  responder,    \* radio_response_task: "read", "send", "stopped"
  resp_slot,    \* the response in the response channel
  answered,     \* history: the tokens of the responses the MAC has received
  mistaken,     \* history: [token, by], the request token was given by's reply
  packets, lost

macVars == <<mac, todo, issued, answered>>
requestVars == <<requester, current, request_id, buffer, wire_out>>
responseVars == <<responder, resp_slot, lock_held>>
vars == <<macVars, requestVars, responseVars, req_slot, responsemap, wire_in, mistaken,
          packets, lost>>

Starting == Cardinality(answered) < StartUp

\* What the device sends.  Junk is what the response task prints and drops: a
\* packet without its two trailing bytes, or an unexpected command.
Reply(request, ok) == [type |-> "Reply", to |-> request, ok |-> ok]
Packet == [type |-> "OnPacket"]
Junk == [type |-> "Junk"]

\* What the serial port may still hold of an earlier process
OldReplies == [type : {"Reply"}, to : [id : OldIds, token : {0}], ok : BOOLEAN]
LeftOver == {<<>>} \cup {<<message>> : message \in {Junk} \cup OldReplies}

Init ==
  /\ mac = "ready" /\ todo = 0 /\ issued = 0 /\ req_slot = {} /\ answered = {}
  /\ requester = "next" /\ current = {} /\ request_id = {}
  /\ responsemap = {} /\ lock_held = FALSE
  /\ buffer = <<>> /\ wire_out = <<>> /\ wire_in \in LeftOver
  /\ responder = "read" /\ resp_slot = {} /\ mistaken = {}
  /\ packets = 0 /\ lost = 0

-----------------------------------------------------------------------------
(* The MAC task.                                                            *)

Send ==
  /\ issued' = issued + 1
  /\ req_slot' = {issued + 1}
  /\ mac' = "sending"
  /\ UNCHANGED <<answered, requestVars, responseVars, responsemap, wire_in, mistaken,
                 packets, lost>>

\* SyncRadio::get_param, set_param, set_power: one request at a time.
SyncRequest ==
  /\ mac = "ready" /\ Starting
  /\ Send
  /\ UNCHANGED todo

\* Something (an MLME request, a timer, a response) gives the MAC work.
NewWork(n) ==
  /\ mac = "ready" /\ ~Starting /\ todo = 0
  /\ issued + n <= MaxRequests
  /\ todo' = n
  /\ UNCHANGED <<mac, issued, answered, requestVars, responseVars, req_slot,
                 responsemap, wire_in, mistaken, packets, lost>>

\* Management and data actions come before radio responses.
MacSend ==
  /\ mac = "ready" /\ todo > 0
  /\ todo' = todo - 1
  /\ Send

\* The MAC takes a response; that completes the response task's send, whose
\* if-let then ends and drops the mutex guard of its condition.
KeepLocked == UNCHANGED lock_held
Unlock == lock_held' = FALSE

Taken ==
  /\ resp_slot' = {}
  /\ responder' = "read"
  /\ Unlock
  /\ UNCHANGED <<todo, issued, requestVars, req_slot, responsemap, wire_in, mistaken,
                 packets, lost>>

AnswerById(response) == IF response.type = "Reply" THEN {response.to.id} ELSE {}
Answer(response) == IF response.type = "Reply" THEN {response.to.token} ELSE {}

\* An error of the device, a return value other than the expected one and data
\* of the wrong size are all failures.
Succeeded(response) == response.ok

MacReceive(response) ==
  /\ mac = "ready" /\ ~Starting /\ todo = 0
  /\ answered' = answered \cup Answer(response)
  /\ UNCHANGED mac
  /\ Taken

\* SyncRadio drops what is not the answer it waits for; MacData::new unwraps it.
SyncReceive(response) ==
  /\ mac = "waiting"
  /\ answered' = answered \cup Answer(response)
  /\ mac' = CASE Answer(response) # {issued} -> "waiting"
              [] Answer(response) = {issued} /\ Succeeded(response) -> "ready"
              [] Answer(response) = {issued} /\ ~Succeeded(response) -> "panicked"
  /\ Taken

-----------------------------------------------------------------------------
(* radio_request_task                                                       *)
TakeRequest ==
  /\ requester = "next" /\ req_slot # {}
  /\ current' = req_slot
  /\ req_slot' = {}
  /\ mac' = IF Starting THEN "waiting" ELSE "ready"
  /\ requester' = "lock"
  /\ UNCHANGED <<todo, issued, answered, request_id, buffer, wire_out, responseVars,
                 responsemap, wire_in, mistaken, packets, lost>>

\* The ids that are drawn until one is not in the map.
AnyId == Ids
FreeIds == Ids \ {parser.id : parser \in responsemap}

\* The lock is taken, an id drawn and the parser registered without an await;
\* the block ends and the lock is released.
Register ==
  /\ requester = "lock" /\ ~lock_held
  /\ \E id \in FreeIds, token \in current :
       /\ responsemap' = {p \in responsemap : p.id # id} \cup {[id |-> id, token |-> token]}
       /\ request_id' = {id}
  /\ requester' = "write"
  /\ UNCHANGED <<macVars, current, buffer, wire_out, responseVars, req_slot, wire_in,
                 mistaken, packets, lost>>

(* port.send(request).await: flush what the buffer still holds, add the      *)
(* request, flush again.  An error is printed and the parser stays in the    *)
(* map; the bytes that were not written stay in the buffer.                  *)
Request == [id |-> CHOOSE id \in request_id : TRUE,
            token |-> CHOOSE token \in current : TRUE]

WriteDone ==
  /\ requester = "write"
  /\ requester' = "next"
  /\ current' = {} /\ request_id' = {}
  /\ UNCHANGED <<macVars, responseVars, req_slot, responsemap, wire_in, mistaken, packets>>

WriteError == lost < MaxLost /\ lost' = lost + 1

Written ==
  /\ WriteDone
  /\ wire_out' = wire_out \o Append(buffer, Request)
  /\ buffer' = <<>>
  /\ UNCHANGED lost

\* The second flush fails: the request will be written by a later one.
WriteFails ==
  /\ WriteDone
  /\ WriteError
  /\ wire_out' = wire_out \o buffer
  /\ buffer' = <<Request>>

\* The first flush fails: the request never gets into the buffer.
FlushFails ==
  /\ WriteDone
  /\ WriteError
  /\ buffer # <<>>
  /\ UNCHANGED <<buffer, wire_out>>

\* The MAC's end of the channel is gone: "Requests dried up", and radio_service
\* drops the other task.
DriedUp ==
  /\ requester = "next" /\ mac = "panicked"
  /\ requester' = "stopped" /\ responder' = "stopped"
  /\ UNCHANGED <<macVars, current, request_id, buffer, wire_out, resp_slot, lock_held, req_slot,
                 responsemap, wire_in, mistaken, packets, lost>>

-----------------------------------------------------------------------------
(* The device: answers each request once, in order, or never; and reports   *)
(* the packets it receives.                                                 *)
DeviceReplies(ok) ==
  /\ wire_out # <<>>
  /\ ok \/ lost < MaxLost
  /\ lost' = IF ok THEN lost ELSE lost + 1
  /\ wire_in' = Append(wire_in, Reply(Head(wire_out), ok))
  /\ wire_out' = Tail(wire_out)
  /\ UNCHANGED <<macVars, requester, current, request_id, buffer, responseVars, req_slot,
                 responsemap, mistaken, packets>>

DeviceIgnores ==
  /\ wire_out # <<>>
  /\ lost < MaxLost
  /\ lost' = lost + 1
  /\ wire_out' = Tail(wire_out)
  /\ UNCHANGED <<macVars, requester, current, request_id, buffer, responseVars, req_slot,
                 responsemap, wire_in, mistaken, packets>>

DeviceReceives ==
  /\ packets < MaxPackets
  /\ packets' = packets + 1
  /\ wire_in' = Append(wire_in, Packet)
  /\ UNCHANGED <<macVars, requestVars, responseVars, req_slot, responsemap, mistaken, lost>>

-----------------------------------------------------------------------------
(* radio_response_task                                                      *)
Read(message) ==
  /\ responder = "read" /\ wire_in # <<>>
  /\ message = Head(wire_in)
  /\ wire_in' = Tail(wire_in)
  /\ UNCHANGED <<macVars, requestVars, req_slot, packets, lost>>

ReadPacket ==
  /\ Read(Packet)
  /\ resp_slot' = {Packet}
  /\ responder' = "send"
  /\ UNCHANGED <<lock_held, responsemap, mistaken>>

\* responsemap.lock().await.remove(..) is the condition of the if-let around
\* responses.send(..).await: its guard lives until that send has completed.
\* The response is built by the parser found under the id, whoever's reply it is.
ParsersFor(message) == {p \in responsemap : p.id = message.to.id}

ReadReply(message) ==
  /\ message.type = "Reply"
  /\ Read(message)
  /\ \E parser \in ParsersFor(message) :
       /\ responsemap' = responsemap \ {parser}
       /\ resp_slot' = {Reply(parser, message.ok)}
       /\ mistaken' = IF parser = message.to THEN mistaken
                      ELSE mistaken \cup {[token |-> parser.token, by |-> message.to.token]}
  /\ lock_held' = TRUE
  /\ responder' = "send"

\* No parser has the id: printed and dropped.
ReadUnknown(message) ==
  /\ message.type = "Reply"
  /\ Read(message)
  /\ ParsersFor(message) = {}
  /\ UNCHANGED <<responseVars, responsemap, mistaken>>

ReadJunk ==
  /\ Read(Junk)
  /\ UNCHANGED <<responseVars, responsemap, mistaken>>

\* The receiver is gone: the send fails and its error is dropped.
SendToNobody ==
  /\ responder = "send" /\ mac = "panicked"
  /\ resp_slot' = {}
  /\ responder' = "read"
  /\ Unlock
  /\ UNCHANGED <<macVars, requestVars, req_slot, responsemap, wire_in, mistaken, packets,
                 lost>>

Next ==
  \/ \E n \in 1 .. Burst : NewWork(n)
  \/ SyncRequest \/ MacSend
  \/ \E response \in resp_slot : MacReceive(response) \/ SyncReceive(response)
  \/ TakeRequest \/ Register \/ Written \/ WriteFails \/ FlushFails \/ DriedUp
  \/ \E ok \in BOOLEAN : DeviceReplies(ok)
  \/ DeviceIgnores \/ DeviceReceives
  \/ ReadPacket \/ ReadJunk \/ SendToNobody
  \/ wire_in # <<>> /\ (ReadReply(Head(wire_in)) \/ ReadUnknown(Head(wire_in)))

Spec == Init /\ [][Next]_vars

\* Tasks that can go on are polled, and the device goes on answering.
Fairness ==
  /\ WF_vars(SyncRequest \/ MacSend)
  /\ WF_vars(\E response \in resp_slot : MacReceive(response) \/ SyncReceive(response))
  /\ WF_vars(TakeRequest) /\ WF_vars(Register) /\ WF_vars(Written \/ WriteFails \/ FlushFails)
  /\ WF_vars(DeviceIgnores \/ \E ok \in BOOLEAN : DeviceReplies(ok))
  /\ WF_vars(ReadPacket \/ ReadJunk
               \/ (wire_in # <<>> /\ (ReadReply(Head(wire_in)) \/ ReadUnknown(Head(wire_in)))))

FairSpec == Spec /\ Fairness

-----------------------------------------------------------------------------
Parsers == [id : Ids, token : Tokens]
Responses == [type : {"Reply"}, to : Parsers, ok : BOOLEAN] \cup {Packet}
Messages ==
  [type : {"Reply"}, to : [id : Ids, token : {0} \cup Tokens], ok : BOOLEAN]
    \cup {Packet, Junk}

\* The variables keep their types.
TypeOK ==
  /\ mac \in {"ready", "sending", "waiting", "panicked"}
  /\ todo \in 0 .. Burst
  /\ issued \in 0 .. MaxRequests
  /\ req_slot \in SUBSET Tokens
  /\ requester \in {"next", "lock", "write", "stopped"}
  /\ current \in SUBSET Tokens
  /\ request_id \in SUBSET Ids
  /\ responsemap \in SUBSET Parsers
  /\ lock_held \in BOOLEAN
  /\ buffer \in Seq(Parsers)
  /\ wire_out \in Seq(Parsers)
  /\ wire_in \in Seq(Messages)
  /\ responder \in {"read", "send", "stopped"}
  /\ resp_slot \in SUBSET Responses
  /\ answered \in SUBSET Tokens
  /\ mistaken \in SUBSET [token : Tokens, by : {0} \cup Tokens]
  /\ packets \in 0 .. MaxPackets
  /\ lost \in 0 .. MaxLost

OnTheWire ==
  {wire_out[i] : i \in 1 .. Len(wire_out)}
    \cup {buffer[i] : i \in 1 .. Len(buffer)}
    \cup {m.to : m \in {wire_in[i] : i \in {j \in 1 .. Len(wire_in) :
                                               wire_in[j].type = "Reply"}}}

\* A request the device has yet to answer, and an answer on its way back, is in
\* the map under its own id, next to no other request of that id, unless another
\* reply was already taken for its answer: the random id is drawn and registered
\* under one lock, and stays until a reply takes it out.  So replies are mistaken
\* only after one of an earlier process has met the id of a new request.
ReplyFindsItsParser ==
  /\ \A request \in OnTheWire :
       request \in responsemap \/ request.token \in {0} \cup {m.token : m \in mistaken}
  /\ \A p1, p2 \in responsemap : p1.id = p2.id => p1 = p2
  /\ mistaken # {} => \E m \in mistaken : m.by = 0

\* Every request the MAC has made is in exactly one place: in the channel, with
\* the request task, waiting under its parser, in the response channel, or
\* answered.  No request disappears, and none is answered twice.
EachRequestInOnePlace ==
  LET registered == {p.token : p \in responsemap}
      working    == IF requester = "lock" THEN current ELSE {}
      delivering == {r.to.token : r \in {m \in resp_slot : m.type = "Reply"}}
  IN  mac # "panicked" =>
        /\ 1 .. issued = req_slot \cup working \cup registered \cup delivering \cup answered
        /\ issued = Cardinality(req_slot) + Cardinality(working)
                      + Cardinality(registered) + Cardinality(delivering)
                      + Cardinality(answered)

\* "[RADIO] Either request or response task quit, radio aborting" is the only
\* way the service stops: the MAC, the request task and the response task never
\* wait for each other in a circle.
NoWaitCycle ==
  ~(mac = "sending" /\ requester = "lock" /\ lock_held /\ responder = "send")

\* The start-up comes to an end, packets or not, unless a request is lost or refused,
\* or a failure reported to an earlier process is taken for its answer: SyncRadio's
\* one request at a time keeps clear of the circle.
StartUpCompletes == <>(~Starting \/ lost > 0 \/ (mac = "panicked" /\ mistaken # {}))
=============================================================================
