--------------------------- MODULE DeviceQueueOps ---------------------------
(***************************************************************************)
(* The operations of src/src/ieee802154/mac/devicequeue.rs as operators on *)
(* a queue value q = [state, last_pending_reported, entries].              *)
(*                                                                         *)
(* Conventions.  An Option<T> is a set with at most one element: None is   *)
(* {} and Some(x) is {x}.  A sleep future (BoxFuture<'static, ()>) is a    *)
(* Boolean: TRUE once its time has elapsed.  The frame's content and       *)
(* addresses are left out: the queue only forwards them.                   *)
(***************************************************************************)
EXTENDS Integers, Sequences

CONSTANT NoPayload   \* the empty ack payload, Vec::new()

\* DeviceQueueState
Idle(datarequest) == [tag |-> "Idle", datarequest |-> datarequest]
Sending(send_key, ack_requested, ack_payload) ==
  [tag |-> "Sending", send_key |-> send_key, ack_requested |-> ack_requested,
   ack_payload |-> ack_payload]
\* ack_requested is the Some(seq) the Sending state held
WaitingForAck(ack_requested, timeout) ==
  [tag |-> "WaitingForAck", ack_requested |-> ack_requested, timeout |-> timeout]
HaveResult(result) == [tag |-> "HaveResult", result |-> result]

\* Result<Vec<u8>, DeviceQueueError>
DeviceQueueError == {"TransactionExpired", "SendFailure", "NoAck"}
Ok(payload) == [ok |-> TRUE, value |-> payload]
Err(error) == [ok |-> FALSE, value |-> error]

\* DeviceQueueAction, and the Poll::Pending a poll may return instead
Empty == [type |-> "Empty"]
SetPending(pending) == [type |-> "SetPending", pending |-> pending]
SendFrame(send_key, key, seq, frame_pending) ==
  [type |-> "SendFrame", send_key |-> send_key, key |-> key, seq |-> seq,
   frame_pending |-> frame_pending]
ReportResult(key, result) ==
  [type |-> "ReportResult", key |-> key, result |-> result]
Pending == [type |-> "Pending"]

-----------------------------------------------------------------------------
New == [state |-> Idle(FALSE), last_pending_reported |-> {}, entries |-> <<>>]

Entry(key, indirect, ack, retries_left) ==
  [key |-> key, indirect |-> indirect, acknowledge_request |-> ack,
   retries_left |-> retries_left, timeout |-> FALSE]

Positions(q, key) == {i \in 1 .. Len(q.entries) : q.entries[i].key = key}
Contains(q, key) == Positions(q, key) # {}

InsertDuplicate(q, entry) == [q EXCEPT !.entries = Append(@, entry)]

Insert(q, entry) ==
  IF Contains(q, entry.key) THEN q
  ELSE [q EXCEPT !.entries = Append(@, entry)]

\* The state once entry i has left the queue: an exchange belongs to the front
\* entry and ends with it.
KeepState(q, i) == q.state
StateWithout(q, i) == IF i = 1 THEN Idle(FALSE) ELSE q.state

ForgetToPop(q, i) == [q EXCEPT !.state = StateWithout(q, i)]
\* The queue without entry i: VecDeque::remove(i), or retain of the other keys.
Drop(q, i) ==
  [q EXCEPT !.state = StateWithout(q, i),
            !.entries = [j \in 1 .. Len(@) - 1 |->
                           IF j < i THEN @[j] ELSE @[j + 1]]]

\* Insert lets a key in at most once, so retain drops at most one entry.
Remove(q, key) ==
  IF Contains(q, key) THEN Drop(q, CHOOSE i \in Positions(q, key) : TRUE) ELSE q

ProcessDataRequest(q) ==
  IF q.state.tag = "Idle" THEN [q EXCEPT !.state = Idle(TRUE)] ELSE q

-----------------------------------------------------------------------------
(* A failed attempt at the front entry: an indirect entry waits for another *)
(* data request, a direct one loses a retry; both go on from Idle.          *)
AlwaysRetry(q) == TRUE
SkipLastRetry(q) == q.entries[1].indirect \/ q.entries[1].retries_left > 1
CanRetry(q) == q.entries[1].indirect \/ q.entries[1].retries_left > 0

KeepRetries(entry) == entry
UseRetry(entry) ==
  IF entry.indirect THEN entry
  ELSE [entry EXCEPT !.retries_left = @ - 1]

BackToIdle(q) ==
  [q EXCEPT !.state = Idle(FALSE), !.entries[1] = UseRetry(@)]

ResultIsOurs(q, key) == q.state.tag = "Sending" /\ q.state.send_key = key

\* The state once the radio has sent the frame: an ack that overtook the result
\* has already cleared ack_requested and left its payload.
AfterSend(state) ==
  IF state.ack_requested # {} THEN WaitingForAck(state.ack_requested, FALSE)
  ELSE HaveResult(Ok(state.ack_payload))

ProcessSendResult(q, key, success) ==
  CASE ~ResultIsOurs(q, key) -> q
    [] ResultIsOurs(q, key) /\ success ->
         [q EXCEPT !.state = AfterSend(@)]
    [] ResultIsOurs(q, key) /\ ~success ->
         IF q.entries = <<>> THEN [q EXCEPT !.state = Idle(FALSE)]
         ELSE IF CanRetry(q) THEN BackToIdle(q)
         ELSE [q EXCEPT !.state = HaveResult(Err("SendFailure"))]

AnyAck(state, seq_nr) == state.tag \in {"Sending", "WaitingForAck"}
AckIsOurs(state, seq_nr) ==
  /\ state.tag \in {"Sending", "WaitingForAck"}
  /\ state.ack_requested # {}
  /\ state.ack_requested = seq_nr

ProcessAcknowledge(q, seq_nr, payload) ==
  IF ~AckIsOurs(q.state, seq_nr) THEN q
  ELSE [q EXCEPT !.state = IF @.tag = "WaitingForAck" THEN HaveResult(Ok(payload))
                           ELSE Sending(@.send_key, {}, payload)]

-----------------------------------------------------------------------------
(* poll_next_action, in the order of its early returns.                     *)
ShouldBePending(q) == q.entries # <<>> /\ q.entries[1].indirect

ShouldSend(q) ==
  q.state.tag = "Idle" /\ (~q.entries[1].indirect \/ q.state.datarequest)

MorePending(q) == Len(q.entries) > 1 /\ q.entries[2].indirect

AckTimedOut(q) == q.state.tag = "WaitingForAck" /\ q.state.timeout

\* What the match on the state leaves behind when it does not return.
Settle(q) ==
  CASE AckTimedOut(q) -> BackToIdle(q)
    [] q.state.tag = "Idle" -> [q EXCEPT !.state = Idle(FALSE)]
    [] OTHER -> q

ExpiredWhenIdle(q) ==
  {i \in 1 .. Len(q.entries) : q.entries[i].timeout /\ q.state.tag = "Idle"}
Expired(q) == {i \in 1 .. Len(q.entries) : q.entries[i].timeout}
FirstExpired(q) == CHOOSE i \in Expired(q) : \A j \in Expired(q) : i <= j

\* The transaction timeouts, looked at only after Settle.
ExpireOrWait(q) ==
  IF Expired(q) = {} THEN [queue |-> q, action |-> Pending]
  ELSE [queue |-> Drop(q, FirstExpired(q)),
        action |-> ReportResult(q.entries[FirstExpired(q)].key,
                                Err("TransactionExpired"))]

RememberReported(q) == [q EXCEPT !.last_pending_reported = {ShouldBePending(q)}]

\* The front entry's turn.  seq is the number create_frame takes from the PIB,
\* send_key the fresh UniqueKey: both are used only when a SendFrame is returned.
PollEntries(q, send_key, seq) ==
  CASE ShouldSend(q) ->
         [queue |-> [q EXCEPT !.state = Sending(send_key,
                       IF q.entries[1].acknowledge_request THEN {seq} ELSE {},
                       NoPayload)],
          action |-> SendFrame(send_key, q.entries[1].key, seq, MorePending(q))]
    [] q.state.tag = "HaveResult" ->
         [queue |-> Drop(q, 1), action |-> ReportResult(q.entries[1].key, q.state.result)]
    [] AckTimedOut(q) /\ ~CanRetry(q) ->
         [queue |-> Drop(q, 1), action |-> ReportResult(q.entries[1].key, Err("NoAck"))]
    [] OTHER -> ExpireOrWait(Settle(q))

PollEmpty(q) == [queue |-> [q EXCEPT !.state = Idle(FALSE)], action |-> Empty]
PollSetPending(q) ==
  [queue |-> RememberReported(q), action |-> SetPending(ShouldBePending(q))]

EmptyFirst(q, send_key, seq) ==
  IF q.entries = <<>> THEN PollEmpty(q)
  ELSE IF q.last_pending_reported # {ShouldBePending(q)} THEN PollSetPending(q)
  ELSE PollEntries(q, send_key, seq)
PollNextAction(q, send_key, seq) ==
  IF q.last_pending_reported # {ShouldBePending(q)} THEN PollSetPending(q)
  ELSE IF q.entries = <<>> THEN PollEmpty(q)
  ELSE PollEntries(q, send_key, seq)
=============================================================================
