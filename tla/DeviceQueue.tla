---------------------------- MODULE DeviceQueue -----------------------------
(***************************************************************************)
(* The DeviceQueue (src/src/ieee802154/mac/devicequeue.rs) of one device   *)
(* with everything around it: its owner inserts and removes requests, the  *)
(* radio answers transmissions, acknowledgements and data requests arrive  *)
(* over the air, timers elapse.                                            *)
(*                                                                         *)
(* The MAC loop (mac/service.rs, poll_next_input) polls the queues until   *)
(* they return Pending before it takes an input, and polls them again      *)
(* after every input.  asleep is TRUE between the Pending and the next     *)
(* input or timer: inputs are taken only then.                             *)
(*                                                                         *)
(* log is a history variable: what really happened to each request, as     *)
(* seen from outside the queue.  The properties compare the queue with it. *)
(***************************************************************************)
EXTENDS DeviceQueueOps

CONSTANTS
  Keys,              \* the UniqueKeys of the requests
  Payloads,          \* ack payloads
  SeqSpace,          \* data sequence numbers are 0 .. SeqSpace - 1 (256 in the code)
  MaxFrameRetries,   \* pib.mac_max_frame_retries
  MaxDataRequests    \* bound: data requests the device sends

ASSUME DeviceQueueAssumption ==
  /\ NoPayload \in Payloads
  /\ SeqSpace \in Nat \ {0}
  /\ MaxFrameRetries \in Nat
  /\ MaxDataRequests \in Nat

VARIABLES
  q,             \* the DeviceQueue; New also while there is none
  mac_dsn,       \* the PIB's data sequence number
  next_key,      \* the next UniqueKey::new() for a transmission
  in_flight,     \* transmissions the radio has not answered yet
  asleep,        \* the last poll returned Pending (or Empty) and nothing
                 \* happened since
  datarequests,  \* data requests received so far
  log            \* history, by request key

vars == <<q, mac_dsn, next_key, in_flight, asleep, datarequests, log>>

Seqs == 0 .. SeqSpace - 1
Results == [ok : {TRUE}, value : Payloads] \cup [ok : {FALSE}, value : DeviceQueueError]

Fresh ==
  [status |-> "new", indirect |-> FALSE, ack |-> FALSE, result |-> {},
   sends |-> 0, send_key |-> {}, seq |-> {}, sent |-> FALSE, acks |-> {}]

Init ==
  /\ q = New
  /\ mac_dsn \in Seqs
  /\ next_key = 0
  /\ in_flight = {}
  /\ asleep = TRUE
  /\ datarequests = 0
  /\ log = [k \in Keys |-> Fresh]

-----------------------------------------------------------------------------
(* Inputs.                                                                  *)
Input == asleep /\ asleep' = FALSE

InsertRequest(k, indirect, ack) ==
  /\ Input
  /\ log[k].status \in {"new", "queued"}
  /\ q' = Insert(q, Entry(k, indirect, ack, MaxFrameRetries))
  /\ log' = IF log[k].status = "queued" THEN log
            ELSE [log EXCEPT ![k].status = "queued", ![k].indirect = indirect,
                             ![k].ack = ack]
  /\ UNCHANGED <<mac_dsn, next_key, in_flight, datarequests>>

RemoveRequest(k) ==
  /\ Input
  /\ q' = Remove(q, k)
  /\ log' = IF log[k].status # "queued" THEN log
            ELSE [log EXCEPT ![k].status = "removed"]
  /\ UNCHANGED <<mac_dsn, next_key, in_flight, datarequests>>

\* Without a queue (no entries) the data service drops the data request.
ReceiveDataRequest ==
  /\ Input
  /\ datarequests < MaxDataRequests
  /\ datarequests' = datarequests + 1
  /\ q' = IF q.entries = <<>> THEN q ELSE ProcessDataRequest(q)
  /\ UNCHANGED <<mac_dsn, next_key, in_flight, log>>

SendResult(send_key, success) ==
  /\ Input
  /\ send_key \in in_flight
  /\ in_flight' = in_flight \ {send_key}
  /\ q' = ProcessSendResult(q, send_key, success)
  /\ log' = [k \in Keys |->
               IF log[k].send_key = {send_key} /\ success
               THEN [log[k] EXCEPT !.sent = TRUE] ELSE log[k]]
  /\ UNCHANGED <<mac_dsn, next_key, datarequests>>

\* Any acknowledgement on the air: for this queue's frame, a late one for an
\* earlier frame, one meant for another node, or one without a number.
ReceiveAck(seq_nr, payload) ==
  /\ Input
  /\ q' = ProcessAcknowledge(q, seq_nr, payload)
  /\ log' = [k \in Keys |->
               IF log[k].seq # {} /\ log[k].seq = seq_nr
               THEN [log[k] EXCEPT !.acks = @ \cup {payload}] ELSE log[k]]
  /\ UNCHANGED <<mac_dsn, next_key, in_flight, datarequests>>

\* The MAC task is woken for something else and polls this queue too.  What woke
\* it may have taken sequence numbers from the PIB or set macDsn.
OtherInput(dsn) ==
  /\ Input
  /\ mac_dsn' = dsn
  /\ UNCHANGED <<q, next_key, in_flight, datarequests, log>>

AckTimeout ==
  /\ q.state.tag = "WaitingForAck" /\ ~q.state.timeout
  /\ q' = [q EXCEPT !.state.timeout = TRUE]
  /\ asleep' = FALSE
  /\ UNCHANGED <<mac_dsn, next_key, in_flight, datarequests, log>>

TransactionTimeout(i) ==
  /\ ~q.entries[i].timeout
  /\ q' = [q EXCEPT !.entries[i].timeout = TRUE]
  /\ asleep' = FALSE
  /\ UNCHANGED <<mac_dsn, next_key, in_flight, datarequests, log>>

-----------------------------------------------------------------------------
(* poll_next_action and what its caller does with the action it returns.    *)
Logged(action) ==
  CASE action.type = "SendFrame" ->
         [log EXCEPT ![action.key].sends = @ + 1,
                     ![action.key].send_key = {action.send_key},
                     ![action.key].seq = {action.seq},
                     ![action.key].sent = FALSE, ![action.key].acks = {}]
    [] action.type = "ReportResult" ->
         [log EXCEPT ![action.key].status = "reported",
                     ![action.key].result = {action.result}]
    [] OTHER -> log

NextSequenceNr(n) == (n + 1) % SeqSpace

Poll ==
  LET polled == PollNextAction(q, next_key, mac_dsn)
      sends  == polled.action.type = "SendFrame"
  IN  /\ ~asleep
      /\ q' = IF polled.action.type = "Empty" THEN New ELSE polled.queue
      /\ mac_dsn' = IF sends THEN NextSequenceNr(mac_dsn) ELSE mac_dsn
      /\ next_key' = IF sends THEN next_key + 1 ELSE next_key
      /\ in_flight' = IF sends THEN in_flight \cup {next_key} ELSE in_flight
      /\ asleep' = (polled.action.type \in {"Pending", "Empty"})
      /\ log' = Logged(polled.action)
      /\ UNCHANGED datarequests

Next ==
  \/ \E k \in Keys, indirect, ack \in BOOLEAN : InsertRequest(k, indirect, ack)
  \/ \E k \in Keys : RemoveRequest(k)
  \/ ReceiveDataRequest
  \/ \E send_key \in in_flight, success \in BOOLEAN : SendResult(send_key, success)
  \/ \E seq_nr \in {{}} \cup {{s} : s \in Seqs}, payload \in Payloads :
        ReceiveAck(seq_nr, payload)
  \/ \E dsn \in Seqs : OtherInput(dsn)
  \/ AckTimeout
  \/ \E i \in 1 .. Len(q.entries) : TransactionTimeout(i)
  \/ Poll

Spec == Init /\ [][Next]_vars

-----------------------------------------------------------------------------
States ==
  [tag : {"Idle"}, datarequest : BOOLEAN]
    \cup [tag : {"Sending"}, send_key : Nat,
          ack_requested : SUBSET Seqs, ack_payload : Payloads]
    \cup [tag : {"WaitingForAck"}, ack_requested : SUBSET Seqs,
          timeout : BOOLEAN]
    \cup [tag : {"HaveResult"}, result : Results]

Entries ==
  [key : Keys, indirect : BOOLEAN, acknowledge_request : BOOLEAN,
   retries_left : 0 .. MaxFrameRetries, timeout : BOOLEAN]

Records ==
  [status : {"new", "queued", "removed", "reported"}, indirect : BOOLEAN,
   ack : BOOLEAN, result : SUBSET Results, sends : Nat,
   send_key : SUBSET Nat, seq : SUBSET Seqs, sent : BOOLEAN, acks : SUBSET Payloads]

\* The fields of the queue, of its environment and of the history keep their
\* types; in particular retries_left, a usize, never goes below zero.
TypeOK ==
  /\ q \in [state : States, last_pending_reported : SUBSET BOOLEAN,
            entries : Seq(Entries)]
  /\ mac_dsn \in Seqs
  /\ next_key \in Nat
  /\ in_flight \in SUBSET Nat
  /\ asleep \in BOOLEAN
  /\ datarequests \in Nat
  /\ log \in [Keys -> Records]

\* A request is in the queue, once, exactly while it has been inserted and
\* neither reported nor removed: insert, remove, the result and the expiry paths
\* of the poll neither lose nor duplicate one.
EachQueuedOnce ==
  /\ \A k \in Keys :
       log[k].status = "queued" <=> \E i \in 1 .. Len(q.entries) : q.entries[i].key = k
  /\ \A i, j \in 1 .. Len(q.entries) : q.entries[i].key = q.entries[j].key => i = j

\* The exchange the state describes (frame being sent, acknowledgement awaited,
\* result to report) is the latest transmission of the entry at the front: the
\* front entry is never popped, expired or removed from under it.
ExchangeOwnsFront ==
  q.state.tag # "Idle" =>
    /\ q.entries # <<>>
    /\ LET sent == log[q.entries[1].key] IN
       /\ q.state.tag = "Sending" =>
            /\ sent.send_key = {q.state.send_key}
            /\ q.state.ack_requested \in {{}, sent.seq}
       /\ q.state.tag = "WaitingForAck" =>
            sent.sent /\ sent.ack /\ q.state.ack_requested = sent.seq

\* Success is reported only for a request whose latest transmission the radio
\* has sent and, if it asked for one, for which an acknowledgement with its own
\* sequence number came in since then; the payload reported is that
\* acknowledgement's.
SuccessIsEarned ==
  \A k \in Keys : \A r \in log[k].result :
    r.ok => /\ log[k].sent
            /\ IF log[k].ack THEN r.value \in log[k].acks ELSE r.value = NoPayload

\* SendFailure and NoAck are reported "after several tries": for direct requests
\* only, and after exactly 1 + macMaxFrameRetries transmissions.
FailureIsExhausted ==
  \A k \in Keys : \A r \in log[k].result :
    ~r.ok /\ r.value \in {"SendFailure", "NoAck"} =>
      ~log[k].indirect /\ log[k].sends = MaxFrameRetries + 1

\* A direct request is in its (1 + macMaxFrameRetries - retries_left)th attempt,
\* counting from the moment its frame is handed to the radio: no path through
\* results, acknowledgements and timeouts uses a retry twice or not at all.
AttemptBudget ==
  \A i \in 1 .. Len(q.entries) : ~q.entries[i].indirect =>
    log[q.entries[i].key].sends + q.entries[i].retries_left =
      MaxFrameRetries + (IF i = 1 /\ q.state.tag # "Idle" THEN 1 ELSE 0)

\* A task that sleeps has told the pending bit, has no result to report and no
\* elapsed timer or data request to act on; the only thing it may be sitting on
\* is the retry of a direct frame (see SleepMissesNothing).
SleepMissesOnlyRetries ==
  asleep /\ q.entries # <<>> =>
    /\ q.last_pending_reported = {q.entries[1].indirect}
    /\ q.state.tag # "HaveResult"
    /\ \A i \in 1 .. Len(q.entries) : ~q.entries[i].timeout
    /\ q.state.tag = "WaitingForAck" => ~q.state.timeout
    /\ q.state.tag = "Idle" =>
         /\ ~q.state.datarequest
         /\ ~q.entries[1].indirect =>
              log[q.entries[1].key].sends \in 1 .. MaxFrameRetries

\* "Lower retries counter, and go back to idle to retry": a task does not go to
\* sleep over a direct frame that is ready to be sent.
SleepMissesNothing ==
  asleep /\ q.entries # <<>> /\ q.state.tag = "Idle" => q.entries[1].indirect

\* A result is final: a request that was reported or removed is never queued,
\* transmitted or reported again, whatever late answers arrive.
ResultIsFinal ==
  [][\A k \in Keys : log[k].status \in {"removed", "reported"} =>
       /\ log'[k].status = log[k].status
       /\ log'[k].result = log[k].result
       /\ log'[k].sends = log[k].sends]_vars
=============================================================================
