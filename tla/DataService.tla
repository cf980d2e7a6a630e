----------------------------- MODULE DataService ----------------------------
(***************************************************************************)
(* The DataService (src/src/ieee802154/mac/data.rs): a DeviceQueue for     *)
(* every destination that has requests, the table of pending addresses,    *)
(* and the handles of the MCPS requests that were not confirmed yet.       *)
(*                                                                         *)
(* The MAC loop (mac/service.rs) polls the service until it returns        *)
(* Pending before it takes an input.  A poll goes through the queues in    *)
(* the order of a hash map and starts again after every action: quiet is   *)
(* the set of queues that returned Pending since the last one, and the     *)
(* service is asleep once it holds them all.                               *)
(*                                                                         *)
(* link is what the radio has been asked and has not answered: it works on *)
(* one request at a time, in order.  DeviceQueue and CombinedPendingTable  *)
(* are about what happens in one queue and in the radio's tables; here an  *)
(* answer is made and delivered in one step.                               *)
(***************************************************************************)
EXTENDS DeviceQueueOps, CombinedPendingTableOps, FiniteSets

CONSTANTS
  Destinations,      \* the Option<FullAddress> values requests are made for
  Size,              \* slots of each pending table
  SeqSpace,          \* data sequence numbers are 0 .. SeqSpace - 1
  MaxFrameRetries,
  MaxRequests,       \* bound: requests
  MaxDataRequests,   \* bound: data requests received
  MaxFailures,       \* bound: pending-table requests that fail
  MaxResets          \* bound: MLME-RESET requests

ASSUME DataServiceAssumption ==
  /\ \A d \in Destinations :
       \/ d = NoAddress
       \/ d = Short(d.pan_id, d.address)
       \/ d = Extended(d.pan_id, d.address)
  /\ Size \in Nat \ {0}
  /\ SeqSpace \in Nat \ {0}
  /\ {MaxFrameRetries, MaxRequests, MaxDataRequests, MaxFailures, MaxResets} \subseteq Nat

VARIABLES
  queues,        \* destination -> DeviceQueue, for those that have one
  msdu_handles,  \* handles to be confirmed, with the key of their request
  tables,        \* the CombinedPendingTable
  mac_dsn,
  next_key,      \* the next UniqueKey::new() for the radio
  link,          \* requests the radio has not answered
  asleep, quiet,
  requests,      \* history: what was asked for, a sequence indexed by request key
  outcomes,      \* history: what the MCPS client was told, by request key
  datarequests, failures, resets

serviceVars == <<queues, msdu_handles, tables>>
counters == <<datarequests, failures, resets>>
vars == <<serviceVars, mac_dsn, next_key, link, asleep, quiet, requests, outcomes,
          counters>>

Seqs == 0 .. SeqSpace - 1
Keys == 1 .. Len(requests)

Init ==
  /\ queues = <<>>
  /\ msdu_handles = {}
  /\ tables = NewTables(Size)
  /\ mac_dsn \in Seqs
  /\ next_key = 0
  /\ link = <<>>
  /\ asleep = FALSE /\ quiet = {}
  /\ requests = <<>> /\ outcomes = <<>>
  /\ datarequests = 0 /\ failures = 0 /\ resets = 0

-----------------------------------------------------------------------------
(* Inputs.                                                                  *)
Wake == asleep' = FALSE /\ quiet' = {}
Input == asleep /\ Wake

With(f, d, q) == [e \in DOMAIN f \cup {d} |-> IF e = d THEN q ELSE f[e]]
Without(f, d) == [e \in DOMAIN f \ {d} |-> f[e]]

InsertEntry(destination, entry) ==
  queues' = With(queues, destination,
                 Insert(IF destination \in DOMAIN queues THEN queues[destination] ELSE New,
                        entry))

\* BiMap: the handle and the key are each in one pair at most.
InsertHandle(handle, key) ==
  {m \in msdu_handles : m.handle # handle /\ m.key # key}
    \cup {[handle |-> handle, key |-> key]}

\* outcomes of a request: "open", "confirmed", "purged", "dropped" (no confirm will
\* come), "none" (no confirm is due)
Recorded(key, outcome) == [outcomes EXCEPT ![key] = outcome]

NewRequest(destination, indirect, ack, outcome) ==
  /\ Input
  /\ Len(requests) < MaxRequests
  /\ requests' = Append(requests, [destination |-> destination, mcps |-> outcome = "open"])
  /\ outcomes' = Append(outcomes, outcome)
  /\ InsertEntry(destination, Entry(Len(requests) + 1, indirect, ack, MaxFrameRetries))
  /\ UNCHANGED <<tables, mac_dsn, next_key, link>>

\* MCPS-DATA.request; an MsduHandle is a new UniqueKey, so it is the request's own.
ProcessMcpsDataRequest(destination, indirect, ack) ==
  /\ NewRequest(destination, indirect, ack, "open")
  /\ msdu_handles' = InsertHandle(Len(requests) + 1, Len(requests) + 1)

\* MLME-ASSOCIATE.response: a request of the management service, without a handle
ProcessMlmeAssociateResponse(destination, fast_association) ==
  /\ destination.mode = "Extended"
  /\ NewRequest(destination, ~fast_association, TRUE, "none")
  /\ UNCHANGED msdu_handles

\* MCPS-PURGE.request; an unknown handle gets an InvalidHandle and is one of the
\* other inputs.
\* remove stops at the first queue that had the key.
ForgetRemove(key) == queues
RemoveKey(key) == [d \in DOMAIN queues |-> Remove(queues[d], key)]

ProcessMcpsPurgeRequest(handle) ==
  /\ Input
  /\ \E m \in msdu_handles :
       /\ m.handle = handle
       /\ msdu_handles' = msdu_handles \ {m}
       /\ queues' = RemoveKey(m.key)
       /\ outcomes' = Recorded(m.key, "purged")
  /\ UNCHANGED <<tables, mac_dsn, next_key, link, requests>>

\* MLME-RESET.request: a new DataService.  With set_default_pib the PIB draws
\* a new sequence number.
ProcessMlmeResetRequest(dsn) ==
  /\ Input
  /\ mac_dsn' = dsn
  /\ queues' = <<>> /\ msdu_handles' = {} /\ tables' = NewTables(Size)
  /\ outcomes' = [k \in Keys |-> IF outcomes[k] = "open" THEN "dropped" ELSE outcomes[k]]
  /\ UNCHANGED <<next_key, link, requests>>

ProcessFrameAck(seq_nr) ==
  /\ Input
  /\ queues' = [d \in DOMAIN queues |-> ProcessAcknowledge(queues[d], seq_nr, NoPayload)]
  /\ UNCHANGED <<msdu_handles, tables, mac_dsn, next_key, link, requests, outcomes>>

\* A data request sent to this node; others change nothing.
ProcessFrameDataRequest(source) ==
  /\ Input
  /\ queues' = IF source \in DOMAIN queues
               THEN [queues EXCEPT ![source] = ProcessDataRequest(@)] ELSE queues
  /\ UNCHANGED <<msdu_handles, tables, mac_dsn, next_key, link, requests, outcomes>>

\* process_radio_response: the answer to the oldest request
RadioAnswers(ok) ==
  /\ Input
  /\ link # <<>>
  /\ link' = Tail(link)
  /\ LET answered == Head(link) IN
     /\ tables' = CASE answered.type = "Init" -> ReportInitResult(tables, answered.key, ok)
                    [] answered.type = "Update" ->
                         ReportTablesResult(tables, answered.key, ok)
                    [] answered.type = "SendPacket" -> tables
     /\ queues' = IF answered.type # "SendPacket" THEN queues
                  ELSE [d \in DOMAIN queues |->
                          ProcessSendResult(queues[d], answered.key, ok)]
  /\ UNCHANGED <<msdu_handles, mac_dsn, next_key, requests, outcomes>>

\* Another component's input.
OtherInput ==
  /\ Input
  /\ UNCHANGED <<serviceVars, mac_dsn, next_key, link, requests, outcomes>>

AckTimeout(d) ==
  /\ queues[d].state.tag = "WaitingForAck" /\ ~queues[d].state.timeout
  /\ queues' = [queues EXCEPT ![d].state.timeout = TRUE]
  /\ Wake
  /\ UNCHANGED <<msdu_handles, tables, mac_dsn, next_key, link, requests, outcomes>>

TransactionTimeout(d, i) ==
  /\ ~queues[d].entries[i].timeout
  /\ queues' = [queues EXCEPT ![d].entries[i].timeout = TRUE]
  /\ Wake
  /\ UNCHANGED <<msdu_handles, tables, mac_dsn, next_key, link, requests, outcomes>>

-----------------------------------------------------------------------------
(* poll_action: the table first, then the queues.                           *)
\* content: the update of a table, or the request and the sequence number of a frame
ToRadio(type, key, content) ==
  Append(link, [type |-> type, key |-> key, content |-> content])

PollPendingTable ==
  LET polled == PollTables(tables, next_key)
  IN  /\ ~asleep
      /\ polled.action # NoUpdate
      /\ tables' = polled.tables
      /\ next_key' = next_key + 1
      /\ link' = ToRadio(IF polled.action.type = "Init" THEN "Init" ELSE "Update",
                         next_key, polled.action)
      /\ quiet' = {}
      /\ UNCHANGED <<queues, msdu_handles, mac_dsn, asleep, requests, outcomes>>

\* A result goes to the client if its request has a handle.
HandlesOf(key) == {m \in msdu_handles : m.key = key}
ConfirmData(key) ==
  /\ msdu_handles' = msdu_handles \ HandlesOf(key)
  /\ outcomes' = IF HandlesOf(key) = {} THEN outcomes ELSE Recorded(key, "confirmed")

AfterPoll(destination, polled) ==
  IF polled.action = Empty THEN Without(queues, destination)
  ELSE With(queues, destination, polled.queue)

NextSequenceNr(n) == (n + 1) % SeqSpace

PollQueue(destination) ==
  LET polled == PollNextAction(queues[destination], next_key, mac_dsn)
      action == polled.action
  IN  /\ ~asleep
      /\ PollTables(tables, next_key).action = NoUpdate
      /\ destination \notin quiet
      /\ queues' = AfterPoll(destination, polled)
      /\ quiet' = IF action = Pending THEN quiet \cup {destination} ELSE {}
      /\ tables' = IF action.type = "SetPending"
                   THEN SetAddress(tables, destination, action.pending) ELSE tables
      /\ IF action.type = "SendFrame"
         THEN /\ link' = ToRadio("SendPacket", next_key, action)
              /\ next_key' = next_key + 1
              /\ mac_dsn' = NextSequenceNr(mac_dsn)
         ELSE UNCHANGED <<link, next_key, mac_dsn>>
      /\ IF action.type = "ReportResult" THEN ConfirmData(action.key)
         ELSE UNCHANGED <<msdu_handles, outcomes>>
      /\ UNCHANGED <<asleep, requests>>

\* Every queue has returned Pending.
PollPending ==
  /\ ~asleep
  /\ PollTables(tables, next_key).action = NoUpdate
  /\ quiet = DOMAIN queues
  /\ asleep' = TRUE
  /\ UNCHANGED <<serviceVars, mac_dsn, next_key, link, quiet, requests, outcomes>>

Poll == PollPendingTable \/ PollPending \/ \E d \in DOMAIN queues : PollQueue(d)

Inputs ==
  \/ \E d \in Destinations, indirect, ack \in BOOLEAN :
        ProcessMcpsDataRequest(d, indirect, ack)
  \/ \E d \in Destinations, fast_association \in BOOLEAN :
        ProcessMlmeAssociateResponse(d, fast_association)
  \/ \E handle \in Keys : ProcessMcpsPurgeRequest(handle)
  \/ \E seq \in Seqs : ProcessFrameAck({seq})
  \/ OtherInput

Timers ==
  \E d \in DOMAIN queues :
    \/ AckTimeout(d)
    \/ \E i \in 1 .. Len(queues[d].entries) : TransactionTimeout(d, i)

\* What the bounds count
BoundedInputs ==
  \/ /\ resets < MaxResets
     /\ \E dsn \in Seqs : ProcessMlmeResetRequest(dsn)
     /\ resets' = resets + 1
     /\ UNCHANGED <<datarequests, failures>>
  \/ /\ datarequests < MaxDataRequests
     /\ \E d \in Destinations : ProcessFrameDataRequest(d)
     /\ datarequests' = datarequests + 1
     /\ UNCHANGED <<failures, resets>>
  \/ \E ok \in BOOLEAN :
       /\ RadioAnswers(ok)
       /\ failures' = IF ok \/ Head(link).type = "SendPacket" THEN failures
                      ELSE failures + 1
       /\ failures' <= MaxFailures
       /\ UNCHANGED <<datarequests, resets>>

Next == BoundedInputs \/ ((Inputs \/ Timers \/ Poll) /\ UNCHANGED counters)

Spec == Init /\ [][Next]_vars

\* A task that was woken is polled, and a sleep elapses.
Fairness ==
  /\ WF_vars(Poll /\ UNCHANGED counters)
  /\ \A d \in Destinations, k \in 1 .. MaxRequests :
       WF_vars(/\ d \in DOMAIN queues
               /\ \E i \in 1 .. Len(queues[d].entries) :
                    queues[d].entries[i].key = k /\ TransactionTimeout(d, i)
               /\ UNCHANGED counters)

FairSpec == Spec /\ Fairness

-----------------------------------------------------------------------------
Queued(k) == {d \in DOMAIN queues :
                \E i \in 1 .. Len(queues[d].entries) : queues[d].entries[i].key = k}

\* The books agree: an MCPS request that was neither confirmed nor purged nor lost
\* in a reset has its handle in the map and its entry in its destination's queue,
\* and no other request has either.  So a request is answered at most once, and
\* none is left in a queue or in the map that nobody will hear of.
HandlesMatchQueues ==
  \A k \in Keys : requests[k].mcps =>
    /\ outcomes[k] = "open" <=> [handle |-> k, key |-> k] \in msdu_handles
    /\ outcomes[k] = "open" <=> Queued(k) = {requests[k].destination}
    /\ outcomes[k] # "open" => Queued(k) = {}

\* While the service sleeps, an address is marked pending exactly if its queue
\* has a frame at the front that waits for a data request.
Awaited(d) == d \in DOMAIN queues /\ ShouldBePending(queues[d])
Marked(d) ==
  CASE d.mode = "None" -> tables.none
    [] d.mode = "Short" -> <<d.pan_id, d.address>> \in tables.short.values
    [] d.mode = "Extended" -> d.address \in tables.extended.values

ShortPendingFollowsQueues ==
  asleep => \A d \in Destinations : d.mode # "Extended" => (Marked(d) <=> Awaited(d))

\* "Pending bit should be set": an address whose queue waits for a data request is
\* marked, whatever its PAN and whatever happens to other queues.
AwaitedMeansMarked ==
  asleep => \A d \in Destinations : Awaited(d) => Marked(d)

\* Every MCPS data request is eventually confirmed or purged, if no reset drops it.
Open(k) == k \in Keys /\ outcomes[k] = "open"
EveryRequestAnswered == \A k \in 1 .. MaxRequests : Open(k) ~> ~Open(k)
=============================================================================
