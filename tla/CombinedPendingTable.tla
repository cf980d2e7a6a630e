------------------------ MODULE CombinedPendingTable ------------------------
(***************************************************************************)
(* The CombinedPendingTable of one DataService, the radio's tables and the *)
(* requests and results between them.  The serial link keeps the order of  *)
(* requests and of results, and the device works on one request at a time. *)
(*                                                                         *)
(* MLME-RESET replaces the DataService, and so the tables, by new ones at  *)
(* any time: requests of the old tables may still be on their way.         *)
(***************************************************************************)
EXTENDS CombinedPendingTableOps

CONSTANTS
  Addresses,    \* the Option<FullAddress> values that are set
  Size,         \* slots of each table (8 in the code)
  MaxSets,      \* bound: set calls
  MaxFailures,  \* bound: requests the radio fails
  MaxResets     \* bound: MLME-RESET requests

ASSUME CombinedPendingTableAssumption ==
  /\ \A address \in Addresses : address.mode \in {"None", "Short", "Extended"}
  /\ Size \in Nat \ {0}
  /\ MaxSets \in Nat
  /\ MaxFailures \in Nat
  /\ MaxResets \in Nat

VARIABLES
  c,          \* the CombinedPendingTable
  next_key,   \* the next UniqueKey::new()
  requests,   \* requests on their way to the radio
  results,    \* results on their way back
  radio,      \* the radio's slots, [short, extended]
  sets, failures, resets

vars == <<c, next_key, requests, results, radio, sets, failures, resets>>

Slots == 1 .. Size
Cleared == [short |-> [i \in Slots |-> {}], extended |-> [i \in Slots |-> {}]]

\* The radio may have been used before: its slots are not known to be empty.
ShortValues == {<<a.pan_id, a.address>> : a \in {b \in Addresses : b.mode = "Short"}}
ExtendedValues == {a.address : a \in {b \in Addresses : b.mode = "Extended"}}
Options(S) == {{}} \cup {{v} : v \in S}

Init ==
  /\ c = NewTables(Size)
  /\ next_key = 0
  /\ requests = <<>> /\ results = <<>>
  /\ radio \in [short : [Slots -> Options(ShortValues)],
                extended : [Slots -> Options(ExtendedValues)]]
  /\ sets = 0 /\ failures = 0 /\ resets = 0

Set(address, inserted) ==
  /\ sets < MaxSets
  /\ sets' = sets + 1
  /\ c' = SetAddress(c, address, inserted)
  /\ UNCHANGED <<next_key, requests, results, radio, failures, resets>>

Reset ==
  /\ resets < MaxResets
  /\ resets' = resets + 1
  /\ c' = NewTables(Size)
  /\ UNCHANGED <<next_key, requests, results, radio, sets, failures>>

Poll ==
  LET polled == PollTables(c, next_key)
  IN  /\ polled.action # NoUpdate
      /\ c' = polled.tables
      /\ requests' = Append(requests, polled.action)
      /\ next_key' = next_key + 1
      /\ UNCHANGED <<results, radio, sets, failures, resets>>

\* What the device does to its slots.
Execute(request) ==
  radio' = CASE request.type = "Init" -> Cleared
             [] request.type = "UpdateShort" ->
                  [radio EXCEPT !.short[request.index] = request.value]
             [] request.type = "UpdateExtended" ->
                  [radio EXCEPT !.extended[request.index] = request.value]

Answer(ok) ==
  /\ requests # <<>>
  /\ requests' = Tail(requests)
  /\ results' = Append(results, [type |-> Head(requests).type,
                                 key |-> Head(requests).key, ok |-> ok])
  /\ UNCHANGED <<c, next_key, sets, resets>>

RadioExecutes ==
  /\ Answer(TRUE)
  /\ Execute(Head(requests))
  /\ UNCHANGED failures

\* An error, before or after the device did what it was asked.
RadioFails ==
  /\ Answer(FALSE)
  /\ failures < MaxFailures
  /\ failures' = failures + 1
  /\ Execute(Head(requests)) \/ UNCHANGED radio

\* process_radio_response
Deliver ==
  /\ results # <<>>
  /\ results' = Tail(results)
  /\ LET result == Head(results) IN
     c' = IF result.type = "Init" THEN ReportInitResult(c, result.key, result.ok)
          ELSE ReportTablesResult(c, result.key, result.ok)
  /\ UNCHANGED <<next_key, requests, radio, sets, failures, resets>>

Next ==
  \/ \E address \in Addresses, inserted \in BOOLEAN : Set(address, inserted)
  \/ Reset
  \/ Poll
  \/ RadioExecutes \/ RadioFails
  \/ Deliver

Spec == Init /\ [][Next]_vars

\* The MAC polls, the radio answers, and answers are delivered.
Fairness ==
  /\ WF_vars(Poll)
  /\ WF_vars(RadioExecutes \/ RadioFails)
  /\ WF_vars(Deliver)

FairSpec == Spec /\ Fairness

-----------------------------------------------------------------------------
\* The slots of one of the tables agree with the radio's where the table says
\* that nothing is to be sent and nothing is on its way.
Agrees(table, slots) ==
  \A i \in Slots :
    ~table.table[i].dirty /\ (\A u \in table.updating : u[2] # i) =>
      slots[i] = table.table[i].value

\* Once initialised, the tables know what the radio holds: across failures,
\* sets made while the initialisation or an update is under way, and resets
\* that leave requests of the previous tables in the link.
InitialisedMeansSynced ==
  c.is_initialized =>
    Agrees(c.short, radio.short) /\ Agrees(c.extended, radio.extended)

\* The radio's slots become those of the tables, for good, once sets, resets
\* and failures stop.
EventuallySynced ==
  <>[](\A i \in Slots : /\ radio.short[i] = c.short.table[i].value
                        /\ radio.extended[i] = c.extended.table[i].value)
=============================================================================
