------------------------- MODULE DataService_proofs -------------------------
(***************************************************************************)
(* Proofs about DataService for any set of destinations and any number of  *)
(* slots, requests, retries, sequence numbers, failures and resets.        *)
(***************************************************************************)
EXTENDS DataService, WellFoundedInduction, SequenceTheorems, TLAPS

\* A nonempty set of natural numbers has a least element.
LEMMA LeastElementExists ==
  ASSUME NEW S \in SUBSET Nat, S # {}
  PROVE  \E x \in S : \A y \in S : x <= y
<1>1. \E x \in S : \A y \in S : ~(<<y, x>> \in OpToRel(<, Nat))
  BY NatLessThanWellFounded, WFMin
<1>2. \A x, y \in S : y < x => <<y, x>> \in OpToRel(<, Nat)
  BY DEF OpToRel
<1>3. \E x \in S : \A y \in S : ~(y < x)
  BY <1>1, <1>2, Zenon
<1> QED BY <1>3

-----------------------------------------------------------------------------
(* The inductive invariant.                                                 *)
EntryType == [key : Nat, indirect : BOOLEAN, acknowledge_request : BOOLEAN,
              retries_left : Int, timeout : BOOLEAN]

Indices(q) == 1 .. Len(q.entries)

\* A queue has every key once.
IsQueue(q) ==
  /\ q = [state |-> q.state, last_pending_reported |-> q.last_pending_reported,
          entries |-> q.entries]
  /\ q.last_pending_reported \in SUBSET BOOLEAN
  /\ q.entries \in Seq(EntryType)
  /\ \A i, j \in Indices(q) : q.entries[i].key = q.entries[j].key => i = j

KeysOf(q) == {q.entries[i].key : i \in Indices(q)}

RequestType == [destination : Destinations, mcps : BOOLEAN]
Outcomes == {"open", "confirmed", "purged", "dropped", "none"}

\* The histories.
Histories(rs, os) ==
  /\ rs \in Seq(RequestType) /\ os \in Seq(Outcomes) /\ Len(os) = Len(rs)
  /\ \A k \in 1 .. Len(rs) : os[k] = "open" => rs[k].mcps
  /\ \A k \in 1 .. Len(rs) : os[k] = "none" => ~rs[k].mcps

\* The handles are those of the open requests.
Handles(os, hs) ==
  hs = {[handle |-> k, key |-> k] : k \in {j \in 1 .. Len(os) : os[j] = "open"}}

\* The queues hold requests for their own destination which were not answered, and
\* all those that are open.
Queues(qs, rs, os) ==
  /\ DOMAIN qs \subseteq Destinations
  /\ \A d \in DOMAIN qs :
       /\ IsQueue(qs[d])
       /\ \A k \in KeysOf(qs[d]) : /\ k \in 1 .. Len(rs)
                                   /\ rs[k].destination = d
                                   /\ os[k] \in {"open", "none"}
  /\ \A k \in 1 .. Len(rs) : os[k] = "open" =>
       rs[k].destination \in DOMAIN qs /\ k \in KeysOf(qs[rs[k].destination])

\* The tables' fields.
IsTable(t) ==
  t = [values |-> t.values, table |-> t.table, order |-> t.order, updating |-> t.updating]

IsTables(ts) ==
  /\ ts = [initializing |-> ts.initializing, is_initialized |-> ts.is_initialized,
           none |-> ts.none, short |-> ts.short, extended |-> ts.extended]
  /\ ts.none \in BOOLEAN
  /\ IsTable(ts.short) /\ IsTable(ts.extended)

\* What the tables say of an address is what its queue has last reported, and FALSE
\* before it has reported anything.
IsMarked(ts, d) ==
  IF d.mode = "None" THEN ts.none ELSE <<d.pan_id, d.address>> \in ts.short.values

Reported(qs, d) == d \in DOMAIN qs /\ qs[d].last_pending_reported = {TRUE}

Marks(qs, ts) ==
  \A d \in Destinations : d.mode # "Extended" => (IsMarked(ts, d) <=> Reported(qs, d))

\* A queue that has returned Pending has reported what it should, and nothing
\* has happened to it since.
UpToDate(q) == q.last_pending_reported = {ShouldBePending(q)}

Quiet(qs, qt, sleep) ==
  /\ sleep \in BOOLEAN
  /\ qt \subseteq DOMAIN qs
  /\ \A d \in qt : UpToDate(qs[d])
  /\ sleep => qt = DOMAIN qs

\* The radio is asked for three things.
Messages(l) ==
  /\ Len(l) \in Nat /\ l = [i \in 1 .. Len(l) |-> l[i]]
  /\ \A i \in 1 .. Len(l) : l[i].type \in {"Init", "Update", "SendPacket"}

IndInv ==
  /\ Histories(requests, outcomes)
  /\ Handles(outcomes, msdu_handles)
  /\ Queues(queues, requests, outcomes)
  /\ IsTables(tables) /\ Marks(queues, tables)
  /\ Quiet(queues, quiet, asleep)
  /\ Messages(link)

-----------------------------------------------------------------------------
(* What the operations on a queue do to its keys.                           *)
LEMMA EntriesOf ==
  ASSUME NEW q, IsQueue(q)
  PROVE  /\ q.entries \in Seq(EntryType) /\ Len(q.entries) \in Nat
         /\ q.entries # <<>> <=> 1 \in Indices(q)
         /\ \A i \in Indices(q) :
              /\ q.entries[i] \in EntryType
              /\ q.entries[i].key \in Nat /\ q.entries[i].indirect \in BOOLEAN
<1>1. q.entries \in Seq(EntryType) /\ Len(q.entries) \in Nat
  BY LenProperties DEF IsQueue
<1>2. \A i \in Indices(q) : q.entries[i] \in EntryType
  BY <1>1, ElementOfSeq DEF Indices
<1>3. q.entries # <<>> <=> 1 \in Indices(q)
  BY <1>1, EmptySeq, LenProperties DEF Indices
<1> QED BY <1>1, <1>2, <1>3 DEF EntryType

\* The operation leaves alone which keys are in the queue, what is reported, and
\* which entries are indirect.
Same(new, q) ==
  /\ new = [state |-> new.state, last_pending_reported |-> new.last_pending_reported,
            entries |-> new.entries]
  /\ new.last_pending_reported = q.last_pending_reported
  /\ new.entries \in Seq(EntryType) /\ Len(new.entries) = Len(q.entries)
  /\ \A i \in Indices(q) : /\ new.entries[i].key = q.entries[i].key
                           /\ new.entries[i].indirect = q.entries[i].indirect

LEMMA SameQueue ==
  ASSUME NEW q, IsQueue(q), NEW new, Same(new, q)
  PROVE  /\ IsQueue(new) /\ KeysOf(new) = KeysOf(q)
         /\ ShouldBePending(new) <=> ShouldBePending(q)
         /\ new.last_pending_reported = q.last_pending_reported
<1>1. Indices(new) = Indices(q)
  BY DEF Same, Indices
<1>2. IsQueue(new)
  BY <1>1 DEF IsQueue, Same
<1>3. KeysOf(new) = KeysOf(q)
  BY <1>1 DEF KeysOf, Same
<1>4. ShouldBePending(new) <=> ShouldBePending(q)
  BY <1>1, <1>2, EntriesOf DEF ShouldBePending, Same
<1> QED BY <1>2, <1>3, <1>4 DEF Same

LEMMA SameItself ==
  ASSUME NEW q, IsQueue(q)
  PROVE  Same(q, q)
  BY DEF IsQueue, Same

LEMMA WithState ==
  ASSUME NEW q, IsQueue(q), NEW state
  PROVE  LET new == [q EXCEPT !.state = state] IN
         Same(new, q) /\ new.entries = q.entries /\ new.state = state
<1> DEFINE new == [q EXCEPT !.state = state]
<1>1. q = [state |-> q.state, last_pending_reported |-> q.last_pending_reported,
           entries |-> q.entries] /\ q.entries \in Seq(EntryType)
  BY DEF IsQueue
<1>2. new = [state |-> state, last_pending_reported |-> q.last_pending_reported,
             entries |-> q.entries]
  BY <1>1
<1> HIDE DEF new
<1>3. /\ new.state = state /\ new.last_pending_reported = q.last_pending_reported
      /\ new.entries = q.entries
  BY <1>2
<1>4. Same(new, q)
  BY <1>1, <1>2, <1>3 DEF Same
<1> QED BY <1>3, <1>4 DEF new

\* An entry is replaced by one with the same key.
LEMMA WithEntry ==
  ASSUME NEW q, IsQueue(q), NEW state, NEW i \in Indices(q), NEW entry \in EntryType,
         entry.key = q.entries[i].key, entry.indirect = q.entries[i].indirect
  PROVE  Same([q EXCEPT !.state = state, !.entries[i] = entry], q)
<1> DEFINE entries == [q.entries EXCEPT ![i] = entry]
           new == [q EXCEPT !.state = state, !.entries = entries]
<1>1. [q EXCEPT !.state = state, !.entries[i] = entry] = new
  BY DEF IsQueue
<1>2. /\ entries \in Seq(EntryType) /\ Len(entries) = Len(q.entries)
      /\ \A j \in Indices(q) : entries[j] = IF j = i THEN entry ELSE q.entries[j]
  BY ExceptSeq DEF Indices, IsQueue
<1> HIDE DEF entries
<1>3. /\ new = [state |-> new.state, last_pending_reported |-> new.last_pending_reported,
                entries |-> new.entries]
      /\ new.state = state /\ new.entries = entries
      /\ new.last_pending_reported = q.last_pending_reported
  <2> DEFINE u == [q EXCEPT !.state = state]
  <2>1. q = [state |-> q.state, last_pending_reported |-> q.last_pending_reported,
             entries |-> q.entries]
    BY DEF IsQueue
  <2>2. u = [state |-> state, last_pending_reported |-> q.last_pending_reported,
             entries |-> q.entries]
    BY <2>1
  <2>3. new = [u EXCEPT !.entries = entries]
    OBVIOUS
  <2> HIDE DEF u, new
  <2>4. new = [state |-> state, last_pending_reported |-> q.last_pending_reported,
               entries |-> entries]
    BY <2>2, <2>3
  <2> QED BY <2>4
<1> HIDE DEF new
<1>4. Same(new, q)
  BY <1>2, <1>3 DEF Same
<1> QED BY <1>1, <1>4

LEMMA UsedRetry ==
  ASSUME NEW entry \in EntryType
  PROVE  /\ UseRetry(entry) \in EntryType /\ UseRetry(entry).key = entry.key
         /\ UseRetry(entry).indirect = entry.indirect
<1> DEFINE fewer == [entry EXCEPT !.retries_left = entry.retries_left - 1]
<1>1. fewer \in EntryType /\ fewer.key = entry.key /\ fewer.indirect = entry.indirect
  BY DEF EntryType
<1> QED BY <1>1 DEF UseRetry

LEMMA BackToIdleSame ==
  ASSUME NEW q, IsQueue(q), q.entries # <<>>
  PROVE  Same(BackToIdle(q), q)
<1>1. 1 \in Indices(q) /\ q.entries[1] \in EntryType
  BY EntriesOf
<1>2. BackToIdle(q) = [q EXCEPT !.state = Idle(FALSE), !.entries[1] = UseRetry(q.entries[1])]
  BY DEF BackToIdle, IsQueue
<1>3. PICK state, entry : state = Idle(FALSE) /\ entry = UseRetry(q.entries[1])
  OBVIOUS
<1>4. entry \in EntryType /\ entry.key = q.entries[1].key /\ entry.indirect = q.entries[1].indirect
  BY <1>1, <1>3, UsedRetry
<1>5. Same([q EXCEPT !.state = state, !.entries[1] = entry], q)
  BY <1>1, <1>4, WithEntry
<1> QED BY <1>2, <1>3, <1>5

LEMMA DataRequestSame ==
  ASSUME NEW q, IsQueue(q)
  PROVE  Same(ProcessDataRequest(q), q)
  BY WithState, SameItself DEF ProcessDataRequest

LEMMA SendResultSame ==
  ASSUME NEW q, IsQueue(q), NEW key, NEW ok \in BOOLEAN
  PROVE  Same(ProcessSendResult(q, key, ok), q)
<1>1. CASE ~ResultIsOurs(q, key)
  BY <1>1, SameItself DEF ProcessSendResult
<1>2. CASE ResultIsOurs(q, key) /\ ok
  <2>1. ProcessSendResult(q, key, ok) = [q EXCEPT !.state = AfterSend(q.state)]
    BY <1>2 DEF ProcessSendResult, IsQueue
  <2> QED BY <2>1, WithState
<1>3. CASE ResultIsOurs(q, key) /\ ~ok
  <2>1. ProcessSendResult(q, key, ok) =
          IF q.entries = <<>> THEN [q EXCEPT !.state = Idle(FALSE)]
          ELSE IF CanRetry(q) THEN BackToIdle(q)
          ELSE [q EXCEPT !.state = HaveResult(Err("SendFailure"))]
    BY <1>3 DEF ProcessSendResult
  <2> QED BY <2>1, WithState, BackToIdleSame
<1> QED BY <1>1, <1>2, <1>3

LEMMA AcknowledgeSame ==
  ASSUME NEW q, IsQueue(q), NEW seq_nr, NEW payload
  PROVE  Same(ProcessAcknowledge(q, seq_nr, payload), q)
<1> DEFINE state == IF q.state.tag = "WaitingForAck" THEN HaveResult(Ok(payload))
                    ELSE Sending(q.state.send_key, {}, payload)
<1>1. ProcessAcknowledge(q, seq_nr, payload) = q
        \/ ProcessAcknowledge(q, seq_nr, payload) = [q EXCEPT !.state = state]
  BY DEF ProcessAcknowledge, IsQueue
<1> HIDE DEF state
<1> QED BY <1>1, WithState, SameItself

LEMMA AckTimerSame ==
  ASSUME NEW q, IsQueue(q)
  PROVE  Same([q EXCEPT !.state.timeout = TRUE], q)
<1> DEFINE state == [q.state EXCEPT !.timeout = TRUE]
<1>1. [q EXCEPT !.state.timeout = TRUE] = [q EXCEPT !.state = state]
  BY DEF IsQueue
<1> HIDE DEF state
<1> QED BY <1>1, WithState

LEMMA TransactionTimerSame ==
  ASSUME NEW q, IsQueue(q), NEW i \in Indices(q)
  PROVE  Same([q EXCEPT !.entries[i].timeout = TRUE], q)
<1> DEFINE entry == [q.entries[i] EXCEPT !.timeout = TRUE]
<1>0. q.entries[i] \in EntryType
  BY EntriesOf
<1>1. entry \in EntryType /\ entry.key = q.entries[i].key /\ entry.indirect = q.entries[i].indirect
  BY <1>0 DEF EntryType
<1>2. [q EXCEPT !.entries[i].timeout = TRUE] = [q EXCEPT !.state = q.state, !.entries[i] = entry]
  BY DEF IsQueue
<1> HIDE DEF entry
<1>3. Same([q EXCEPT !.state = q.state, !.entries[i] = entry], q)
  BY <1>1, WithEntry
<1> QED BY <1>2, <1>3

LEMMA DropKeys ==
  ASSUME NEW q, IsQueue(q), NEW i \in Indices(q)
  PROVE  /\ IsQueue(Drop(q, i)) /\ KeysOf(Drop(q, i)) = KeysOf(q) \ {q.entries[i].key}
         /\ Drop(q, i).last_pending_reported = q.last_pending_reported
<1> DEFINE n == Len(q.entries)
           entries == [j \in 1 .. n - 1 |-> IF j < i THEN q.entries[j] ELSE q.entries[j + 1]]
           state == StateWithout(q, i)
           new == [q EXCEPT !.state = state, !.entries = entries]
           from(j) == IF j < i THEN j ELSE j + 1
<1>1. Drop(q, i) = new
  BY DEF Drop, IsQueue
<1>2. /\ n \in Nat /\ i \in 1 .. n /\ n - 1 \in Nat
      /\ \A j \in 1 .. n : q.entries[j] \in EntryType
      /\ \A j, m \in 1 .. n : q.entries[j].key = q.entries[m].key => j = m
  BY EntriesOf DEF Indices, IsQueue
<1>3. /\ \A j \in 1 .. n - 1 : from(j) \in 1 .. n /\ from(j) # i
      /\ \A j, m \in 1 .. n - 1 : from(j) = from(m) => j = m
      /\ \A m \in 1 .. n : m # i => \E j \in 1 .. n - 1 : from(j) = m
  <2>1. \A j \in 1 .. n - 1 : from(j) \in 1 .. n /\ from(j) # i
    BY <1>2
  <2>2. \A j, m \in 1 .. n - 1 : from(j) = from(m) => j = m
    BY <1>2
  <2>3. ASSUME NEW m \in 1 .. n, m # i PROVE \E j \in 1 .. n - 1 : from(j) = m
    <3>1. CASE m < i
      BY <1>2, <3>1
    <3>2. CASE m > i
      <4>1. m - 1 \in 1 .. n - 1 /\ from(m - 1) = m
        BY <1>2, <3>2
      <4> QED BY <4>1
    <3> QED BY <1>2, <2>3, <3>1, <3>2
  <2> QED BY <2>1, <2>2, <2>3
<1>4. /\ \A j \in 1 .. n - 1 : entries[j] = q.entries[from(j)]
      /\ DOMAIN entries = 1 .. n - 1
  OBVIOUS
<1>5. entries \in [1 .. n - 1 -> EntryType]
  BY <1>2, <1>3
<1> HIDE DEF from
<1>6. entries \in Seq(EntryType) /\ Len(entries) = n - 1
  BY <1>2, <1>5
<1> HIDE DEF entries, state
<1>7. /\ new = [state |-> new.state, last_pending_reported |-> new.last_pending_reported,
                entries |-> new.entries]
      /\ new.entries = entries /\ new.last_pending_reported = q.last_pending_reported
  <2> DEFINE u == [q EXCEPT !.state = state]
  <2>1. q = [state |-> q.state, last_pending_reported |-> q.last_pending_reported,
             entries |-> q.entries]
    BY DEF IsQueue
  <2>2. u = [state |-> state, last_pending_reported |-> q.last_pending_reported,
             entries |-> q.entries]
    BY <2>1
  <2>3. new = [u EXCEPT !.entries = entries]
    OBVIOUS
  <2> HIDE DEF u, new
  <2>4. new = [state |-> state, last_pending_reported |-> q.last_pending_reported,
               entries |-> entries]
    BY <2>2, <2>3
  <2> QED BY <2>4
<1> HIDE DEF new
<1>8. ASSUME NEW j \in 1 .. n - 1, NEW m \in 1 .. n - 1, entries[j].key = entries[m].key
      PROVE  j = m
  <2>1. q.entries[from(j)].key = q.entries[from(m)].key
    BY <1>4, <1>8
  <2>2. from(j) = from(m)
    BY <1>2, <1>3, <2>1
  <2> QED BY <1>3, <2>2
<1>9. IsQueue(new)
  BY <1>6, <1>7, <1>8 DEF IsQueue, Indices
<1>10. KeysOf(new) = KeysOf(q) \ {q.entries[i].key}
  <2>1. KeysOf(new) = {entries[j].key : j \in 1 .. n - 1}
    BY <1>6, <1>7 DEF KeysOf, Indices
  <2>2. KeysOf(q) = {q.entries[j].key : j \in 1 .. n}
    BY DEF KeysOf, Indices
  <2>3. \A x \in KeysOf(new) : x \in KeysOf(q) /\ x # q.entries[i].key
    <3> SUFFICES ASSUME NEW j \in 1 .. n - 1
                 PROVE  entries[j].key \in KeysOf(q) /\ entries[j].key # q.entries[i].key
      BY <2>1
    <3>1. entries[j] = q.entries[from(j)] /\ from(j) \in 1 .. n /\ from(j) # i
      BY <1>3, <1>4
    <3> QED BY <1>2, <2>2, <3>1
  <2>4. \A x \in KeysOf(q) : x # q.entries[i].key => x \in KeysOf(new)
    <3> SUFFICES ASSUME NEW m \in 1 .. n, q.entries[m].key # q.entries[i].key
                 PROVE  q.entries[m].key \in KeysOf(new)
      BY <2>2
    <3>1. PICK j \in 1 .. n - 1 : from(j) = m
      BY <1>3
    <3> QED BY <1>4, <2>1, <3>1
  <2> QED BY <2>3, <2>4
<1> QED BY <1>1, <1>7, <1>9, <1>10

LEMMA InsertKeys ==
  ASSUME NEW q, IsQueue(q), NEW entry \in EntryType
  PROVE  /\ IsQueue(Insert(q, entry)) /\ KeysOf(Insert(q, entry)) = KeysOf(q) \cup {entry.key}
         /\ Insert(q, entry).last_pending_reported = q.last_pending_reported
<1> DEFINE n == Len(q.entries)
           entries == Append(q.entries, entry)
           new == [q EXCEPT !.entries = entries]
<1>1. Contains(q, entry.key) <=> entry.key \in KeysOf(q)
  BY DEF Contains, Positions, KeysOf, Indices
<1>2. CASE Contains(q, entry.key)
  BY <1>1, <1>2 DEF Insert
<1>3. CASE ~Contains(q, entry.key)
  <2>1. Insert(q, entry) = new
    BY <1>3 DEF Insert, IsQueue
  <2>2. /\ q.entries \in Seq(EntryType) /\ n \in Nat
        /\ q = [state |-> q.state, last_pending_reported |-> q.last_pending_reported,
                entries |-> q.entries]
    BY EntriesOf DEF IsQueue
  <2>3. /\ entries \in Seq(EntryType) /\ Len(entries) = n + 1 /\ entries[n + 1] = entry
        /\ \A i \in 1 .. n : entries[i] = q.entries[i]
    BY <2>2, AppendProperties
  <2> HIDE DEF entries
  <2>4. new = [state |-> q.state, last_pending_reported |-> q.last_pending_reported,
               entries |-> entries]
    BY <2>2
  <2> HIDE DEF new
  <2>5. /\ new.entries = entries /\ new.last_pending_reported = q.last_pending_reported
        /\ new = [state |-> new.state, last_pending_reported |-> new.last_pending_reported,
                  entries |-> new.entries]
    BY <2>4
  <2>6. \A i \in 1 .. n : q.entries[i].key # entry.key
    BY <1>1, <1>3 DEF KeysOf, Indices
  <2>7. \A i \in Indices(new) : i \in 1 .. n \/ i = n + 1
    BY <2>2, <2>3, <2>5 DEF Indices
  <2>8. \A i, j \in Indices(new) : new.entries[i].key = new.entries[j].key => i = j
    <3>1. \A i, j \in 1 .. n : q.entries[i].key = q.entries[j].key => i = j
      BY DEF IsQueue, Indices
    <3> QED BY <2>3, <2>5, <2>6, <2>7, <3>1
  <2>9. IsQueue(new)
    BY <2>3, <2>5, <2>8 DEF IsQueue
  <2>10. KeysOf(new) = KeysOf(q) \cup {entry.key}
    <3>1. \A x \in KeysOf(new) : x \in KeysOf(q) \cup {entry.key}
      <4> SUFFICES ASSUME NEW i \in Indices(new)
                   PROVE  new.entries[i].key \in KeysOf(q) \cup {entry.key}
        BY DEF KeysOf
      <4> QED BY <2>3, <2>5, <2>7 DEF KeysOf, Indices
    <3>2. n + 1 \in Indices(new) /\ \A i \in 1 .. n : i \in Indices(new)
      BY <2>2, <2>3, <2>5 DEF Indices
    <3>3. entry.key \in KeysOf(new)
      BY <2>3, <2>5, <3>2 DEF KeysOf
    <3>4. \A x \in KeysOf(q) : x \in KeysOf(new)
      <4> SUFFICES ASSUME NEW i \in 1 .. n PROVE q.entries[i].key \in KeysOf(new)
        BY DEF KeysOf, Indices
      <4> QED BY <2>3, <2>5, <3>2 DEF KeysOf
    <3> QED BY <3>1, <3>3, <3>4
  <2> QED BY <2>1, <2>5, <2>9, <2>10
<1> QED BY <1>2, <1>3

LEMMA NewQueue == IsQueue(New) /\ KeysOf(New) = {} /\ New.last_pending_reported = {}
<1>1. New.entries \in Seq(EntryType) /\ Len(New.entries) = 0
  BY DEF New
<1> QED BY <1>1 DEF New, IsQueue, KeysOf, Indices

LEMMA RemoveKeys ==
  ASSUME NEW q, IsQueue(q), NEW key
  PROVE  /\ IsQueue(Remove(q, key)) /\ KeysOf(Remove(q, key)) = KeysOf(q) \ {key}
         /\ Remove(q, key).last_pending_reported = q.last_pending_reported
<1>1. CASE Positions(q, key) # {}
  <2> DEFINE i == CHOOSE i \in Positions(q, key) : TRUE
  <2>1. i \in Indices(q) /\ q.entries[i].key = key
    BY <1>1 DEF Positions, Indices
  <2>2. Remove(q, key) = Drop(q, i)
    BY <1>1 DEF Remove, Contains
  <2> HIDE DEF i
  <2> QED BY <2>1, <2>2, DropKeys
<1>2. CASE Positions(q, key) = {}
  <2>1. Remove(q, key) = q
    BY <1>2 DEF Remove, Contains
  <2>2. key \notin KeysOf(q)
    BY <1>2 DEF Positions, KeysOf, Indices
  <2> QED BY <2>1, <2>2
<1> QED BY <1>1, <1>2

LEMMA SettleSame ==
  ASSUME NEW q, IsQueue(q), q.entries # <<>>
  PROVE  Same(Settle(q), q)
<1>1. CASE AckTimedOut(q)
  <2>1. Settle(q) = BackToIdle(q)
    BY <1>1 DEF Settle, AckTimedOut
  <2> QED BY <2>1, BackToIdleSame
<1>2. CASE ~AckTimedOut(q) /\ q.state.tag = "Idle"
  <2>1. Settle(q) = [q EXCEPT !.state = Idle(FALSE)]
    BY <1>2 DEF Settle
  <2> QED BY <2>1, WithState
<1>3. CASE ~AckTimedOut(q) /\ q.state.tag # "Idle"
  <2>1. Settle(q) = q
    BY <1>3 DEF Settle
  <2> QED BY <2>1, SameItself
<1> QED BY <1>1, <1>2, <1>3

\* What a poll leaves in the queue, by the action it returns.
Polled(new, action, q) ==
  /\ IsQueue(new)
  /\ \/ /\ action.type = "ReportResult" /\ action.key \in KeysOf(q)
        /\ KeysOf(new) = KeysOf(q) \ {action.key}
        /\ new.last_pending_reported = q.last_pending_reported
     \/ /\ action = Empty /\ KeysOf(q) = {} /\ KeysOf(new) = {}
        /\ new.last_pending_reported = q.last_pending_reported
        /\ q.last_pending_reported = {FALSE}
     \/ /\ action.type = "SetPending" /\ action.pending \in BOOLEAN
        /\ KeysOf(new) = KeysOf(q) /\ new.last_pending_reported = {action.pending}
     \/ /\ action.type \in {"SendFrame", "Pending"}
        /\ KeysOf(new) = KeysOf(q)
        /\ new.last_pending_reported = q.last_pending_reported
        /\ UpToDate(new)

LEMMA SameUpToDate ==
  ASSUME NEW q, IsQueue(q), UpToDate(q), NEW new, Same(new, q)
  PROVE  UpToDate(new)
<1>1. /\ ShouldBePending(new) <=> ShouldBePending(q)
      /\ new.last_pending_reported = q.last_pending_reported
  BY SameQueue
<1>2. ShouldBePending(new) \in BOOLEAN /\ ShouldBePending(q) \in BOOLEAN
  BY DEF ShouldBePending
<1>3. ShouldBePending(new) = ShouldBePending(q)
  BY <1>1, <1>2
<1> QED BY <1>1, <1>3 DEF UpToDate

LEMMA Expires ==
  ASSUME NEW q, IsQueue(q), UpToDate(q)
  PROVE  Polled(ExpireOrWait(q).queue, ExpireOrWait(q).action, q)
<1>1. CASE Expired(q) = {}
  <2>1. ExpireOrWait(q) = [queue |-> q, action |-> Pending]
    BY <1>1 DEF ExpireOrWait
  <2>2. ExpireOrWait(q).queue = q /\ ExpireOrWait(q).action.type = "Pending"
    BY <2>1 DEF Pending
  <2> QED BY <2>2 DEF Polled
<1>2. CASE Expired(q) # {}
  <2> DEFINE i == FirstExpired(q)
             action == ReportResult(q.entries[i].key, Err("TransactionExpired"))
  <2>1. i \in Indices(q)
    <3>1. Expired(q) \subseteq Indices(q) /\ Expired(q) \in SUBSET Nat
      BY EntriesOf DEF Expired, Indices
    <3>2. \E j \in Expired(q) : \A m \in Expired(q) : j <= m
      BY <1>2, <3>1, LeastElementExists
    <3>3. FirstExpired(q) \in Expired(q)
      BY <3>2 DEF FirstExpired
    <3> QED BY <3>1, <3>3
  <2>2. ExpireOrWait(q) = [queue |-> Drop(q, i), action |-> action]
    BY <1>2 DEF ExpireOrWait
  <2>3. action.type = "ReportResult" /\ action.key = q.entries[i].key
    BY DEF ReportResult
  <2> HIDE DEF i, action
  <2>4. ExpireOrWait(q).queue = Drop(q, i) /\ ExpireOrWait(q).action = action
    BY <2>2
  <2>5. q.entries[i].key \in KeysOf(q)
    BY <2>1 DEF KeysOf
  <2>6. /\ IsQueue(Drop(q, i)) /\ KeysOf(Drop(q, i)) = KeysOf(q) \ {q.entries[i].key}
        /\ Drop(q, i).last_pending_reported = q.last_pending_reported
    BY <2>1, DropKeys
  <2>7. Polled(Drop(q, i), action, q)
    BY <2>3, <2>5, <2>6 DEF Polled
  <2> QED BY <2>4, <2>7
<1> QED BY <1>1, <1>2

LEMMA PolledSame ==
  ASSUME NEW q, IsQueue(q), UpToDate(q), NEW settled, Same(settled, q),
         NEW new, NEW action, Polled(new, action, settled)
  PROVE  Polled(new, action, q)
<1>1. KeysOf(settled) = KeysOf(q) /\ settled.last_pending_reported = q.last_pending_reported
  BY SameQueue
<1> QED BY <1>1 DEF Polled

LEMMA Delivers ==
  ASSUME NEW q, IsQueue(q), q.entries # <<>>, NEW result
  PROVE  Polled(Drop(q, 1), ReportResult(q.entries[1].key, result), q)
<1> DEFINE action == ReportResult(q.entries[1].key, result)
<1>1. action.type = "ReportResult" /\ action.key = q.entries[1].key
  BY DEF ReportResult
<1>2. 1 \in Indices(q) /\ q.entries[1].key \in KeysOf(q)
  BY EntriesOf DEF KeysOf
<1> HIDE DEF action
<1>3. /\ IsQueue(Drop(q, 1)) /\ KeysOf(Drop(q, 1)) = KeysOf(q) \ {q.entries[1].key}
      /\ Drop(q, 1).last_pending_reported = q.last_pending_reported
  BY <1>2, DropKeys
<1>4. Polled(Drop(q, 1), action, q)
  BY <1>1, <1>2, <1>3 DEF Polled
<1> QED BY <1>4 DEF action

LEMMA PollShape ==
  ASSUME NEW q, IsQueue(q), NEW send_key, NEW seq
  PROVE  LET polled == PollNextAction(q, send_key, seq) IN
         Polled(polled.queue, polled.action, q)
<1> DEFINE polled == PollNextAction(q, send_key, seq)
           pending == ShouldBePending(q)
<1>1. pending \in BOOLEAN
  BY DEF ShouldBePending
<1>2. CASE ~UpToDate(q)
  <2> DEFINE new == [q EXCEPT !.last_pending_reported = {pending}]
             action == SetPending(pending)
  <2>1. polled = [queue |-> new, action |-> action]
    BY <1>2 DEF PollNextAction, UpToDate, PollSetPending, RememberReported
  <2>2. q = [state |-> q.state, last_pending_reported |-> q.last_pending_reported,
             entries |-> q.entries]
    BY DEF IsQueue
  <2>3. action.type = "SetPending" /\ action.pending = pending
    BY <1>1 DEF SetPending
  <2> HIDE DEF pending, action
  <2>4. new = [state |-> q.state, last_pending_reported |-> {pending}, entries |-> q.entries]
    BY <2>2
  <2> HIDE DEF new
  <2>5. /\ new.entries = q.entries /\ new.last_pending_reported = {pending}
        /\ new = [state |-> new.state, last_pending_reported |-> new.last_pending_reported,
                  entries |-> new.entries]
    BY <2>4
  <2>6. IsQueue(new) /\ KeysOf(new) = KeysOf(q)
    BY <1>1, <2>5 DEF IsQueue, KeysOf, Indices
  <2>7. polled.queue = new /\ polled.action = action
    BY <2>1
  <2> HIDE DEF polled
  <2>8. action.pending \in BOOLEAN /\ new.last_pending_reported = {action.pending}
    BY <1>1, <2>3, <2>5
  <2>9. Polled(new, action, q)
    BY <2>3, <2>6, <2>8 DEF Polled
  <2>10. Polled(polled.queue, polled.action, q)
    BY <2>7, <2>9
  <2> QED BY <2>10 DEF polled
<1>3. CASE UpToDate(q) /\ q.entries = <<>>
  <2> DEFINE new == [q EXCEPT !.state = Idle(FALSE)]
  <2>1. polled = [queue |-> new, action |-> Empty]
    BY <1>3 DEF PollNextAction, UpToDate, PollEmpty
  <2>2. Same(new, q)
    BY WithState
  <2> HIDE DEF new
  <2>3. IsQueue(new) /\ KeysOf(new) = KeysOf(q)
        /\ new.last_pending_reported = q.last_pending_reported
    BY <2>2, SameQueue
  <2>4. KeysOf(q) = {} /\ q.last_pending_reported = {FALSE}
    <3>1. Indices(q) = {}
      BY <1>3 DEF Indices
    <3>2. pending = FALSE
      BY <1>3 DEF ShouldBePending
    <3> QED BY <1>3, <3>1, <3>2 DEF KeysOf, UpToDate
  <2>5. polled.queue = new /\ polled.action = Empty
    BY <2>1
  <2> HIDE DEF polled
  <2>6. Polled(polled.queue, polled.action, q)
    BY <2>3, <2>4, <2>5 DEF Polled
  <2> QED BY <2>6 DEF polled
<1>4. CASE UpToDate(q) /\ q.entries # <<>>
  <2>1. polled = PollEntries(q, send_key, seq)
    BY <1>4 DEF PollNextAction, UpToDate
  <2>2. CASE ShouldSend(q)
    <3> DEFINE state == Sending(send_key, IF q.entries[1].acknowledge_request THEN {seq} ELSE {},
                                NoPayload)
               new == [q EXCEPT !.state = state]
               action == SendFrame(send_key, q.entries[1].key, seq, MorePending(q))
    <3>1. polled = [queue |-> new, action |-> action]
      BY <2>1, <2>2 DEF PollEntries, ShouldSend, AckTimedOut
    <3>2. action.type = "SendFrame"
      BY DEF SendFrame
    <3> HIDE DEF state, action
    <3>3. Same(new, q)
      BY WithState
    <3> HIDE DEF new
    <3>4. IsQueue(new) /\ KeysOf(new) = KeysOf(q) /\ UpToDate(new)
          /\ new.last_pending_reported = q.last_pending_reported
      BY <1>4, <3>3, SameQueue, SameUpToDate
    <3>5. polled.queue = new /\ polled.action = action
      BY <3>1
    <3> HIDE DEF polled
    <3>6. Polled(polled.queue, polled.action, q)
      BY <3>2, <3>4, <3>5 DEF Polled
    <3> QED BY <3>6 DEF polled
  <2>3. CASE ~ShouldSend(q) /\ q.state.tag = "HaveResult"
    <3>1. polled = [queue |-> Drop(q, 1),
                    action |-> ReportResult(q.entries[1].key, q.state.result)]
      BY <2>1, <2>3 DEF PollEntries, AckTimedOut
    <3>2. polled.queue = Drop(q, 1)
          /\ polled.action = ReportResult(q.entries[1].key, q.state.result)
      BY <3>1
    <3>3. Polled(polled.queue, polled.action, q)
      BY <1>4, <3>2, Delivers
    <3> QED BY <3>3
  <2>4. CASE ~ShouldSend(q) /\ AckTimedOut(q) /\ ~CanRetry(q)
    <3>1. polled = [queue |-> Drop(q, 1),
                    action |-> ReportResult(q.entries[1].key, Err("NoAck"))]
      BY <2>1, <2>4 DEF PollEntries, AckTimedOut
    <3>2. polled.queue = Drop(q, 1)
          /\ polled.action = ReportResult(q.entries[1].key, Err("NoAck"))
      BY <3>1
    <3>3. Polled(polled.queue, polled.action, q)
      BY <1>4, <3>2, Delivers
    <3> QED BY <3>3
  <2>5. CASE ~ShouldSend(q) /\ q.state.tag # "HaveResult" /\ ~(AckTimedOut(q) /\ ~CanRetry(q))
    <3>1. polled = ExpireOrWait(Settle(q))
      BY <2>1, <2>5 DEF PollEntries
    <3>2. Same(Settle(q), q)
      BY <1>4, SettleSame
    <3>3. IsQueue(Settle(q)) /\ UpToDate(Settle(q))
      BY <1>4, <3>2, SameQueue, SameUpToDate
    <3>4. Polled(polled.queue, polled.action, Settle(q))
      BY <3>1, <3>3, Expires
    <3> QED BY <1>4, <3>2, <3>4, PolledSame
  <2> QED BY <2>2, <2>3, <2>4, <2>5
<1> QED BY <1>2, <1>3, <1>4

-----------------------------------------------------------------------------
(* What the operations on the tables do to the addresses that are marked.   *)
SameValues(new, t) == IsTable(new) /\ new.values = t.values

LEMMA TableFields ==
  ASSUME NEW t, IsTable(t), NEW x
  PROVE  /\ SameValues([t EXCEPT !.table = x], t)
         /\ SameValues([t EXCEPT !.order = x], t)
         /\ SameValues([t EXCEPT !.updating = x], t)
         /\ IsTable([t EXCEPT !.values = x]) /\ [t EXCEPT !.values = x].values = x
         /\ [t EXCEPT !.values = x].table = t.table
<1>1. PICK v, a, o, u : t = [values |-> v, table |-> a, order |-> o, updating |-> u]
  BY DEF IsTable
<1>2. SameValues([t EXCEPT !.table = x], t)
  <2> DEFINE new == [t EXCEPT !.table = x]
  <2>1. new = [values |-> v, table |-> x, order |-> o, updating |-> u]
    BY <1>1
  <2> HIDE DEF new
  <2>2. SameValues(new, t)
    BY <1>1, <2>1 DEF SameValues, IsTable
  <2> QED BY <2>2 DEF new
<1>3. SameValues([t EXCEPT !.order = x], t)
  <2> DEFINE new == [t EXCEPT !.order = x]
  <2>1. new = [values |-> v, table |-> a, order |-> x, updating |-> u]
    BY <1>1
  <2> HIDE DEF new
  <2>2. SameValues(new, t)
    BY <1>1, <2>1 DEF SameValues, IsTable
  <2> QED BY <2>2 DEF new
<1>4. SameValues([t EXCEPT !.updating = x], t)
  <2> DEFINE new == [t EXCEPT !.updating = x]
  <2>1. new = [values |-> v, table |-> a, order |-> o, updating |-> x]
    BY <1>1
  <2> HIDE DEF new
  <2>2. SameValues(new, t)
    BY <1>1, <2>1 DEF SameValues, IsTable
  <2> QED BY <2>2 DEF new
<1>5. /\ IsTable([t EXCEPT !.values = x]) /\ [t EXCEPT !.values = x].values = x
      /\ [t EXCEPT !.values = x].table = t.table
  <2> DEFINE new == [t EXCEPT !.values = x]
  <2>1. new = [values |-> x, table |-> a, order |-> o, updating |-> u]
    BY <1>1
  <2> HIDE DEF new
  <2>2. IsTable(new) /\ new.values = x /\ new.table = t.table
    BY <1>1, <2>1 DEF IsTable
  <2> QED BY <2>2 DEF new
<1> QED BY <1>2, <1>3, <1>4, <1>5

\* The same with two fields at once.
LEMMA TwoTableFields ==
  ASSUME NEW t, IsTable(t), NEW x, NEW y
  PROVE  /\ SameValues([t EXCEPT !.table = x, !.order = y], t)
         /\ SameValues([t EXCEPT !.table = x, !.updating = y], t)
         /\ SameValues([t EXCEPT !.updating = y, !.table = x], t)
<1> DEFINE a == [t EXCEPT !.table = x]
           b == [t EXCEPT !.updating = y]
<1>1. /\ [t EXCEPT !.table = x, !.order = y] = [a EXCEPT !.order = y]
      /\ [t EXCEPT !.table = x, !.updating = y] = [a EXCEPT !.updating = y]
      /\ [t EXCEPT !.updating = y, !.table = x] = [b EXCEPT !.table = x]
  OBVIOUS
<1>2. SameValues(a, t) /\ SameValues(b, t)
  BY TableFields
<1> HIDE DEF a, b
<1>3. /\ SameValues([a EXCEPT !.order = y], a)
      /\ SameValues([a EXCEPT !.updating = y], a)
      /\ SameValues([b EXCEPT !.table = x], b)
  BY <1>2, TableFields DEF SameValues
<1> QED BY <1>1, <1>2, <1>3 DEF SameValues

LEMMA OverwriteValues ==
  ASSUME NEW t, IsTable(t), NEW index, NEW value
  PROVE  SameValues(Overwrite(t, index, value), t)
<1> DEFINE x == [t.table EXCEPT ![index] = NewEntry(value)]
           y == PromoteIndex(t.order, index)
<1>1. Overwrite(t, index, value) = [t EXCEPT !.table = x, !.order = y]
  BY DEF Overwrite, IsTable
<1> HIDE DEF x, y
<1>2. SameValues([t EXCEPT !.table = x, !.order = y], t)
  BY TwoTableFields, Zenon
<1> QED BY <1>1, <1>2

LEMMA FreeSlotValues ==
  ASSUME NEW t, IsTable(t), NEW index
  PROVE  SameValues(FreeSlot(t, index), t)
<1> DEFINE x == [t.table EXCEPT ![index] = Default]
           y == DemoteIndex(t.order, index)
<1>1. FreeSlot(t, index) = [t EXCEPT !.table = x, !.order = y]
  BY DEF FreeSlot, IsTable
<1> HIDE DEF x, y
<1>2. SameValues([t EXCEPT !.table = x, !.order = y], t)
  BY TwoTableFields, Zenon
<1> QED BY <1>1, <1>2

LEMMA PromoteValues ==
  ASSUME NEW t, IsTable(t), NEW value
  PROVE  SameValues(Promote(t, value), t)
<1>1. CASE value \notin t.values
  <2>1. Promote(t, value) = t
    BY <1>1 DEF Promote
  <2> QED BY <2>1 DEF SameValues
<1>2. CASE value \in t.values /\ SlotsOf(t, value) # {}
  <2> DEFINE y == PromoteIndex(t.order, GetIndex(t, value))
  <2>1. Promote(t, value) = [t EXCEPT !.order = y]
    BY <1>2 DEF Promote, IsTable
  <2> HIDE DEF y
  <2> QED BY <2>1, TableFields
<1>3. CASE value \in t.values /\ SlotsOf(t, value) = {}
  <2>1. Promote(t, value) = Overwrite(t, t.order[1], value)
    BY <1>3 DEF Promote
  <2> QED BY <2>1, OverwriteValues
<1> QED BY <1>1, <1>2, <1>3

LEMMA SetValueValues ==
  ASSUME NEW t, IsTable(t), NEW value, NEW inserted \in BOOLEAN
  PROVE  /\ IsTable(SetValue(t, value, inserted))
         /\ SetValue(t, value, inserted).values =
              IF inserted THEN t.values \cup {value} ELSE t.values \ {value}
<1>1. CASE inserted
  <2> DEFINE x == t.values \cup {value}
             more == [t EXCEPT !.values = x]
  <2>1. SetValue(t, value, inserted) = Promote(more, value)
    BY <1>1 DEF SetValue, InsertValue, IsTable
  <2>2. IsTable(more) /\ more.values = x
    <3> HIDE DEF x
    <3> QED BY TableFields
  <2> HIDE DEF more
  <2>3. SameValues(Promote(more, value), more)
    BY <2>2, PromoteValues
  <2> QED BY <1>1, <2>1, <2>2, <2>3 DEF SameValues
<1>2. CASE ~inserted
  <2> DEFINE x == t.values \ {value}
             left == [t EXCEPT !.values = x]
             index == GetIndex(t, value)
  <2>1. SetValue(t, value, inserted) = left \/ SetValue(t, value, inserted) = FreeSlot(left, index)
    BY <1>2 DEF SetValue, RemoveValue, IsTable
  <2>2. IsTable(left) /\ left.values = x
    <3> HIDE DEF x
    <3> QED BY TableFields
  <2> HIDE DEF left, index
  <2>3. SameValues(FreeSlot(left, index), left)
    BY <2>2, FreeSlotValues
  <2> QED BY <1>2, <2>1, <2>2, <2>3 DEF SameValues
<1> QED BY <1>1, <1>2

LEMMA AssumeEmptyValues ==
  ASSUME NEW t, IsTable(t)
  PROVE  SameValues(AssumeEmpty(t), t)
<1> DEFINE x == [i \in DOMAIN t.table |-> [dirty |-> t.table[i].value # {},
                                          value |-> t.table[i].value]]
<1>1. AssumeEmpty(t) = [t EXCEPT !.table = x]
  BY DEF AssumeEmpty, IsTable
<1> HIDE DEF x
<1> QED BY <1>1, TableFields

LEMMA StartUpdateValues ==
  ASSUME NEW t, IsTable(t), NEW token
  PROVE  SameValues(StartUpdate(t, token), t)
<1> DEFINE x == [t.table EXCEPT ![FirstDirty(t)].dirty = FALSE]
           y == {<<token, FirstDirty(t)>>}
<1>1. StartUpdate(t, token) = [t EXCEPT !.table = x, !.updating = y]
  BY DEF StartUpdate, IsTable
<1> HIDE DEF x, y
<1>2. SameValues([t EXCEPT !.table = x, !.updating = y], t)
  BY TwoTableFields, Zenon
<1> QED BY <1>1, <1>2

LEMMA ReportUpdateValues ==
  ASSUME NEW t, IsTable(t), NEW token, NEW result \in BOOLEAN
  PROVE  SameValues(ReportUpdateResult(t, token, result), t)
<1> DEFINE x == [i \in DOMAIN t.table |->
                   IF <<token, i>> \in t.updating /\ ~result
                   THEN [t.table[i] EXCEPT !.dirty = TRUE] ELSE t.table[i]]
           y == {}
<1>1. \/ ReportUpdateResult(t, token, result) = t
      \/ ReportUpdateResult(t, token, result) = [t EXCEPT !.updating = y, !.table = x]
  BY DEF ReportUpdateResult, IsTable
<1> HIDE DEF x, y
<1>2. SameValues([t EXCEPT !.updating = y, !.table = x], t)
  BY TwoTableFields, Zenon
<1> QED BY <1>1, <1>2 DEF SameValues

SameMarks(new, c) ==
  IsTables(new) /\ new.none = c.none /\ new.short.values = c.short.values

LEMMA TablesFields ==
  ASSUME NEW c, IsTables(c), NEW x
  PROVE  /\ SameMarks([c EXCEPT !.initializing = x], c)
         /\ SameMarks([c EXCEPT !.is_initialized = x], c)
         /\ IsTable(x) => SameMarks([c EXCEPT !.extended = x], c)
<1>1. PICK a, b, n, s, e : c = [initializing |-> a, is_initialized |-> b, none |-> n,
                                short |-> s, extended |-> e]
  BY DEF IsTables
<1>2. n \in BOOLEAN /\ IsTable(s) /\ IsTable(e)
  BY <1>1 DEF IsTables
<1>3. SameMarks([c EXCEPT !.initializing = x], c)
  <2> DEFINE new == [c EXCEPT !.initializing = x]
  <2>1. new = [initializing |-> x, is_initialized |-> b,
                none |-> n, short |-> s, extended |-> e]
    BY <1>1
  <2> HIDE DEF new
  <2>2. SameMarks(new, c)
    BY <1>1, <1>2, <2>1 DEF SameMarks, IsTables
  <2> QED BY <2>2 DEF new
<1>4. SameMarks([c EXCEPT !.is_initialized = x], c)
  <2> DEFINE new == [c EXCEPT !.is_initialized = x]
  <2>1. new = [initializing |-> a, is_initialized |-> x, 
                none |-> n, short |-> s, extended |-> e]
    BY <1>1
  <2> HIDE DEF new
  <2>2. SameMarks(new, c)
    BY <1>1, <1>2, <2>1 DEF SameMarks, IsTables
  <2> QED BY <2>2 DEF new
<1>5. IsTable(x) => SameMarks([c EXCEPT !.extended = x], c)
  <2> DEFINE new == [c EXCEPT !.extended = x]
  <2>1. new = [initializing |-> a, is_initialized |-> b,
                none |-> n, short |-> s, extended |-> x]
    BY <1>1
  <2> HIDE DEF new
  <2>2. IsTable(x) => SameMarks(new, c)
    BY <1>1, <1>2, <2>1 DEF SameMarks, IsTables
  <2> QED BY <2>2 DEF new
<1> QED BY <1>3, <1>4, <1>5

LEMMA WithShort ==
  ASSUME NEW c, IsTables(c), NEW x, IsTable(x), NEW d, d = [c EXCEPT !.short = x]
  PROVE  IsTables(d) /\ d.none = c.none /\ d.short = x
<1>1. PICK a, b, n, s, e : c = [initializing |-> a, is_initialized |-> b, none |-> n,
                                short |-> s, extended |-> e]
  BY DEF IsTables
<1>2. n \in BOOLEAN /\ IsTable(s) /\ IsTable(e)
  BY <1>1 DEF IsTables
<1>3. d = [initializing |-> a, is_initialized |-> b, none |-> n, short |-> x,
           extended |-> e]
  BY <1>1
<1> QED BY <1>1, <1>2, <1>3 DEF IsTables

LEMMA WithNone ==
  ASSUME NEW c, IsTables(c), NEW x \in BOOLEAN, NEW d, d = [c EXCEPT !.none = x]
  PROVE  IsTables(d) /\ d.none = x /\ d.short = c.short
<1>1. PICK a, b, n, s, e : c = [initializing |-> a, is_initialized |-> b, none |-> n,
                                short |-> s, extended |-> e]
  BY DEF IsTables
<1>2. n \in BOOLEAN /\ IsTable(s) /\ IsTable(e)
  BY <1>1 DEF IsTables
<1>3. d = [initializing |-> a, is_initialized |-> b, none |-> x, short |-> s,
           extended |-> e]
  BY <1>1
<1> QED BY <1>1, <1>2, <1>3 DEF IsTables

LEMMA SameMarksTrans ==
  ASSUME NEW c, NEW d, NEW e, SameMarks(d, c), SameMarks(e, d)
  PROVE  SameMarks(e, c)
  BY DEF SameMarks

LEMMA WithTables ==
  ASSUME NEW c, IsTables(c), NEW x, SameValues(x, c.short), NEW y, SameValues(y, c.extended)
  PROVE  /\ SameMarks([c EXCEPT !.short = x], c)
         /\ SameMarks([c EXCEPT !.short = x, !.extended = y], c)
<1> DEFINE d == [c EXCEPT !.short = x]
           e == [d EXCEPT !.extended = y]
<1>1. [c EXCEPT !.short = x, !.extended = y] = e
  OBVIOUS
<1>2. IsTable(x) /\ x.values = c.short.values /\ IsTable(y)
  BY DEF SameValues
<1>0. d = [c EXCEPT !.short = x]
  OBVIOUS
<1> HIDE DEF d
<1>3. IsTables(d) /\ d.none = c.none /\ d.short = x
  BY <1>0, <1>2, WithShort
<1>4. SameMarks(d, c)
  BY <1>2, <1>3 DEF SameMarks
<1>5. SameMarks(e, d)
  BY <1>2, <1>3, TablesFields
<1> HIDE DEF e
<1>6. SameMarks(e, c)
  BY <1>4, <1>5, SameMarksTrans
<1> QED BY <1>1, <1>4, <1>6 DEF d

LEMMA ReportTablesMarks ==
  ASSUME NEW c, IsTables(c), NEW key, NEW ok \in BOOLEAN
  PROVE  SameMarks(ReportTablesResult(c, key, ok), c)
<1> DEFINE x == ReportUpdateResult(c.short, key, ok)
           y == ReportUpdateResult(c.extended, key, ok)
<1>1. ReportTablesResult(c, key, ok) = [c EXCEPT !.short = x, !.extended = y]
  BY DEF ReportTablesResult, IsTables
<1>2. SameValues(x, c.short) /\ SameValues(y, c.extended)
  BY ReportUpdateValues DEF IsTables
<1> HIDE DEF x, y
<1>3. SameMarks([c EXCEPT !.short = x, !.extended = y], c)
  BY <1>2, WithTables, Zenon
<1> QED BY <1>1, <1>3

LEMMA ReportInitMarks ==
  ASSUME NEW c, IsTables(c), NEW key, NEW ok \in BOOLEAN
  PROVE  SameMarks(ReportInitResult(c, key, ok), c)
<1> DEFINE x == IF ok THEN AssumeEmpty(c.short) ELSE c.short
           y == IF ok THEN AssumeEmpty(c.extended) ELSE c.extended
           d == [c EXCEPT !.initializing = {}]
           e == [d EXCEPT !.is_initialized = ok]
           f == [e EXCEPT !.short = x, !.extended = y]
<1>1. ReportInitResult(c, key, ok) = c \/ ReportInitResult(c, key, ok) = f
  BY DEF ReportInitResult, IsTables
<1>2. SameMarks(c, c)
  BY DEF SameMarks
<1>3. SameValues(x, c.short) /\ SameValues(y, c.extended)
  BY AssumeEmptyValues DEF SameValues, IsTables
<1>4. SameMarks(d, c) /\ d.short = c.short /\ d.extended = c.extended
  BY TablesFields DEF IsTables
<1> HIDE DEF x, y, d
<1>5. SameMarks(e, d) /\ e.short = d.short /\ e.extended = d.extended
  <2>1. IsTables(d)
    BY <1>4 DEF SameMarks
  <2> QED BY <2>1, TablesFields DEF IsTables
<1> HIDE DEF e
<1>6. SameMarks(f, e)
  <2>1. IsTables(e) /\ SameValues(x, e.short) /\ SameValues(y, e.extended)
    BY <1>3, <1>4, <1>5 DEF SameMarks
  <2> QED BY <2>1, WithTables, Zenon
<1> HIDE DEF f
<1>7. SameMarks(f, c)
  BY <1>4, <1>5, <1>6, SameMarksTrans
<1> QED BY <1>1, <1>2, <1>7

LEMMA PollTablesMarks ==
  ASSUME NEW c, IsTables(c), NEW key
  PROVE  SameMarks(PollTables(c, key).tables, c)
<1> DEFINE x == StartUpdate(c.short, key)
           y == StartUpdate(c.extended, key)
           i == {key}
<1>1. \/ PollTables(c, key).tables = c
      \/ PollTables(c, key).tables = [c EXCEPT !.initializing = i]
      \/ PollTables(c, key).tables = [c EXCEPT !.short = x]
      \/ PollTables(c, key).tables = [c EXCEPT !.extended = y]
  BY DEF PollTables, StartInit, PollUpdates, IsTables
<1>2. SameValues(x, c.short) /\ SameValues(y, c.extended)
  BY StartUpdateValues DEF IsTables
<1> HIDE DEF x, y, i
<1>3. SameMarks([c EXCEPT !.initializing = i], c)
  BY TablesFields
<1>4. SameMarks([c EXCEPT !.short = x], c)
  BY <1>2, WithTables, Zenon
<1>5. SameMarks([c EXCEPT !.extended = y], c)
  BY <1>2, TablesFields DEF SameValues
<1>6. SameMarks(c, c)
  BY DEF SameMarks
<1> QED BY <1>1, <1>3, <1>4, <1>5, <1>6

LEMMA NewTablesMarks ==
  ASSUME NEW size
  PROVE  /\ IsTables(NewTables(size)) /\ ~NewTables(size).none
         /\ NewTables(size).short.values = {}
<1> DEFINE t == NewTable(size)
           c == NewTables(size)
<1>1. IsTable(t) /\ t.values = {}
  BY DEF NewTable, IsTable
<1>2. c = [initializing |-> {}, is_initialized |-> FALSE, none |-> FALSE, short |-> t,
           extended |-> t]
  BY DEF NewTables
<1> HIDE DEF t, c
<1>3. c.none = FALSE /\ c.short = t /\ c.extended = t
  BY <1>2
<1>4. IsTables(c)
  BY <1>1, <1>2, <1>3 DEF IsTables
<1> QED BY <1>1, <1>3, <1>4 DEF c

LEMMA Addresses ==
  ASSUME NEW d \in Destinations
  PROVE  \/ d.mode = "None" /\ d = NoAddress
         \/ d.mode = "Short" /\ d = Short(d.pan_id, d.address)
         \/ d.mode = "Extended"
<1>1. d = NoAddress \/ d = Short(d.pan_id, d.address) \/ d = Extended(d.pan_id, d.address)
  BY DataServiceAssumption
<1>2. NoAddress.mode = "None"
  BY DEF NoAddress
<1>3. \A p, a : Short(p, a).mode = "Short" /\ Extended(p, a).mode = "Extended"
  BY DEF Short, Extended
<1> QED BY <1>1, <1>2, <1>3

LEMMA SetAddressMarks ==
  ASSUME NEW c, IsTables(c), NEW a \in Destinations, NEW inserted \in BOOLEAN
  PROVE  LET new == SetAddress(c, a, inserted) IN
         /\ IsTables(new)
         /\ \A d \in Destinations : d.mode # "Extended" =>
              (IsMarked(new, d) <=> IF d = a THEN inserted ELSE IsMarked(c, d))
<1> DEFINE new == SetAddress(c, a, inserted)
<1>1. CASE a.mode = "None"
  <2>1. new = [c EXCEPT !.none = inserted]
    BY <1>1 DEF SetAddress, IsTables
  <2> HIDE DEF new
  <2>2. IsTables(new) /\ new.none = inserted /\ new.short = c.short
    BY <2>1, WithNone
  <2>3. ASSUME NEW d \in Destinations, d.mode # "Extended"
        PROVE  IsMarked(new, d) <=> IF d = a THEN inserted ELSE IsMarked(c, d)
    <3>1. CASE d.mode = "None"
      <4>1. d = a
        BY <1>1, <3>1, Addresses
      <4>2. IsMarked(new, d) <=> inserted
        BY <2>2, <3>1 DEF IsMarked
      <4> QED BY <4>1, <4>2
    <3>2. CASE d.mode # "None"
      <4>1. d # a /\ (IsMarked(new, d) <=> IsMarked(c, d))
        BY <1>1, <2>2, <3>2 DEF IsMarked
      <4> QED BY <4>1
    <3> QED BY <3>1, <3>2
  <2> QED BY <2>2, <2>3 DEF new
<1>2. CASE a.mode = "Short"
  <2> DEFINE v == <<a.pan_id, a.address>>
             x == SetValue(c.short, v, inserted)
  <2>1. new = [c EXCEPT !.short = x]
    BY <1>2 DEF SetAddress, IsTables
  <2> HIDE DEF new
  <2>2. /\ IsTable(x)
        /\ x.values = IF inserted THEN c.short.values \cup {v} ELSE c.short.values \ {v}
    <3> HIDE DEF v
    <3>1. IsTable(c.short)
      BY DEF IsTables
    <3> QED BY <3>1, SetValueValues
  <2> HIDE DEF x
  <2>3. IsTables(new) /\ new.none = c.none /\ new.short = x
    BY <2>1, <2>2, WithShort
  <2>4. ASSUME NEW d \in Destinations, d.mode # "Extended"
        PROVE  IsMarked(new, d) <=> IF d = a THEN inserted ELSE IsMarked(c, d)
    <3>1. CASE d.mode = "None"
      <4>1. d # a /\ (IsMarked(new, d) <=> IsMarked(c, d))
        BY <1>2, <2>3, <3>1 DEF IsMarked
      <4> QED BY <4>1
    <3>2. CASE d.mode = "Short"
      <4> DEFINE w == <<d.pan_id, d.address>>
      <4>1. (IsMarked(new, d) <=> w \in x.values) /\ (IsMarked(c, d) <=> w \in c.short.values)
        BY <2>3, <3>2 DEF IsMarked
      <4>2. w = v => d = a
        <5>1. d = Short(d.pan_id, d.address) /\ a = Short(a.pan_id, a.address)
          BY <1>2, <3>2, Addresses
        <5>2. w = v => d.pan_id = a.pan_id /\ d.address = a.address
          OBVIOUS
        <5> QED BY <5>1, <5>2
      <4>3. d = a => w = v
        OBVIOUS
      <4> HIDE DEF v, w
      <4>4. CASE d = a
        BY <2>2, <4>1, <4>3, <4>4
      <4>5. CASE d # a
        BY <2>2, <4>1, <4>2, <4>5
      <4> QED BY <4>4, <4>5
    <3> QED BY <2>4, <3>1, <3>2, Addresses
  <2> QED BY <2>3, <2>4 DEF new
<1>3. CASE a.mode = "Extended"
  <2> DEFINE x == SetValue(c.extended, a.address, inserted)
  <2>1. new = [c EXCEPT !.extended = x]
    BY <1>3 DEF SetAddress, IsTables
  <2> HIDE DEF new
  <2>2. IsTable(x)
    BY SetValueValues DEF IsTables
  <2> HIDE DEF x
  <2>3. SameMarks(new, c)
    BY <2>1, <2>2, TablesFields
  <2>4. ASSUME NEW d \in Destinations, d.mode # "Extended"
        PROVE  IsMarked(new, d) <=> IF d = a THEN inserted ELSE IsMarked(c, d)
    BY <1>3, <2>3, <2>4 DEF IsMarked, SameMarks
  <2> QED BY <2>3, <2>4 DEF new, SameMarks
<1> QED BY <1>1, <1>2, <1>3, Addresses

-----------------------------------------------------------------------------
(* The parts of the invariant under the changes the actions make.           *)
LEMMA Woken ==
  ASSUME NEW qs
  PROVE  Quiet(qs, {}, FALSE)
  BY DEF Quiet

LEMMA MarksSame ==
  ASSUME NEW qs, NEW ts, Marks(qs, ts), NEW new, SameMarks(new, ts)
  PROVE  IsTables(new) /\ Marks(qs, new)
<1>1. \A d : IsMarked(new, d) <=> IsMarked(ts, d)
  BY DEF IsMarked, SameMarks
<1> QED BY <1>1 DEF Marks, SameMarks

LEMMA MarksKept ==
  ASSUME NEW qs, NEW ts, Marks(qs, ts), NEW new,
         \A d \in Destinations : Reported(new, d) <=> Reported(qs, d)
  PROVE  Marks(new, ts)
  BY DEF Marks

LEMMA QueuesSame ==
  ASSUME NEW qs, NEW rs, NEW os, Queues(qs, rs, os), NEW new, DOMAIN new = DOMAIN qs,
         \A d \in DOMAIN qs : Same(new[d], qs[d])
  PROVE  Queues(new, rs, os) /\ \A d \in Destinations : Reported(new, d) <=> Reported(qs, d)
<1>1. ASSUME NEW d \in DOMAIN qs
      PROVE  /\ IsQueue(new[d]) /\ KeysOf(new[d]) = KeysOf(qs[d])
             /\ new[d].last_pending_reported = qs[d].last_pending_reported
  BY <1>1, SameQueue DEF Queues
<1>2. Queues(new, rs, os)
  <2>1. DOMAIN new \subseteq Destinations
    BY DEF Queues
  <2>2. ASSUME NEW d \in DOMAIN new
        PROVE  /\ IsQueue(new[d])
               /\ \A k \in KeysOf(new[d]) : /\ k \in 1 .. Len(rs)
                                            /\ rs[k].destination = d
                                            /\ os[k] \in {"open", "none"}
    BY <1>1, <2>2 DEF Queues
  <2>3. ASSUME NEW k \in 1 .. Len(rs), os[k] = "open"
        PROVE  rs[k].destination \in DOMAIN new /\ k \in KeysOf(new[rs[k].destination])
    BY <1>1, <2>3 DEF Queues
  <2> QED BY <2>1, <2>2, <2>3 DEF Queues
<1>3. \A d \in Destinations : Reported(new, d) <=> Reported(qs, d)
  BY <1>1 DEF Reported
<1> QED BY <1>2, <1>3

\* The requests' keys are in one queue, that of their destination.
LEMMA OneQueue ==
  ASSUME NEW qs, NEW rs, NEW os, Queues(qs, rs, os), NEW d \in DOMAIN qs,
         NEW e \in DOMAIN qs, NEW k \in KeysOf(qs[d]), k \in KeysOf(qs[e])
  PROVE  d = e
  BY DEF Queues

\* A request is answered and leaves the queues.
LEMMA QueuesWithout ==
  ASSUME NEW qs, NEW rs, NEW os, Queues(qs, rs, os), NEW new, DOMAIN new = DOMAIN qs,
         NEW k \in 1 .. Len(rs), NEW os2, os2[k] # "open",
         \A j \in 1 .. Len(rs) : j # k => os2[j] = os[j],
         \A d \in DOMAIN qs : IsQueue(new[d]) /\ KeysOf(new[d]) = KeysOf(qs[d]) \ {k}
  PROVE  Queues(new, rs, os2)
<1>1. DOMAIN new \subseteq Destinations
  BY DEF Queues
<1>2. ASSUME NEW d \in DOMAIN new
      PROVE  /\ IsQueue(new[d])
             /\ \A j \in KeysOf(new[d]) : /\ j \in 1 .. Len(rs)
                                          /\ rs[j].destination = d
                                          /\ os2[j] \in {"open", "none"}
  <2> SUFFICES ASSUME NEW j \in KeysOf(new[d])
               PROVE  j \in 1 .. Len(rs) /\ rs[j].destination = d /\ os2[j] \in {"open", "none"}
    BY <1>2
  <2>1. j \in KeysOf(qs[d]) /\ j # k
    BY <1>2
  <2>2. j \in 1 .. Len(rs) /\ rs[j].destination = d /\ os[j] \in {"open", "none"}
    BY <1>2, <2>1 DEF Queues
  <2> QED BY <2>1, <2>2
<1>3. ASSUME NEW j \in 1 .. Len(rs), os2[j] = "open"
      PROVE  rs[j].destination \in DOMAIN new /\ j \in KeysOf(new[rs[j].destination])
  <2>1. j # k /\ os[j] = "open"
    BY <1>3
  <2>2. rs[j].destination \in DOMAIN qs /\ j \in KeysOf(qs[rs[j].destination])
    BY <2>1 DEF Queues
  <2> QED BY <2>1, <2>2
<1> QED BY <1>1, <1>2, <1>3 DEF Queues

\* An open request is answered.
Answers(os2, os, k) ==
  os[k] = "open" /\ \E o \in {"confirmed", "purged"} : os2 = [os EXCEPT ![k] = o]

LEMMA Answered ==
  ASSUME NEW rs, NEW os, Histories(rs, os), NEW hs, Handles(os, hs),
         NEW k \in 1 .. Len(rs), NEW os2, Answers(os2, os, k),
         NEW left, left = hs \ {[handle |-> k, key |-> k]}
  PROVE  /\ Histories(rs, os2) /\ Handles(os2, left)
         /\ os2[k] # "open" /\ \A j \in 1 .. Len(rs) : j # k => os2[j] = os[j]
<1> PICK o \in {"confirmed", "purged"} : os2 = [os EXCEPT ![k] = o]
  BY DEF Answers
<1>1. os \in Seq(Outcomes) /\ Len(os) = Len(rs) /\ k \in 1 .. Len(os) /\ o \in Outcomes
      /\ os[k] = "open"
  BY DEF Histories, Outcomes, Answers
<1>2. os2 \in Seq(Outcomes) /\ Len(os2) = Len(os)
  BY <1>1, ExceptSeq
<1>3. \A j \in 1 .. Len(rs) : os2[j] = IF j = k THEN o ELSE os[j]
  BY <1>1, ExceptSeq
<1>4. o # "open" /\ o # "none"
  OBVIOUS
<1>5. Histories(rs, os2)
  BY <1>1, <1>2, <1>3, <1>4 DEF Histories
<1>6. Handles(os2, left)
  <2> DEFINE mine(j) == [handle |-> j, key |-> j]
  <2>1. hs = {mine(j) : j \in {j \in 1 .. Len(os) : os[j] = "open"}}
    BY DEF Handles
  <2>2. \A j \in 1 .. Len(os) : os2[j] = "open" <=> os[j] = "open" /\ j # k
    BY <1>1, <1>3, <1>4
  <2>3. \A i, j : mine(i) = mine(j) => i = j
    OBVIOUS
  <2> HIDE DEF mine
  <2>4. hs \ {mine(k)} = {mine(j) : j \in {j \in 1 .. Len(os2) : os2[j] = "open"}}
    BY <1>2, <2>1, <2>2, <2>3
  <2> QED BY <2>4 DEF Handles, mine
<1> QED BY <1>1, <1>3, <1>4, <1>5, <1>6

LEMMA NoMessages == Messages(<<>>)
<1>1. Len(<<>>) = 0 /\ 1 .. 0 = {}
  OBVIOUS
<1> QED BY <1>1 DEF Messages

LEMMA MessagesSeq ==
  ASSUME NEW l, Messages(l)
  PROVE  l \in Seq({l[i] : i \in 1 .. Len(l)})
<1> DEFINE S == {l[i] : i \in 1 .. Len(l)}
<1>1. l \in [1 .. Len(l) -> S] /\ Len(l) \in Nat
  BY DEF Messages
<1> HIDE DEF S
<1>2. l \in Seq(S)
  BY <1>1
<1> QED BY <1>2 DEF S

LEMMA MessagesFrom ==
  ASSUME NEW S, NEW l \in Seq(S),
         \A i \in 1 .. Len(l) : l[i].type \in {"Init", "Update", "SendPacket"}
  PROVE  Messages(l)
  BY LenProperties DEF Messages

LEMMA MessagesAppend ==
  ASSUME NEW l, Messages(l), NEW e, e.type \in {"Init", "Update", "SendPacket"}
  PROVE  Messages(Append(l, e))
<1> DEFINE S == {l[i] : i \in 1 .. Len(l)}
           T == S \cup {e}
<1>1. l \in Seq(S) /\ Len(l) \in Nat
  BY MessagesSeq DEF Messages
<1> HIDE DEF S
<1>2. l \in Seq(T) /\ e \in T
  BY <1>1
<1> HIDE DEF T
<1>3. /\ Append(l, e) \in Seq(T) /\ Len(Append(l, e)) = Len(l) + 1
      /\ \A i \in 1 .. Len(l) : Append(l, e)[i] = l[i]
      /\ Append(l, e)[Len(l) + 1] = e
  BY <1>2, AppendProperties
<1>4. \A i \in 1 .. Len(Append(l, e)) : i \in 1 .. Len(l) \/ i = Len(l) + 1
  BY <1>1, <1>3
<1>5. \A i \in 1 .. Len(Append(l, e)) : Append(l, e)[i].type \in {"Init", "Update", "SendPacket"}
  BY <1>3, <1>4 DEF Messages
<1> QED BY <1>3, <1>5, MessagesFrom

LEMMA MessagesTail ==
  ASSUME NEW l, Messages(l), l # <<>>
  PROVE  Messages(Tail(l)) /\ Head(l).type \in {"Init", "Update", "SendPacket"}
<1> DEFINE S == {l[i] : i \in 1 .. Len(l)}
           t == Tail(l)
<1>1. l \in Seq(S) /\ Len(l) \in Nat
  BY MessagesSeq DEF Messages
<1> HIDE DEF S
<1>2. /\ t \in Seq(S) /\ Len(t) = Len(l) - 1 /\ Head(l) = l[1] /\ Len(l) # 0
      /\ \A i \in 1 .. Len(t) : t[i] = l[i + 1]
  BY <1>1, HeadTailProperties, EmptySeq
<1> HIDE DEF t
<1>3. 1 \in 1 .. Len(l) /\ \A i \in 1 .. Len(t) : i + 1 \in 1 .. Len(l)
  BY <1>1, <1>2
<1>4. \A i \in 1 .. Len(t) : t[i].type \in {"Init", "Update", "SendPacket"}
  BY <1>2, <1>3 DEF Messages
<1>5. Messages(t)
  BY <1>2, <1>4, MessagesFrom
<1>6. Head(l).type \in {"Init", "Update", "SendPacket"}
  BY <1>2, <1>3 DEF Messages
<1> QED BY <1>5, <1>6 DEF t

-----------------------------------------------------------------------------
(* The actions.                                                             *)
LEMMA Parts ==
  ASSUME IndInv
  PROVE  /\ Histories(requests, outcomes) /\ Handles(outcomes, msdu_handles)
         /\ Queues(queues, requests, outcomes)
         /\ IsTables(tables) /\ Marks(queues, tables)
         /\ Quiet(queues, quiet, asleep)
         /\ Messages(link)
  BY DEF IndInv

LEMMA Awake ==
  ASSUME Wake
  PROVE  Quiet(queues, quiet, asleep)'
  BY Woken DEF Wake

LEMMA NoQueues ==
  ASSUME NEW rs, NEW os, \A k \in 1 .. Len(rs) : os[k] # "open"
  PROVE  /\ Queues(<<>>, rs, os)
         /\ \A ts : ~ts.none /\ ts.short.values = {} => Marks(<<>>, ts)
<1>1. DOMAIN <<>> = {}
  OBVIOUS
<1> QED BY <1>1 DEF Queues, Marks, IsMarked, Reported

LEMMA InitInv == Init => IndInv
<1> SUFFICES ASSUME Init PROVE IndInv
  OBVIOUS
<1>1. Histories(requests, outcomes) /\ 1 .. Len(requests) = {} /\ 1 .. Len(outcomes) = {}
  BY DEF Init, Histories
<1>2. Handles(outcomes, msdu_handles)
  BY <1>1 DEF Init, Handles
<1>3. IsTables(tables) /\ ~tables.none /\ tables.short.values = {}
  BY NewTablesMarks DEF Init
<1>4. Queues(queues, requests, outcomes) /\ Marks(queues, tables)
  BY <1>1, <1>3, NoQueues DEF Init
<1>5. Quiet(queues, quiet, asleep)
  BY Woken DEF Init
<1>6. Messages(link)
  BY NoMessages DEF Init
<1> QED BY <1>1, <1>2, <1>3, <1>4, <1>5, <1>6 DEF IndInv

\* A step that keeps the queues' keys, the handles, the histories and the marks.
LEMMA SameStep ==
  ASSUME IndInv, DOMAIN queues' = DOMAIN queues,
         \A d \in DOMAIN queues : Same(queues'[d], queues[d]),
         SameMarks(tables', tables), Wake, Messages(link'),
         UNCHANGED <<msdu_handles, requests, outcomes>>
  PROVE  IndInv'
<1>1. Queues(queues', requests, outcomes)
      /\ \A d \in Destinations : Reported(queues', d) <=> Reported(queues, d)
  BY Parts, QueuesSame
<1>2. Marks(queues', tables)
  BY <1>1, Parts, MarksKept
<1>3. IsTables(tables') /\ Marks(queues', tables')
  BY <1>2, MarksSame
<1>4. Quiet(queues, quiet, asleep)'
  BY Awake
<1>5. /\ Histories(requests, outcomes) /\ Handles(outcomes, msdu_handles)
      /\ requests' = requests /\ outcomes' = outcomes /\ msdu_handles' = msdu_handles
  BY Parts
<1> QED BY <1>1, <1>3, <1>4, <1>5 DEF IndInv

LEMMA MarksItself ==
  ASSUME IndInv
  PROVE  SameMarks(tables, tables)
  BY Parts DEF SameMarks

LEMMA IsQueues ==
  ASSUME IndInv, NEW d \in DOMAIN queues
  PROVE  IsQueue(queues[d]) /\ Same(queues[d], queues[d])
  BY Parts, SameItself DEF Queues

LEMMA FrameAckInv ==
  ASSUME IndInv, NEW seq_nr, ProcessFrameAck(seq_nr)
  PROVE  IndInv'
<1>1. /\ queues' = [d \in DOMAIN queues |-> ProcessAcknowledge(queues[d], seq_nr, NoPayload)]
      /\ Wake /\ UNCHANGED <<tables, link, msdu_handles, requests, outcomes>>
  BY DEF ProcessFrameAck, Input
<1>2. \A d \in DOMAIN queues : Same(queues'[d], queues[d])
  BY <1>1, IsQueues, AcknowledgeSame
<1> QED BY <1>1, <1>2, SameStep, MarksItself, Parts

LEMMA DataRequestInv ==
  ASSUME IndInv, NEW source, ProcessFrameDataRequest(source)
  PROVE  IndInv'
<1>1. /\ queues' = IF source \in DOMAIN queues
                   THEN [queues EXCEPT ![source] = ProcessDataRequest(queues[source])]
                   ELSE queues
      /\ Wake /\ UNCHANGED <<tables, link, msdu_handles, requests, outcomes>>
  BY DEF ProcessFrameDataRequest, Input
<1>2. DOMAIN queues' = DOMAIN queues
  BY <1>1
<1>3. \A d \in DOMAIN queues : queues'[d] = queues[d] \/ queues'[d] = ProcessDataRequest(queues[d])
  BY <1>1
<1>4. \A d \in DOMAIN queues : Same(queues'[d], queues[d])
  BY <1>3, IsQueues, DataRequestSame
<1> QED BY <1>1, <1>2, <1>4, SameStep, MarksItself, Parts

LEMMA RadioAnswersInv ==
  ASSUME IndInv, NEW ok \in BOOLEAN, RadioAnswers(ok)
  PROVE  IndInv'
<1> DEFINE key == Head(link).key
           type == Head(link).type
<1>1. Wake /\ UNCHANGED <<msdu_handles, requests, outcomes>>
  BY DEF RadioAnswers, Input
<1>2. Messages(link') /\ type \in {"Init", "Update", "SendPacket"}
  BY Parts, MessagesTail DEF RadioAnswers
<1>3. SameMarks(tables', tables)
  <2>1. CASE type = "Init"
    <3>1. tables' = ReportInitResult(tables, key, ok)
      BY <2>1 DEF RadioAnswers
    <3> QED BY <3>1, Parts, ReportInitMarks
  <2>2. CASE type = "Update"
    <3>1. tables' = ReportTablesResult(tables, key, ok)
      BY <2>2 DEF RadioAnswers
    <3> QED BY <3>1, Parts, ReportTablesMarks
  <2>3. CASE type = "SendPacket"
    <3>1. tables' = tables
      BY <2>3 DEF RadioAnswers
    <3> QED BY <3>1, MarksItself
  <2> QED BY <1>2, <2>1, <2>2, <2>3
<1>4. queues' = queues \/ queues' = [d \in DOMAIN queues |-> ProcessSendResult(queues[d], key, ok)]
  BY DEF RadioAnswers
<1> HIDE DEF key
<1>5. DOMAIN queues' = DOMAIN queues
  BY <1>4
<1>6. \A d \in DOMAIN queues : Same(queues'[d], queues[d])
  BY <1>4, IsQueues, SendResultSame
<1> QED BY <1>1, <1>2, <1>3, <1>5, <1>6, SameStep

LEMMA OtherInputInv ==
  ASSUME IndInv, OtherInput
  PROVE  IndInv'
<1>1. Wake /\ UNCHANGED <<queues, tables, link, msdu_handles, requests, outcomes>>
  BY DEF OtherInput, Input, serviceVars
<1> QED BY <1>1, IsQueues, SameStep, MarksItself, Parts

LEMMA AckTimeoutInv ==
  ASSUME IndInv, NEW d \in DOMAIN queues, AckTimeout(d)
  PROVE  IndInv'
<1> DEFINE q == [queues[d] EXCEPT !.state.timeout = TRUE]
<1>1. queues' = [queues EXCEPT ![d] = q]
  BY DEF AckTimeout
<1>2. Wake /\ UNCHANGED <<tables, link, msdu_handles, requests, outcomes>>
  BY DEF AckTimeout
<1>3. Same(q, queues[d])
  BY IsQueues, AckTimerSame
<1> HIDE DEF q
<1>4. DOMAIN queues' = DOMAIN queues /\ \A e \in DOMAIN queues : Same(queues'[e], queues[e])
  BY <1>1, <1>3, IsQueues
<1> QED BY <1>2, <1>4, SameStep, MarksItself, Parts

LEMMA TransactionTimeoutInv ==
  ASSUME IndInv, NEW d \in DOMAIN queues, NEW i \in 1 .. Len(queues[d].entries),
         TransactionTimeout(d, i)
  PROVE  IndInv'
<1> DEFINE q == [queues[d] EXCEPT !.entries[i].timeout = TRUE]
<1>1. queues' = [queues EXCEPT ![d] = q]
  BY DEF TransactionTimeout
<1>2. Wake /\ UNCHANGED <<tables, link, msdu_handles, requests, outcomes>>
  BY DEF TransactionTimeout
<1>3. Same(q, queues[d])
  BY IsQueues, TransactionTimerSame DEF Indices
<1> HIDE DEF q
<1>4. DOMAIN queues' = DOMAIN queues /\ \A e \in DOMAIN queues : Same(queues'[e], queues[e])
  BY <1>1, <1>3, IsQueues
<1> QED BY <1>2, <1>4, SameStep, MarksItself, Parts

\* A new request: its key is the next one, and no queue has it.
LEMMA NewRequestInv ==
  ASSUME IndInv, NEW d \in Destinations, NEW indirect \in BOOLEAN, NEW ack \in BOOLEAN,
         NEW outcome \in {"open", "none"}, NewRequest(d, indirect, ack, outcome),
         Handles(outcomes', msdu_handles')
  PROVE  IndInv'
<1> DEFINE n == Len(requests) + 1
           request == [destination |-> d, mcps |-> outcome = "open"]
           entry == Entry(n, indirect, ack, MaxFrameRetries)
           before == IF d \in DOMAIN queues THEN queues[d] ELSE New
           q == Insert(before, entry)
<1>1. /\ Wake /\ UNCHANGED <<tables, link>>
      /\ requests' = Append(requests, request) /\ outcomes' = Append(outcomes, outcome)
      /\ queues' = With(queues, d, q)
  BY DEF NewRequest, Input, InsertEntry
<1>2. /\ requests \in Seq(RequestType) /\ outcomes \in Seq(Outcomes)
      /\ Len(requests) \in Nat /\ Len(outcomes) = Len(requests)
  BY Parts, LenProperties DEF Histories
<1>3. /\ request \in RequestType /\ request.destination = d
      /\ request.mcps <=> outcome = "open"
  BY DEF RequestType
<1>4. entry \in EntryType /\ entry.key = n
  <2>1. n \in Nat /\ MaxFrameRetries \in Int
    BY <1>2, DataServiceAssumption
  <2> QED BY <2>1 DEF Entry, EntryType
<1> HIDE DEF request, entry
<1>5. outcome \in Outcomes
  BY DEF Outcomes
<1>6. /\ requests' \in Seq(RequestType) /\ Len(requests') = n /\ requests'[n] = request
      /\ \A k \in 1 .. Len(requests) : requests'[k] = requests[k]
      /\ outcomes' \in Seq(Outcomes) /\ Len(outcomes') = n /\ outcomes'[n] = outcome
      /\ \A k \in 1 .. Len(requests) : outcomes'[k] = outcomes[k]
  BY <1>1, <1>2, <1>3, <1>5, AppendProperties
<1>7. \A k \in 1 .. n : k = n \/ k \in 1 .. Len(requests)
  BY <1>2
<1>8. n \in 1 .. n /\ n \notin 1 .. Len(requests)
      /\ \A k \in 1 .. Len(requests) : k \in 1 .. n /\ k # n
  BY <1>2
<1> HIDE DEF n
<1>9. Histories(requests', outcomes')
  <2>1. \A k \in 1 .. n : /\ outcomes'[k] = "open" => requests'[k].mcps
                          /\ outcomes'[k] = "none" => ~requests'[k].mcps
    BY <1>3, <1>6, <1>7, Parts DEF Histories
  <2> QED BY <1>6, <2>1 DEF Histories
<1>10. /\ IsQueue(before) /\ (d \in DOMAIN queues => KeysOf(before) = KeysOf(queues[d]))
       /\ d \notin DOMAIN queues => KeysOf(before) = {} /\ before.last_pending_reported = {}
       /\ d \in DOMAIN queues => before = queues[d]
  BY IsQueues, NewQueue
<1> HIDE DEF before
<1>11. /\ IsQueue(q) /\ KeysOf(q) = KeysOf(before) \cup {n}
       /\ q.last_pending_reported = before.last_pending_reported
  BY <1>4, <1>10, InsertKeys
<1> HIDE DEF q
<1>12. /\ DOMAIN queues' = DOMAIN queues \cup {d} /\ queues'[d] = q
       /\ \A e \in DOMAIN queues : e # d => queues'[e] = queues[e]
  BY <1>1, Zenon DEF With
<1>13. Queues(queues', requests', outcomes')
  <2>1. DOMAIN queues' \subseteq Destinations
    BY <1>12, Parts DEF Queues
  <2>2. ASSUME NEW e \in DOMAIN queues'
        PROVE  /\ IsQueue(queues'[e])
               /\ \A k \in KeysOf(queues'[e]) : /\ k \in 1 .. n
                                                /\ requests'[k].destination = e
                                                /\ outcomes'[k] \in {"open", "none"}
    <3>1. \A f \in DOMAIN queues : \A k \in KeysOf(queues[f]) :
            k \in 1 .. n /\ requests'[k].destination = f /\ outcomes'[k] \in {"open", "none"}
      BY <1>6, <1>8, Parts DEF Queues
    <3>2. CASE e # d
      BY <1>12, <2>2, <3>1, <3>2, IsQueues
    <3>3. CASE e = d
      <4>1. IsQueue(queues'[e])
        BY <1>11, <1>12, <3>3
      <4>2. ASSUME NEW k \in KeysOf(queues'[e])
            PROVE  k \in 1 .. n /\ requests'[k].destination = e /\ outcomes'[k] \in {"open", "none"}
        <5>1. k = n \/ (d \in DOMAIN queues /\ k \in KeysOf(queues[d]))
          BY <1>10, <1>11, <1>12, <3>3, <4>2
        <5>2. CASE k = n
          BY <1>3, <1>6, <1>8, <3>3, <5>2
        <5>3. CASE d \in DOMAIN queues /\ k \in KeysOf(queues[d])
          BY <3>1, <3>3, <5>3
        <5> QED BY <5>1, <5>2, <5>3
      <4> QED BY <4>1, <4>2
    <3> QED BY <3>2, <3>3
  <2>3. ASSUME NEW k \in 1 .. n, outcomes'[k] = "open"
        PROVE  requests'[k].destination \in DOMAIN queues'
               /\ k \in KeysOf(queues'[requests'[k].destination])
    <3>1. CASE k = n
      BY <1>3, <1>6, <1>11, <1>12, <3>1
    <3>2. CASE k \in 1 .. Len(requests)
      <4> DEFINE e == requests[k].destination
      <4>1. requests'[k].destination = e /\ e \in DOMAIN queues /\ k \in KeysOf(queues[e])
        BY <1>6, <2>3, <3>2, Parts DEF Queues
      <4> HIDE DEF e
      <4>2. e = d => queues'[e] = q /\ KeysOf(queues[e]) \subseteq KeysOf(q)
        BY <1>10, <1>11, <1>12, <4>1
      <4> QED BY <1>12, <4>1, <4>2
    <3> QED BY <1>7, <3>1, <3>2
  <2> QED BY <1>6, <2>1, <2>2, <2>3 DEF Queues
<1>14. \A e \in Destinations : Reported(queues', e) <=> Reported(queues, e)
  <2>1. {} # {TRUE}
    OBVIOUS
  <2> QED BY <1>10, <1>11, <1>12, <2>1 DEF Reported
<1>15. Marks(queues', tables)
  BY <1>14, Parts, MarksKept
<1>16. IsTables(tables') /\ Marks(queues', tables') /\ Messages(link')
  BY <1>1, <1>15, Parts
<1>17. Quiet(queues, quiet, asleep)'
  BY <1>1, Awake
<1> QED BY <1>9, <1>13, <1>16, <1>17 DEF IndInv

LEMMA HandlesAppend ==
  ASSUME IndInv
  PROVE  LET n == Len(requests) + 1 IN
         /\ Handles(Append(outcomes, "open"), InsertHandle(n, n))
         /\ Handles(Append(outcomes, "none"), msdu_handles)
<1> DEFINE n == Len(requests) + 1
           mine(k) == [handle |-> k, key |-> k]
           open(os) == {j \in 1 .. Len(os) : os[j] = "open"}
<1>1. outcomes \in Seq(Outcomes) /\ Len(outcomes) \in Nat /\ n = Len(outcomes) + 1
  BY Parts, LenProperties DEF Histories
<1>2. "open" \in Outcomes /\ "none" \in Outcomes
  BY DEF Outcomes
<1> HIDE DEF n
<1>3. ASSUME NEW o \in Outcomes
      PROVE  /\ Len(Append(outcomes, o)) = n /\ Append(outcomes, o)[n] = o
             /\ \A k \in 1 .. Len(outcomes) : Append(outcomes, o)[k] = outcomes[k]
  BY <1>1, AppendProperties
<1>4. \A k : k \in 1 .. n <=> k \in 1 .. Len(outcomes) \/ k = n
  BY <1>1
<1>5. n \notin 1 .. Len(outcomes)
  BY <1>1
<1>6. open(Append(outcomes, "open")) = open(outcomes) \cup {n}
  BY <1>2, <1>3, <1>4
<1>7. open(Append(outcomes, "none")) = open(outcomes)
  BY <1>2, <1>3, <1>4
<1>8. msdu_handles = {mine(j) : j \in open(outcomes)}
  BY Parts DEF Handles
<1>9. \A m \in msdu_handles : m.handle # n /\ m.key # n
  BY <1>5, <1>8
<1>10. InsertHandle(n, n) = msdu_handles \cup {mine(n)}
  BY <1>9 DEF InsertHandle
<1> HIDE DEF mine
<1>11. InsertHandle(n, n) = {mine(j) : j \in open(Append(outcomes, "open"))}
  BY <1>6, <1>8, <1>10
<1>12. msdu_handles = {mine(j) : j \in open(Append(outcomes, "none"))}
  BY <1>7, <1>8
<1> QED BY <1>11, <1>12 DEF Handles, mine, n

LEMMA McpsDataRequestInv ==
  ASSUME IndInv, NEW d \in Destinations, NEW indirect \in BOOLEAN, NEW ack \in BOOLEAN,
         ProcessMcpsDataRequest(d, indirect, ack)
  PROVE  IndInv'
<1>1. NewRequest(d, indirect, ack, "open") /\ outcomes' = Append(outcomes, "open")
      /\ msdu_handles' = InsertHandle(Len(requests) + 1, Len(requests) + 1)
  BY DEF ProcessMcpsDataRequest, NewRequest
<1>2. Handles(outcomes', msdu_handles')
  BY <1>1, HandlesAppend
<1> QED BY <1>1, <1>2, NewRequestInv

LEMMA AssociateResponseInv ==
  ASSUME IndInv, NEW d \in Destinations, NEW fast_association \in BOOLEAN,
         ProcessMlmeAssociateResponse(d, fast_association)
  PROVE  IndInv'
<1>1. NewRequest(d, ~fast_association, TRUE, "none") /\ outcomes' = Append(outcomes, "none")
      /\ msdu_handles' = msdu_handles
  BY DEF ProcessMlmeAssociateResponse, NewRequest
<1>2. Handles(outcomes', msdu_handles')
  BY <1>1, HandlesAppend
<1>3. (~fast_association) \in BOOLEAN /\ TRUE \in BOOLEAN
  OBVIOUS
<1> QED BY <1>1, <1>2, <1>3, NewRequestInv

\* A handle in the map is that of an open request.
LEMMA HandleIsOpen ==
  ASSUME IndInv, NEW m \in msdu_handles
  PROVE  \E k \in 1 .. Len(requests) :
           m = [handle |-> k, key |-> k] /\ m.key = k /\ outcomes[k] = "open"
<1>1. PICK k \in 1 .. Len(outcomes) : m = [handle |-> k, key |-> k] /\ outcomes[k] = "open"
  BY Parts DEF Handles
<1>2. Len(outcomes) = Len(requests)
  BY Parts DEF Histories
<1> QED BY <1>1, <1>2

LEMMA PurgeInv ==
  ASSUME IndInv, NEW handle, ProcessMcpsPurgeRequest(handle)
  PROVE  IndInv'
<1>1. PICK m \in msdu_handles :
        /\ msdu_handles' = msdu_handles \ {m}
        /\ queues' = [d \in DOMAIN queues |-> Remove(queues[d], m.key)]
        /\ outcomes' = [outcomes EXCEPT ![m.key] = "purged"]
  BY DEF ProcessMcpsPurgeRequest, RemoveKey, Recorded
<1>2. Wake /\ UNCHANGED <<tables, link, requests>>
  BY DEF ProcessMcpsPurgeRequest, Input
<1>3. PICK k \in 1 .. Len(requests) :
        m = [handle |-> k, key |-> k] /\ m.key = k /\ outcomes[k] = "open"
  BY HandleIsOpen
<1>4. /\ Answers(outcomes', outcomes, k)
      /\ msdu_handles' = msdu_handles \ {[handle |-> k, key |-> k]}
  BY <1>1, <1>3 DEF Answers
<1>5. /\ Histories(requests, outcomes') /\ Handles(outcomes', msdu_handles')
      /\ outcomes'[k] # "open" /\ \A j \in 1 .. Len(requests) : j # k => outcomes'[j] = outcomes[j]
  BY <1>3, <1>4, Parts, Answered
<1>6. \A d \in DOMAIN queues :
        /\ IsQueue(queues'[d]) /\ KeysOf(queues'[d]) = KeysOf(queues[d]) \ {k}
        /\ queues'[d].last_pending_reported = queues[d].last_pending_reported
  <2> SUFFICES ASSUME NEW d \in DOMAIN queues
               PROVE  /\ IsQueue(queues'[d]) /\ KeysOf(queues'[d]) = KeysOf(queues[d]) \ {k}
                      /\ queues'[d].last_pending_reported = queues[d].last_pending_reported
    OBVIOUS
  <2>1. queues'[d] = Remove(queues[d], k)
    BY <1>1, <1>3
  <2> QED BY <2>1, IsQueues, RemoveKeys
<1>7. DOMAIN queues' = DOMAIN queues
  BY <1>1
<1>8. Queues(queues', requests, outcomes')
  BY <1>5, <1>6, <1>7, Parts, QueuesWithout
<1>9. \A e \in Destinations : Reported(queues', e) <=> Reported(queues, e)
  BY <1>6, <1>7 DEF Reported
<1>10. Marks(queues', tables)
  BY <1>9, Parts, MarksKept
<1>11. Quiet(queues, quiet, asleep)'
  BY <1>2, Awake
<1> QED BY <1>2, <1>5, <1>8, <1>10, <1>11, Parts DEF IndInv

LEMMA ResetInv ==
  ASSUME IndInv, NEW dsn, ProcessMlmeResetRequest(dsn)
  PROVE  IndInv'
<1>1. /\ Wake /\ UNCHANGED <<link, requests>>
      /\ queues' = <<>> /\ msdu_handles' = {} /\ tables' = NewTables(Size)
      /\ outcomes' = [k \in 1 .. Len(requests) |->
                        IF outcomes[k] = "open" THEN "dropped" ELSE outcomes[k]]
  BY DEF ProcessMlmeResetRequest, Input, Keys
<1>2. /\ Len(requests) \in Nat /\ requests \in Seq(RequestType)
      /\ \A k \in 1 .. Len(requests) : outcomes[k] \in Outcomes
      /\ \A k \in 1 .. Len(requests) : outcomes[k] = "none" => ~requests[k].mcps
  BY Parts, LenProperties, ElementOfSeq DEF Histories
<1>3. \A k \in 1 .. Len(requests) :
        /\ outcomes'[k] \in Outcomes /\ outcomes'[k] # "open"
        /\ outcomes'[k] = "none" => outcomes[k] = "none"
  BY <1>1, <1>2 DEF Outcomes
<1>4. outcomes' \in [1 .. Len(requests) -> Outcomes]
  BY <1>1, <1>3
<1>5. outcomes' \in Seq(Outcomes) /\ Len(outcomes') = Len(requests)
  BY <1>2, <1>4
<1>6. Histories(requests', outcomes')
  BY <1>1, <1>2, <1>3, <1>5 DEF Histories
<1>7. Handles(outcomes', msdu_handles')
  BY <1>1, <1>3, <1>5 DEF Handles
<1>8. IsTables(tables') /\ ~tables'.none /\ tables'.short.values = {}
  BY <1>1, NewTablesMarks
<1>9. Queues(queues', requests', outcomes') /\ Marks(queues', tables')
  BY <1>1, <1>3, <1>8, NoQueues
<1>10. Quiet(queues, quiet, asleep)'
  BY <1>1, Awake
<1>11. Messages(link')
  BY <1>1, Parts
<1> QED BY <1>6, <1>7, <1>8, <1>9, <1>10, <1>11 DEF IndInv

LEMMA PollPendingTableInv ==
  ASSUME IndInv, PollPendingTable
  PROVE  IndInv'
<1> DEFINE type == IF PollTables(tables, next_key).action.type = "Init" THEN "Init" ELSE "Update"
           message == [type |-> type, key |-> next_key,
                       content |-> PollTables(tables, next_key).action]
<1>1. /\ tables' = PollTables(tables, next_key).tables /\ link' = Append(link, message)
      /\ ~asleep /\ quiet' = {}
      /\ UNCHANGED <<queues, msdu_handles, asleep, requests, outcomes>>
  BY DEF PollPendingTable, ToRadio
<1>2. message.type \in {"Init", "Update", "SendPacket"}
  OBVIOUS
<1> HIDE DEF message
<1>3. Messages(link')
  BY <1>1, <1>2, Parts, MessagesAppend
<1>4. SameMarks(tables', tables)
  BY <1>1, Parts, PollTablesMarks
<1>5. IsTables(tables') /\ Marks(queues', tables')
  BY <1>1, <1>4, Parts, MarksSame
<1>6. Quiet(queues', quiet', asleep')
  BY <1>1, Parts DEF Quiet
<1> QED BY <1>1, <1>3, <1>5, <1>6, Parts DEF IndInv

LEMMA PollPendingInv ==
  ASSUME IndInv, PollPending
  PROVE  IndInv'
<1>1. /\ quiet = DOMAIN queues /\ asleep' = TRUE
      /\ UNCHANGED <<queues, msdu_handles, tables, link, quiet, requests, outcomes>>
  BY DEF PollPending, serviceVars
<1>2. Quiet(queues', quiet', asleep')
  BY <1>1, Parts DEF Quiet
<1> QED BY <1>1, <1>2, Parts DEF IndInv

\* A poll that leaves the queues' keys alone.
LEMMA QueuesReplaced ==
  ASSUME NEW qs, NEW rs, NEW os, Queues(qs, rs, os), NEW d \in DOMAIN qs, NEW q, IsQueue(q),
         KeysOf(q) = KeysOf(qs[d]), NEW new, DOMAIN new = DOMAIN qs, new[d] = q,
         \A e \in DOMAIN qs : e # d => new[e] = qs[e]
  PROVE  Queues(new, rs, os)
<1>1. \A e \in DOMAIN qs : IsQueue(new[e]) /\ KeysOf(new[e]) = KeysOf(qs[e])
  BY DEF Queues
<1>2. DOMAIN new \subseteq Destinations
  BY DEF Queues
<1>3. ASSUME NEW e \in DOMAIN new
      PROVE  /\ IsQueue(new[e])
             /\ \A k \in KeysOf(new[e]) : /\ k \in 1 .. Len(rs)
                                          /\ rs[k].destination = e
                                          /\ os[k] \in {"open", "none"}
  BY <1>1, <1>3 DEF Queues
<1>4. ASSUME NEW k \in 1 .. Len(rs), os[k] = "open"
      PROVE  rs[k].destination \in DOMAIN new /\ k \in KeysOf(new[rs[k].destination])
  BY <1>1, <1>4 DEF Queues
<1> QED BY <1>2, <1>3, <1>4 DEF Queues

LEMMA PollQueueInv ==
  ASSUME IndInv, NEW d \in DOMAIN queues, PollQueue(d)
  PROVE  IndInv'
<1> DEFINE q == queues[d]
           polled == PollNextAction(q, next_key, mac_dsn)
           new == polled.queue
           action == polled.action
<1>1. IsQueue(q) /\ Polled(new, action, q) /\ d \in Destinations
  <2>1. IsQueue(q)
    BY IsQueues
  <2> QED BY <2>1, PollShape, Parts DEF Queues
<1>2. /\ ~asleep /\ d \notin quiet /\ UNCHANGED <<asleep, requests>>
      /\ quiet' = IF action = Pending THEN quiet \cup {d} ELSE {}
      /\ queues' = IF action = Empty THEN Without(queues, d) ELSE With(queues, d, new)
      /\ tables' = IF action.type = "SetPending" THEN SetAddress(tables, d, action.pending)
                   ELSE tables
      /\ IF action.type = "ReportResult" THEN ConfirmData(action.key)
         ELSE UNCHANGED <<msdu_handles, outcomes>>
  BY DEF PollQueue, AfterPoll
<1>3. Messages(link')
  <2> DEFINE message == [type |-> "SendPacket", key |-> next_key, content |-> action]
  <2>1. link' = link \/ link' = Append(link, message)
    BY DEF PollQueue, ToRadio
  <2>2. message.type \in {"Init", "Update", "SendPacket"}
    OBVIOUS
  <2> HIDE DEF message
  <2>3. Messages(link) /\ Messages(Append(link, message))
    BY <2>2, Parts, MessagesAppend
  <2> QED BY <2>1, <2>3, Zenon
<1>4. Empty.type = "Empty" /\ Pending.type = "Pending"
  BY DEF Empty, Pending
<1> HIDE DEF q, polled, new, action
<1>5. action # Empty =>
        /\ DOMAIN queues' = DOMAIN queues /\ queues'[d] = new
        /\ \A e \in DOMAIN queues : e # d => queues'[e] = queues[e]
  <2> SUFFICES ASSUME action # Empty
               PROVE  /\ DOMAIN queues' = DOMAIN queues /\ queues'[d] = new
                      /\ \A e \in DOMAIN queues : e # d => queues'[e] = queues[e]
    OBVIOUS
  <2>1. queues' = With(queues, d, new)
    BY <1>2
  <2>2. DOMAIN queues \cup {d} = DOMAIN queues
    OBVIOUS
  <2>3. queues' = [e \in DOMAIN queues |-> IF e = d THEN new ELSE queues[e]]
    BY <2>1, <2>2, Zenon DEF With
  <2> QED BY <2>3
<1>6. Quiet(queues', quiet', asleep')
  <2>1. CASE action = Pending
    <3>1. UpToDate(new) /\ action # Empty
      BY <1>1, <1>4, <2>1 DEF Polled
    <3>2. quiet' = quiet \cup {d} /\ \A e \in quiet' : UpToDate(queues'[e])
      BY <1>2, <1>5, <2>1, <3>1, Parts DEF Quiet
    <3> QED BY <1>2, <1>5, <3>1, <3>2, Parts DEF Quiet
  <2>2. CASE action # Pending
    BY <1>2, <2>2, Parts DEF Quiet
  <2> QED BY <2>1, <2>2
<1>7. CASE action.type = "ReportResult" /\ action # Empty
  <2> DEFINE k == action.key
  <2>1. /\ k \in KeysOf(q) /\ IsQueue(new) /\ KeysOf(new) = KeysOf(q) \ {k}
        /\ new.last_pending_reported = q.last_pending_reported
    BY <1>1, <1>4, <1>7 DEF Polled
  <2>2. tables' = tables /\ ConfirmData(k)
    BY <1>2, <1>7
  <2> HIDE DEF k
  <2>3. k \in 1 .. Len(requests) /\ outcomes[k] \in {"open", "none"}
    BY <2>1, Parts DEF Queues, q
  <2>4. /\ Histories(requests, outcomes') /\ Handles(outcomes', msdu_handles')
        /\ outcomes'[k] # "open"
        /\ \A j \in 1 .. Len(requests) : j # k => outcomes'[j] = outcomes[j]
    <3>1. HandlesOf(k) = IF outcomes[k] = "open" THEN {[handle |-> k, key |-> k]} ELSE {}
      <4>1. \A m \in msdu_handles : m.key = k =>
              m = [handle |-> k, key |-> k] /\ outcomes[k] = "open"
        BY HandleIsOpen
      <4>2. outcomes[k] = "open" => [handle |-> k, key |-> k] \in msdu_handles
        <5>1. k \in 1 .. Len(outcomes)
          BY <2>3, Parts DEF Histories
        <5> QED BY <5>1, Parts DEF Handles
      <4> QED BY <4>1, <4>2 DEF HandlesOf
    <3>2. CASE outcomes[k] = "open"
      <4>1. HandlesOf(k) = {[handle |-> k, key |-> k]}
        BY <3>1, <3>2
      <4>2. msdu_handles' = msdu_handles \ {[handle |-> k, key |-> k]}
        BY <2>2, <4>1 DEF ConfirmData
      <4>3. Answers(outcomes', outcomes, k)
        BY <2>2, <3>2, <4>1 DEF ConfirmData, Recorded, Answers
      <4> QED BY <2>3, <4>2, <4>3, Parts, Answered
    <3>3. CASE outcomes[k] # "open"
      <4>1. HandlesOf(k) = {}
        BY <3>1, <3>3
      <4>2. msdu_handles' = msdu_handles /\ outcomes' = outcomes
        BY <2>2, <4>1 DEF ConfirmData
      <4> QED BY <3>3, <4>2, Parts
    <3> QED BY <3>2, <3>3
  <2>5. \A e \in DOMAIN queues :
          IsQueue(queues'[e]) /\ KeysOf(queues'[e]) = KeysOf(queues[e]) \ {k}
    <3> SUFFICES ASSUME NEW e \in DOMAIN queues
                 PROVE  IsQueue(queues'[e]) /\ KeysOf(queues'[e]) = KeysOf(queues[e]) \ {k}
      OBVIOUS
    <3>1. CASE e = d
      BY <1>5, <1>7, <2>1, <3>1 DEF q
    <3>2. CASE e # d
      <4>1. k \notin KeysOf(queues[e])
        BY <2>1, <3>2, Parts, OneQueue DEF q
      <4> QED BY <1>5, <1>7, <3>2, <4>1, IsQueues
    <3> QED BY <3>1, <3>2
  <2>6. Queues(queues', requests, outcomes')
    <3>1. DOMAIN queues' = DOMAIN queues
      BY <1>5, <1>7
    <3> QED BY <2>3, <2>4, <2>5, <3>1, Parts, QueuesWithout
  <2>7. \A e \in Destinations : Reported(queues', e) <=> Reported(queues, e)
    BY <1>5, <1>7, <2>1 DEF Reported, q
  <2>8. Marks(queues', tables)
    BY <2>7, Parts, MarksKept
  <2> QED BY <1>2, <1>3, <1>6, <2>2, <2>4, <2>6, <2>8, Parts DEF IndInv
<1>8. CASE action = Empty
  <2>1. KeysOf(q) = {} /\ q.last_pending_reported = {FALSE}
    BY <1>1, <1>4, <1>8 DEF Polled
  <2>2. /\ queues' = [e \in DOMAIN queues \ {d} |-> queues[e]]
        /\ UNCHANGED <<tables, msdu_handles, outcomes>>
    BY <1>2, <1>4, <1>8 DEF Without
  <2>3. /\ DOMAIN queues' = DOMAIN queues \ {d}
        /\ \A e \in DOMAIN queues' : queues'[e] = queues[e]
    BY <2>2
  <2>4. Queues(queues', requests, outcomes)
    <3>1. DOMAIN queues' \subseteq Destinations
      BY <2>3, Parts DEF Queues
    <3>2. ASSUME NEW e \in DOMAIN queues'
          PROVE  /\ IsQueue(queues'[e])
                 /\ \A k \in KeysOf(queues'[e]) : /\ k \in 1 .. Len(requests)
                                                  /\ requests[k].destination = e
                                                  /\ outcomes[k] \in {"open", "none"}
      BY <2>3, <3>2, Parts DEF Queues
    <3>3. ASSUME NEW k \in 1 .. Len(requests), outcomes[k] = "open"
          PROVE  requests[k].destination \in DOMAIN queues'
                 /\ k \in KeysOf(queues'[requests[k].destination])
      <4> DEFINE e == requests[k].destination
      <4>1. e \in DOMAIN queues /\ k \in KeysOf(queues[e])
        BY <3>3, Parts DEF Queues
      <4> HIDE DEF e
      <4>2. e # d
        BY <2>1, <4>1 DEF q
      <4> QED BY <2>3, <4>1, <4>2 DEF e
    <3> QED BY <3>1, <3>2, <3>3 DEF Queues
  <2>5. \A e \in Destinations : Reported(queues', e) <=> Reported(queues, e)
    <3>1. {FALSE} # {TRUE}
      OBVIOUS
    <3> QED BY <2>1, <2>3, <3>1 DEF Reported, q
  <2>6. Marks(queues', tables)
    BY <2>5, Parts, MarksKept
  <2> QED BY <1>2, <1>3, <1>6, <2>2, <2>4, <2>6, Parts DEF IndInv
<1>9. CASE action.type = "SetPending" /\ action # Empty
  <2> DEFINE pending == action.pending
  <2>1. /\ pending \in BOOLEAN /\ IsQueue(new) /\ KeysOf(new) = KeysOf(q)
        /\ new.last_pending_reported = {pending}
    BY <1>1, <1>4, <1>9 DEF Polled
  <2>2. tables' = SetAddress(tables, d, pending) /\ UNCHANGED <<msdu_handles, outcomes>>
    BY <1>2, <1>9
  <2> HIDE DEF pending
  <2>3. Queues(queues', requests, outcomes)
    BY <1>5, <1>9, <2>1, Parts, QueuesReplaced DEF q
  <2>4. /\ IsTables(tables')
        /\ \A e \in Destinations : e.mode # "Extended" =>
             (IsMarked(tables', e) <=> IF e = d THEN pending ELSE IsMarked(tables, e))
    BY <1>1, <2>1, <2>2, Parts, SetAddressMarks
  <2>5. ASSUME NEW e \in Destinations
        PROVE  Reported(queues', e) <=> IF e = d THEN pending ELSE Reported(queues, e)
    <3>1. CASE e = d
      <4>1. {pending} = {TRUE} <=> pending
        BY <2>1
      <4> QED BY <1>5, <1>9, <2>1, <3>1, <4>1 DEF Reported
    <3>2. CASE e # d
      BY <1>5, <1>9, <3>2 DEF Reported
    <3> QED BY <3>1, <3>2
  <2>6. Marks(queues', tables')
    BY <2>4, <2>5, Parts DEF Marks
  <2> QED BY <1>2, <1>3, <1>6, <2>2, <2>3, <2>4, <2>6, Parts DEF IndInv
<1>10. CASE action.type \in {"SendFrame", "Pending"} /\ action # Empty
  <2>1. /\ IsQueue(new) /\ KeysOf(new) = KeysOf(q)
        /\ new.last_pending_reported = q.last_pending_reported
    BY <1>1, <1>4, <1>10 DEF Polled
  <2>2. UNCHANGED <<tables, msdu_handles, outcomes>>
    BY <1>2, <1>10
  <2>3. Queues(queues', requests, outcomes)
    BY <1>5, <1>10, <2>1, Parts, QueuesReplaced DEF q
  <2>4. \A e \in Destinations : Reported(queues', e) <=> Reported(queues, e)
    BY <1>5, <1>10, <2>1 DEF Reported, q
  <2>5. Marks(queues', tables)
    BY <2>4, Parts, MarksKept
  <2> QED BY <1>2, <1>3, <1>6, <2>2, <2>3, <2>5, Parts DEF IndInv
<1> QED BY <1>1, <1>7, <1>8, <1>9, <1>10 DEF Polled

LEMMA NextInv == IndInv /\ [Next]_vars => IndInv'
<1> SUFFICES ASSUME IndInv, [Next]_vars PROVE IndInv'
  OBVIOUS
<1>1. CASE BoundedInputs
  BY <1>1, ResetInv, DataRequestInv, RadioAnswersInv DEF BoundedInputs
<1>2. CASE Inputs
  BY <1>2, McpsDataRequestInv, AssociateResponseInv, PurgeInv, FrameAckInv, OtherInputInv
     DEF Inputs
<1>3. CASE Timers
  BY <1>3, AckTimeoutInv, TransactionTimeoutInv DEF Timers
<1>4. CASE Poll
  BY <1>4, PollPendingTableInv, PollPendingInv, PollQueueInv DEF Poll
<1>5. CASE UNCHANGED vars
  BY <1>5 DEF vars, serviceVars, counters, IndInv
<1> QED BY <1>1, <1>2, <1>3, <1>4, <1>5 DEF Next

LEMMA Invariance == Spec => []IndInv
  BY InitInv, NextInv, PTL DEF Spec

-----------------------------------------------------------------------------
(* The theorems.                                                            *)

\* An MCPS request that was neither confirmed nor purged nor dropped by a reset has
\* its handle in the map and its entry in its own destination's queue, and an
\* answered one has neither: poll_action, the purge and the reset keep the BiMap and
\* the queues in step.
THEOREM BooksAgree == Spec => []HandlesMatchQueues
<1>1. IndInv => HandlesMatchQueues
  <2> SUFFICES ASSUME IndInv, NEW k \in Keys, requests[k].mcps
               PROVE  /\ outcomes[k] = "open" <=> [handle |-> k, key |-> k] \in msdu_handles
                      /\ outcomes[k] = "open" <=> Queued(k) = {requests[k].destination}
                      /\ outcomes[k] # "open" => Queued(k) = {}
    BY DEF HandlesMatchQueues
  <2>1. k \in 1 .. Len(requests) /\ k \in 1 .. Len(outcomes) /\ outcomes[k] # "none"
    BY Parts DEF Keys, Histories
  <2>2. outcomes[k] = "open" <=> [handle |-> k, key |-> k] \in msdu_handles
    <3>1. outcomes[k] = "open" => [handle |-> k, key |-> k] \in msdu_handles
      BY <2>1, Parts DEF Handles
    <3>2. ASSUME [handle |-> k, key |-> k] \in msdu_handles PROVE outcomes[k] = "open"
      <4>1. PICK j \in 1 .. Len(requests) :
              [handle |-> k, key |-> k].key = j /\ outcomes[j] = "open"
        BY <3>2, HandleIsOpen
      <4> QED BY <4>1
    <3> QED BY <3>1, <3>2
  <2>3. Queued(k) = {d \in DOMAIN queues : k \in KeysOf(queues[d])}
    BY DEF Queued, KeysOf, Indices
  <2>4. \A d \in Queued(k) : requests[k].destination = d /\ outcomes[k] = "open"
    BY <2>1, <2>3, Parts DEF Queues
  <2>5. outcomes[k] = "open" => requests[k].destination \in Queued(k)
    BY <2>1, <2>3, Parts DEF Queues
  <2> QED BY <2>2, <2>4, <2>5
<1> QED BY <1>1, Invariance, PTL

\* While the service sleeps, the null address and every short address is marked
\* pending exactly if its queue has a frame at the front that waits for a data
\* request: no poll_action sleeps before the SetPending it owes, and one queue's
\* SetPending never changes another's mark.
THEOREM PendingBitsAreRight == Spec => []ShortPendingFollowsQueues
<1>1. IndInv => ShortPendingFollowsQueues
  <2> SUFFICES ASSUME IndInv, asleep, NEW d \in Destinations, d.mode # "Extended"
               PROVE  Marked(d) <=> Awaited(d)
    BY DEF ShortPendingFollowsQueues
  <2>1. Marked(d) <=> IsMarked(tables, d)
    BY Addresses DEF Marked, IsMarked
  <2>2. IsMarked(tables, d) <=> Reported(queues, d)
    BY Parts DEF Marks
  <2>3. Reported(queues, d) <=> Awaited(d)
    <3>1. CASE d \notin DOMAIN queues
      BY <3>1 DEF Reported, Awaited
    <3>2. CASE d \in DOMAIN queues
      <4> DEFINE pending == ShouldBePending(queues[d])
      <4>1. queues[d].last_pending_reported = {pending}
        BY <3>2, Parts DEF Quiet, UpToDate
      <4>2. pending \in BOOLEAN
        BY DEF ShouldBePending
      <4>3. {pending} = {TRUE} <=> pending
        BY <4>2
      <4> HIDE DEF pending
      <4>4. (Reported(queues, d) <=> pending) /\ (Awaited(d) <=> pending)
        BY <3>2, <4>1, <4>3 DEF Reported, Awaited, pending
      <4> QED BY <4>4
    <3> QED BY <3>1, <3>2
  <2> QED BY <2>1, <2>2, <2>3
<1> QED BY <1>1, Invariance, PTL
=============================================================================
