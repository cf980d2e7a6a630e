------------------------- MODULE Coordinator_proofs -------------------------
(***************************************************************************)
(* Proofs about Coordinator for any number of slots, retries, sequence     *)
(* numbers, scans, other devices and disturbances, and any of the radio's parameters.         *)
(***************************************************************************)
EXTENDS Coordinator, WellFoundedInduction, SequenceTheorems, TLAPS

\* A nonempty set of natural numbers has a least element.
LEMMA LeastElementExists ==
  ASSUME NEW S \in SUBSET Nat, S # {}
  PROVE  \E x \in S : \A y \in S : x <= y
<1>1. \E x \in S : \A y \in S : ~(<<y, x>> \in OpToRel(<, Nat))
  BY NatLessThanWellFounded, WFMin
<1>2. \A x, y \in S : y < x => <<y, x>> \in OpToRel(<, Nat)
  BY DEF OpToRel
<1>3. \E x \in S : \A y \in S : ~(y < x)
  BY <1>1, <1>2, Zenon
<1> QED BY <1>3

-----------------------------------------------------------------------------
(* What the operations on a queue leave of its entries and its state.       *)
EntryType == [key : Nat, indirect : BOOLEAN, acknowledge_request : BOOLEAN,
              retries_left : Int, timeout : BOOLEAN]

Indices(q) == 1 .. Len(q.entries)

IsQueue(q) ==
  /\ q = [state |-> q.state, last_pending_reported |-> q.last_pending_reported,
          entries |-> q.entries]
  /\ q.last_pending_reported \in SUBSET BOOLEAN
  /\ q.entries \in Seq(EntryType)

\* A data request of the device has come for the queue.
Asked(q) == q.state.tag = "Idle" /\ q.state.datarequest

UpToDate(q) == q.last_pending_reported = {Data!ShouldBePending(q)}

\* The entries of new were entries of q, and new is not asked unless q was.
From(new, q) ==
  /\ IsQueue(new)
  /\ \A i \in Indices(new) :
       \E j \in Indices(q) : /\ new.entries[i].key = q.entries[j].key
                             /\ new.entries[i].indirect = q.entries[j].indirect
  /\ Asked(new) => Asked(q)

\* The same, with the entries in their places.
Same(new, q) ==
  /\ IsQueue(new)
  /\ new.last_pending_reported = q.last_pending_reported
  /\ Len(new.entries) = Len(q.entries)
  /\ \A i \in Indices(q) : /\ new.entries[i].key = q.entries[i].key
                           /\ new.entries[i].indirect = q.entries[i].indirect
  /\ Asked(new) => Asked(q)

LEMMA EntriesOf ==
  ASSUME NEW q, IsQueue(q)
  PROVE  /\ q.entries \in Seq(EntryType) /\ Len(q.entries) \in Nat
         /\ q.entries # <<>> <=> 1 \in Indices(q)
         /\ \A i \in Indices(q) :
              /\ q.entries[i] \in EntryType
              /\ q.entries[i].key \in Nat /\ q.entries[i].indirect \in BOOLEAN
<1>1. q.entries \in Seq(EntryType) /\ Len(q.entries) \in Nat
  BY LenProperties DEF IsQueue
<1>2. \A i \in Indices(q) : q.entries[i] \in EntryType
  BY <1>1, ElementOfSeq DEF Indices
<1>3. q.entries # <<>> <=> 1 \in Indices(q)
  BY <1>1, EmptySeq, LenProperties DEF Indices
<1> QED BY <1>1, <1>2, <1>3 DEF EntryType

LEMMA SameIsFrom ==
  ASSUME NEW q, IsQueue(q), NEW new, Same(new, q)
  PROVE  /\ From(new, q) /\ new.last_pending_reported = q.last_pending_reported
         /\ Data!ShouldBePending(new) <=> Data!ShouldBePending(q)
         /\ UpToDate(q) => UpToDate(new)
         /\ new.entries = <<>> <=> q.entries = <<>>
<1>1. Indices(new) = Indices(q) /\ IsQueue(new)
  BY DEF Same, Indices
<1>2. From(new, q)
  BY <1>1 DEF From, Same
<1>3. new.entries = <<>> <=> q.entries = <<>>
  BY <1>1, EntriesOf
<1>4. Data!ShouldBePending(new) <=> Data!ShouldBePending(q)
  BY <1>1, <1>3, EntriesOf DEF Data!ShouldBePending, Same
<1>5. Data!ShouldBePending(new) \in BOOLEAN /\ Data!ShouldBePending(q) \in BOOLEAN
  BY DEF Data!ShouldBePending
<1>6. Data!ShouldBePending(new) = Data!ShouldBePending(q)
  BY <1>4, <1>5
<1>7. new.last_pending_reported = q.last_pending_reported
  BY DEF Same
<1>8. UpToDate(q) => UpToDate(new)
  BY <1>6, <1>7 DEF UpToDate
<1> QED BY <1>2, <1>3, <1>4, <1>7, <1>8

LEMMA SameItself ==
  ASSUME NEW q, IsQueue(q)
  PROVE  Same(q, q)
  BY DEF Same

LEMMA SameTwice ==
  ASSUME NEW q, IsQueue(q), NEW u, Same(u, q), NEW new, From(new, u)
  PROVE  From(new, q)
<1>1. Indices(u) = Indices(q)
  BY DEF Same, Indices
<1>2. ASSUME NEW i \in Indices(new)
      PROVE  \E j \in Indices(q) : /\ new.entries[i].key = q.entries[j].key
                                   /\ new.entries[i].indirect = q.entries[j].indirect
  <2>1. PICK j \in Indices(u) : /\ new.entries[i].key = u.entries[j].key
                                /\ new.entries[i].indirect = u.entries[j].indirect
    BY DEF From
  <2> QED BY <2>1, <1>1 DEF Same
<1> QED BY <1>2 DEF From, Same

\* A queue with other entries and another state.
LEMMA Changed ==
  ASSUME NEW q, IsQueue(q), NEW state, NEW entries \in Seq(EntryType), NEW new,
         new = [state |-> state, last_pending_reported |-> q.last_pending_reported,
                entries |-> entries]
  PROVE  /\ IsQueue(new) /\ new.state = state /\ new.entries = entries
         /\ new.last_pending_reported = q.last_pending_reported
  BY DEF IsQueue

\* Another state, in which the queue is not asked unless it was.
LEMMA WithState ==
  ASSUME NEW q, IsQueue(q), NEW state
  PROVE  LET new == [q EXCEPT !.state = state] IN
         /\ IsQueue(new) /\ new.state = state /\ new.entries = q.entries
         /\ new.last_pending_reported = q.last_pending_reported
         /\ ~(state.tag = "Idle" /\ state.datarequest) => Same(new, q)
<1> DEFINE new == [q EXCEPT !.state = state]
<1>1. q = [state |-> q.state, last_pending_reported |-> q.last_pending_reported,
           entries |-> q.entries] /\ q.entries \in Seq(EntryType)
      /\ q.last_pending_reported \in SUBSET BOOLEAN
  BY DEF IsQueue
<1>2. new = [state |-> state, last_pending_reported |-> q.last_pending_reported,
             entries |-> q.entries]
  BY <1>1
<1> HIDE DEF new
<1>3. /\ new.state = state /\ new.last_pending_reported = q.last_pending_reported
      /\ new.entries = q.entries
  BY <1>2
<1>4. IsQueue(new)
  BY <1>1, <1>2, <1>3 DEF IsQueue
<1>5. ~(state.tag = "Idle" /\ state.datarequest) => Same(new, q)
  BY <1>3, <1>4 DEF Same, Asked
<1> QED BY <1>3, <1>4, <1>5 DEF new

\* An entry is replaced by one for the same request.
LEMMA WithEntry ==
  ASSUME NEW q, IsQueue(q), NEW state, NEW i \in Indices(q), NEW entry \in EntryType,
         entry.key = q.entries[i].key, entry.indirect = q.entries[i].indirect,
         state.tag = "Idle" /\ state.datarequest => Asked(q)
  PROVE  Same([q EXCEPT !.state = state, !.entries[i] = entry], q)
<1> DEFINE entries == [q.entries EXCEPT ![i] = entry]
           new == [q EXCEPT !.state = state, !.entries = entries]
<1>1. [q EXCEPT !.state = state, !.entries[i] = entry] = new
  BY DEF IsQueue
<1>2. /\ entries \in Seq(EntryType) /\ Len(entries) = Len(q.entries)
      /\ \A j \in Indices(q) : entries[j] = IF j = i THEN entry ELSE q.entries[j]
  BY ExceptSeq DEF Indices, IsQueue
<1> HIDE DEF entries
<1>0. new = [state |-> state, last_pending_reported |-> q.last_pending_reported,
             entries |-> entries]
  <2> DEFINE u == [q EXCEPT !.state = state]
  <2>1. q = [state |-> q.state, last_pending_reported |-> q.last_pending_reported,
             entries |-> q.entries]
    BY DEF IsQueue
  <2>2. u = [state |-> state, last_pending_reported |-> q.last_pending_reported,
             entries |-> q.entries]
    BY <2>1
  <2>3. new = [u EXCEPT !.entries = entries]
    OBVIOUS
  <2> HIDE DEF u, new
  <2> QED BY <2>2, <2>3
<1> HIDE DEF new
<1>3. /\ IsQueue(new) /\ new.state = state /\ new.entries = entries
      /\ new.last_pending_reported = q.last_pending_reported
  BY <1>0, <1>2, Changed
<1>4. Same(new, q)
  BY <1>2, <1>3 DEF Same, Asked
<1> QED BY <1>1, <1>4

LEMMA UsedRetry ==
  ASSUME NEW entry \in EntryType
  PROVE  /\ Data!UseRetry(entry) \in EntryType /\ Data!UseRetry(entry).key = entry.key
         /\ Data!UseRetry(entry).indirect = entry.indirect
<1> DEFINE fewer == [entry EXCEPT !.retries_left = entry.retries_left - 1]
<1>1. fewer \in EntryType /\ fewer.key = entry.key /\ fewer.indirect = entry.indirect
  BY DEF EntryType
<1> QED BY <1>1 DEF Data!UseRetry

LEMMA NotAsking ==
  ASSUME NEW x, NEW y, NEW z
  PROVE  /\ ~(Data!Idle(FALSE).tag = "Idle" /\ Data!Idle(FALSE).datarequest)
         /\ Data!Sending(x, y, z).tag = "Sending"
         /\ Data!WaitingForAck(x, y).tag = "WaitingForAck"
         /\ Data!HaveResult(x).tag = "HaveResult"
  BY DEF Data!Idle, Data!Sending, Data!WaitingForAck, Data!HaveResult

LEMMA BackToIdleSame ==
  ASSUME NEW q, IsQueue(q), q.entries # <<>>
  PROVE  Same(Data!BackToIdle(q), q)
<1>1. 1 \in Indices(q) /\ q.entries[1] \in EntryType
  BY EntriesOf
<1>2. Data!BackToIdle(q) =
        [q EXCEPT !.state = Data!Idle(FALSE), !.entries[1] = Data!UseRetry(q.entries[1])]
  BY DEF Data!BackToIdle, IsQueue
<1>3. PICK state, entry : state = Data!Idle(FALSE) /\ entry = Data!UseRetry(q.entries[1])
  OBVIOUS
<1>4. /\ entry \in EntryType /\ entry.key = q.entries[1].key
      /\ entry.indirect = q.entries[1].indirect
      /\ ~(state.tag = "Idle" /\ state.datarequest)
  BY <1>1, <1>3, UsedRetry, NotAsking
<1>5. Same([q EXCEPT !.state = state, !.entries[1] = entry], q)
  BY <1>1, <1>4, WithEntry
<1> QED BY <1>2, <1>3, <1>5

LEMMA SendResultSame ==
  ASSUME NEW q, IsQueue(q), NEW key, NEW ok \in BOOLEAN
  PROVE  Same(Data!ProcessSendResult(q, key, ok), q)
<1>1. CASE ~Data!ResultIsOurs(q, key)
  BY <1>1, SameItself DEF Data!ProcessSendResult
<1>2. CASE Data!ResultIsOurs(q, key) /\ ok
  <2> DEFINE state == Data!AfterSend(q.state)
  <2>1. Data!ProcessSendResult(q, key, ok) = [q EXCEPT !.state = state]
    BY <1>2 DEF Data!ProcessSendResult, IsQueue
  <2>2. state.tag # "Idle"
    BY NotAsking DEF Data!AfterSend
  <2> HIDE DEF state
  <2> QED BY <2>1, <2>2, WithState
<1>3. CASE Data!ResultIsOurs(q, key) /\ ~ok
  <2>1. Data!ProcessSendResult(q, key, ok) =
          IF q.entries = <<>> THEN [q EXCEPT !.state = Data!Idle(FALSE)]
          ELSE IF Data!CanRetry(q) THEN Data!BackToIdle(q)
          ELSE [q EXCEPT !.state = Data!HaveResult(Data!Err("SendFailure"))]
    BY <1>3 DEF Data!ProcessSendResult
  <2>2. PICK idle, failed : /\ idle = Data!Idle(FALSE)
                            /\ failed = Data!HaveResult(Data!Err("SendFailure"))
    OBVIOUS
  <2>3. failed.tag # "Idle" /\ ~(idle.tag = "Idle" /\ idle.datarequest)
    BY <2>2, NotAsking
  <2>4. Same([q EXCEPT !.state = idle], q) /\ Same([q EXCEPT !.state = failed], q)
    BY <2>3, WithState
  <2> QED BY <2>1, <2>2, <2>4, BackToIdleSame
<1> QED BY <1>1, <1>2, <1>3

LEMMA AcknowledgeSame ==
  ASSUME NEW q, IsQueue(q), NEW seq_nr, NEW payload
  PROVE  Same(Data!ProcessAcknowledge(q, seq_nr, payload), q)
<1> DEFINE state == IF q.state.tag = "WaitingForAck" THEN Data!HaveResult(Data!Ok(payload))
                    ELSE Data!Sending(q.state.send_key, {}, payload)
<1>1. Data!ProcessAcknowledge(q, seq_nr, payload) = q
        \/ Data!ProcessAcknowledge(q, seq_nr, payload) = [q EXCEPT !.state = state]
  BY DEF Data!ProcessAcknowledge, IsQueue
<1>2. state.tag # "Idle"
  BY NotAsking
<1> HIDE DEF state
<1> QED BY <1>1, <1>2, WithState, SameItself

LEMMA AckTimerSame ==
  ASSUME NEW q, IsQueue(q), q.state.tag = "WaitingForAck"
  PROVE  Same([q EXCEPT !.state.timeout = TRUE], q)
<1> DEFINE state == [q.state EXCEPT !.timeout = TRUE]
<1>1. [q EXCEPT !.state.timeout = TRUE] = [q EXCEPT !.state = state]
  BY DEF IsQueue
<1>2. state.tag = "WaitingForAck"
  OBVIOUS
<1> HIDE DEF state
<1> QED BY <1>1, <1>2, WithState

LEMMA TransactionTimerSame ==
  ASSUME NEW q, IsQueue(q), NEW i \in Indices(q)
  PROVE  Same([q EXCEPT !.entries[i].timeout = TRUE], q)
<1> DEFINE entry == [q.entries[i] EXCEPT !.timeout = TRUE]
<1>0. q.entries[i] \in EntryType
  BY EntriesOf
<1>1. entry \in EntryType /\ entry.key = q.entries[i].key /\ entry.indirect = q.entries[i].indirect
  BY <1>0 DEF EntryType
<1>2. [q EXCEPT !.entries[i].timeout = TRUE] = [q EXCEPT !.state = q.state, !.entries[i] = entry]
  BY DEF IsQueue
<1> HIDE DEF entry
<1>3. Same([q EXCEPT !.state = q.state, !.entries[i] = entry], q)
  BY <1>1, WithEntry DEF Asked
<1> QED BY <1>2, <1>3

LEMMA DropFrom ==
  ASSUME NEW q, IsQueue(q), NEW i \in Indices(q)
  PROVE  /\ From(Data!Drop(q, i), q)
         /\ Data!Drop(q, i).last_pending_reported = q.last_pending_reported
<1> DEFINE n == Len(q.entries)
           entries == [j \in 1 .. n - 1 |-> IF j < i THEN q.entries[j] ELSE q.entries[j + 1]]
           state == Data!StateWithout(q, i)
           new == [q EXCEPT !.state = state, !.entries = entries]
<1>1. Data!Drop(q, i) = new
  BY DEF Data!Drop, IsQueue
<1>2. /\ n \in Nat /\ i \in 1 .. n /\ n - 1 \in Nat
      /\ \A j \in 1 .. n : q.entries[j] \in EntryType
  BY EntriesOf DEF Indices
<1>3. \A j \in 1 .. n - 1 : j \in 1 .. n /\ j + 1 \in 1 .. n
  BY <1>2
<1>4. entries \in [1 .. n - 1 -> EntryType]
  BY <1>2, <1>3
<1>5. entries \in Seq(EntryType) /\ Len(entries) = n - 1
  BY <1>2, <1>4
<1>6. \A j \in 1 .. n - 1 : \E m \in 1 .. n : entries[j] = q.entries[m]
  BY <1>3
<1>7. state.tag = "Idle" /\ state.datarequest => Asked(q)
  BY NotAsking DEF Data!StateWithout, Asked
<1> HIDE DEF entries, state
<1>0. new = [state |-> state, last_pending_reported |-> q.last_pending_reported,
             entries |-> entries]
  <2> DEFINE u == [q EXCEPT !.state = state]
  <2>1. q = [state |-> q.state, last_pending_reported |-> q.last_pending_reported,
             entries |-> q.entries]
    BY DEF IsQueue
  <2>2. u = [state |-> state, last_pending_reported |-> q.last_pending_reported,
             entries |-> q.entries]
    BY <2>1
  <2>3. new = [u EXCEPT !.entries = entries]
    OBVIOUS
  <2> HIDE DEF u, new
  <2> QED BY <2>2, <2>3
<1> HIDE DEF new
<1>8. /\ IsQueue(new) /\ new.state = state /\ new.entries = entries
      /\ new.last_pending_reported = q.last_pending_reported
  <2>1. entries \in Seq(EntryType)
    BY <1>5
  <2> HIDE DEF n
  <2> QED BY <1>0, <2>1, Changed, Zenon
<1>9. Indices(new) = 1 .. n - 1 /\ Indices(q) = 1 .. n
  BY <1>5, <1>8 DEF Indices
<1>10. Asked(new) => Asked(q)
  BY <1>7, <1>8 DEF Asked
<1>11. ASSUME NEW j \in Indices(new)
       PROVE  \E m \in Indices(q) : /\ new.entries[j].key = q.entries[m].key
                                    /\ new.entries[j].indirect = q.entries[m].indirect
  <2>1. PICK m \in 1 .. n : entries[j] = q.entries[m]
    BY <1>6, <1>9
  <2> QED BY <1>8, <1>9, <2>1
<1>12. From(new, q)
  BY <1>8, <1>10, <1>11 DEF From
<1> QED BY <1>1, <1>8, <1>12

\* insert adds the entry, or leaves the queue alone.
LEMMA InsertShape ==
  ASSUME NEW q, IsQueue(q), NEW entry \in EntryType
  PROVE  LET new == Data!Insert(q, entry) IN
         /\ IsQueue(new) /\ new.last_pending_reported = q.last_pending_reported
         /\ new.state = q.state
         /\ \A i \in Indices(new) :
              \/ new.entries[i] = entry
              \/ \E j \in Indices(q) : new.entries[i] = q.entries[j]
<1> DEFINE n == Len(q.entries)
           entries == Append(q.entries, entry)
           new == [q EXCEPT !.entries = entries]
<1>1. CASE Data!Contains(q, entry.key)
  BY <1>1 DEF Data!Insert
<1>2. CASE ~Data!Contains(q, entry.key)
  <2>1. Data!Insert(q, entry) = new
    BY <1>2 DEF Data!Insert, IsQueue
  <2>2. /\ q.entries \in Seq(EntryType) /\ n \in Nat /\ q.last_pending_reported \in SUBSET BOOLEAN
        /\ q = [state |-> q.state, last_pending_reported |-> q.last_pending_reported,
                entries |-> q.entries]
    BY EntriesOf DEF IsQueue
  <2>3. /\ entries \in Seq(EntryType) /\ Len(entries) = n + 1 /\ entries[n + 1] = entry
        /\ \A i \in 1 .. n : entries[i] = q.entries[i]
    BY <2>2, AppendProperties
  <2> HIDE DEF entries
  <2>4. new = [state |-> q.state, last_pending_reported |-> q.last_pending_reported,
               entries |-> entries]
    BY <2>2
  <2> HIDE DEF new
  <2>5. /\ new.entries = entries /\ new.last_pending_reported = q.last_pending_reported
        /\ new.state = q.state
    BY <2>4
  <2>6. IsQueue(new)
    BY <2>2, <2>3, <2>4, <2>5 DEF IsQueue
  <2>7. \A i \in 1 .. n + 1 : i \in 1 .. n \/ i = n + 1
    BY <2>2
  <2>8. \A i \in Indices(new) : \/ new.entries[i] = entry
                                \/ \E j \in Indices(q) : new.entries[i] = q.entries[j]
    BY <2>3, <2>5, <2>7 DEF Indices
  <2> QED BY <2>1, <2>5, <2>6, <2>8
<1> QED BY <1>1, <1>2

LEMMA NewQueue ==
  /\ IsQueue(Data!New) /\ Indices(Data!New) = {} /\ Data!New.last_pending_reported = {}
  /\ ~Asked(Data!New)
<1>1. Data!New.entries \in Seq(EntryType) /\ Len(Data!New.entries) = 0
  BY DEF Data!New
<1>2. Data!New.state = Data!Idle(FALSE)
  BY DEF Data!New
<1>3. ~Asked(Data!New)
  BY <1>2, NotAsking DEF Asked
<1> QED BY <1>1, <1>3 DEF Data!New, IsQueue, Indices

LEMMA SettleSame ==
  ASSUME NEW q, IsQueue(q), q.entries # <<>>
  PROVE  Same(Data!Settle(q), q)
<1>1. CASE Data!AckTimedOut(q)
  <2>1. Data!Settle(q) = Data!BackToIdle(q)
    BY <1>1 DEF Data!Settle, Data!AckTimedOut
  <2> QED BY <2>1, BackToIdleSame
<1>2. CASE ~Data!AckTimedOut(q) /\ q.state.tag = "Idle"
  <2>1. PICK idle : idle = Data!Idle(FALSE)
    OBVIOUS
  <2>2. Data!Settle(q) = [q EXCEPT !.state = idle]
    BY <1>2, <2>1 DEF Data!Settle
  <2>3. ~(idle.tag = "Idle" /\ idle.datarequest)
    BY <2>1, NotAsking
  <2> QED BY <2>2, <2>3, WithState
<1>3. CASE ~Data!AckTimedOut(q) /\ q.state.tag # "Idle"
  <2>1. Data!Settle(q) = q
    BY <1>3 DEF Data!Settle
  <2> QED BY <2>1, SameItself
<1> QED BY <1>1, <1>2, <1>3

\* What a poll returns of the queue q and leaves in it.  An indirect frame is sent
\* only if the device has asked for it.
Polled(new, action, q) ==
  /\ From(new, q)
  /\ \/ /\ action.type = "ReportResult"
        /\ new.last_pending_reported = q.last_pending_reported
     \/ /\ action = Data!Empty
        /\ q.last_pending_reported = {FALSE}
     \/ /\ action.type = "SetPending" /\ action.pending \in BOOLEAN
        /\ new.last_pending_reported = {action.pending}
     \/ /\ action.type = "Pending" /\ action = Data!Pending
        /\ new.last_pending_reported = q.last_pending_reported /\ UpToDate(new)
     \/ /\ action.type = "SendFrame"
        /\ new.last_pending_reported = q.last_pending_reported
        /\ \E i \in Indices(q) : /\ action.key = q.entries[i].key
                                 /\ q.entries[i].indirect => Asked(q)

LEMMA Expires ==
  ASSUME NEW q, IsQueue(q), UpToDate(q)
  PROVE  Polled(Data!ExpireOrWait(q).queue, Data!ExpireOrWait(q).action, q)
<1>1. CASE Data!Expired(q) = {}
  <2>1. Data!ExpireOrWait(q) = [queue |-> q, action |-> Data!Pending]
    BY <1>1 DEF Data!ExpireOrWait
  <2>2. /\ Data!ExpireOrWait(q).queue = q /\ Data!ExpireOrWait(q).action = Data!Pending
        /\ Data!Pending.type = "Pending"
    BY <2>1 DEF Data!Pending
  <2>3. From(q, q)
    BY SameItself, SameIsFrom
  <2> QED BY <2>2, <2>3 DEF Polled
<1>2. CASE Data!Expired(q) # {}
  <2> DEFINE i == Data!FirstExpired(q)
             action == Data!ReportResult(q.entries[i].key, Data!Err("TransactionExpired"))
  <2>1. i \in Indices(q)
    <3>1. Data!Expired(q) \subseteq Indices(q) /\ Data!Expired(q) \in SUBSET Nat
      BY EntriesOf DEF Data!Expired, Indices
    <3>2. \E j \in Data!Expired(q) : \A m \in Data!Expired(q) : j <= m
      BY <1>2, <3>1, LeastElementExists
    <3>3. Data!FirstExpired(q) \in Data!Expired(q)
      BY <3>2 DEF Data!FirstExpired
    <3> QED BY <3>1, <3>3
  <2>2. Data!ExpireOrWait(q) = [queue |-> Data!Drop(q, i), action |-> action]
    BY <1>2 DEF Data!ExpireOrWait
  <2>3. action.type = "ReportResult"
    BY DEF Data!ReportResult
  <2> HIDE DEF i, action
  <2>4. Data!ExpireOrWait(q).queue = Data!Drop(q, i) /\ Data!ExpireOrWait(q).action = action
    BY <2>2
  <2>5. /\ From(Data!Drop(q, i), q)
        /\ Data!Drop(q, i).last_pending_reported = q.last_pending_reported
    BY <2>1, DropFrom
  <2>6. Polled(Data!Drop(q, i), action, q)
    BY <2>3, <2>5 DEF Polled
  <2> QED BY <2>4, <2>6
<1> QED BY <1>1, <1>2

LEMMA PolledSame ==
  ASSUME NEW q, IsQueue(q), NEW settled, Same(settled, q), NEW new, NEW action,
         Polled(new, action, settled), ~Asked(q)
  PROVE  Polled(new, action, q)
<1>1. /\ settled.last_pending_reported = q.last_pending_reported
      /\ Indices(settled) = Indices(q) /\ ~Asked(settled)
      /\ \A i \in Indices(q) : /\ settled.entries[i].key = q.entries[i].key
                               /\ settled.entries[i].indirect = q.entries[i].indirect
  BY DEF Same, Indices
<1>2. From(new, q)
  BY SameTwice DEF Polled
<1>3. ASSUME \E i \in Indices(settled) : /\ action.key = settled.entries[i].key
                                         /\ settled.entries[i].indirect => Asked(settled)
      PROVE  \E i \in Indices(q) : /\ action.key = q.entries[i].key
                                   /\ q.entries[i].indirect => Asked(q)
  BY <1>1, <1>3
<1> QED BY <1>1, <1>2, <1>3 DEF Polled

LEMMA Delivers ==
  ASSUME NEW q, IsQueue(q), q.entries # <<>>, NEW result
  PROVE  Polled(Data!Drop(q, 1), Data!ReportResult(q.entries[1].key, result), q)
<1> DEFINE action == Data!ReportResult(q.entries[1].key, result)
<1>1. action.type = "ReportResult"
  BY DEF Data!ReportResult
<1>2. 1 \in Indices(q)
  BY EntriesOf
<1> HIDE DEF action
<1>3. /\ From(Data!Drop(q, 1), q)
      /\ Data!Drop(q, 1).last_pending_reported = q.last_pending_reported
  BY <1>2, DropFrom
<1>4. Polled(Data!Drop(q, 1), action, q)
  BY <1>1, <1>3 DEF Polled
<1> QED BY <1>4 DEF action

LEMMA PollShape ==
  ASSUME NEW q, IsQueue(q), NEW send_key, NEW seq
  PROVE  LET polled == Data!PollNextAction(q, send_key, seq) IN
         Polled(polled.queue, polled.action, q)
<1> DEFINE polled == Data!PollNextAction(q, send_key, seq)
           pending == Data!ShouldBePending(q)
<1>1. pending \in BOOLEAN
  BY DEF Data!ShouldBePending
<1>2. CASE ~UpToDate(q)
  <2> DEFINE new == [q EXCEPT !.last_pending_reported = {pending}]
             action == Data!SetPending(pending)
  <2>1. polled = [queue |-> new, action |-> action]
    BY <1>2 DEF Data!PollNextAction, UpToDate, Data!PollSetPending, Data!RememberReported
  <2>2. q = [state |-> q.state, last_pending_reported |-> q.last_pending_reported,
             entries |-> q.entries]
    BY DEF IsQueue
  <2>3. action.type = "SetPending" /\ action.pending = pending
    BY <1>1 DEF Data!SetPending
  <2> HIDE DEF pending, action
  <2>4. new = [state |-> q.state, last_pending_reported |-> {pending}, entries |-> q.entries]
    BY <2>2
  <2> HIDE DEF new
  <2>5. /\ new.entries = q.entries /\ new.last_pending_reported = {pending}
        /\ new.state = q.state
        /\ new = [state |-> new.state, last_pending_reported |-> new.last_pending_reported,
                  entries |-> new.entries]
    BY <2>4
  <2>6. IsQueue(new)
    BY <1>1, <2>5 DEF IsQueue
  <2>7. From(new, q)
    BY <2>5, <2>6 DEF From, Indices, Asked
  <2>8. polled.queue = new /\ polled.action = action
    BY <2>1
  <2> HIDE DEF polled
  <2>9. action.pending \in BOOLEAN /\ new.last_pending_reported = {action.pending}
    BY <1>1, <2>3, <2>5
  <2>10. Polled(new, action, q)
    BY <2>3, <2>7, <2>9 DEF Polled
  <2>11. Polled(polled.queue, polled.action, q)
    BY <2>8, <2>10
  <2> QED BY <2>11 DEF polled
<1>3. CASE UpToDate(q) /\ q.entries = <<>>
  <2> DEFINE idle == Data!Idle(FALSE)
             new == [q EXCEPT !.state = idle]
  <2>1. polled = [queue |-> new, action |-> Data!Empty]
    BY <1>3 DEF Data!PollNextAction, UpToDate, Data!PollEmpty
  <2>2. ~(idle.tag = "Idle" /\ idle.datarequest)
    BY NotAsking
  <2> HIDE DEF idle
  <2>3. Same(new, q)
    BY <2>2, WithState
  <2> HIDE DEF new
  <2>4. From(new, q)
    BY <2>3, SameIsFrom
  <2>5. q.last_pending_reported = {FALSE}
    <3>1. pending = FALSE
      BY <1>3 DEF Data!ShouldBePending
    <3> QED BY <1>3, <3>1 DEF UpToDate
  <2>6. polled.queue = new /\ polled.action = Data!Empty
    BY <2>1
  <2> HIDE DEF polled
  <2>7. Polled(polled.queue, polled.action, q)
    BY <2>4, <2>5, <2>6 DEF Polled
  <2> QED BY <2>7 DEF polled
<1>4. CASE UpToDate(q) /\ q.entries # <<>>
  <2>1. polled = Data!PollEntries(q, send_key, seq)
    BY <1>4 DEF Data!PollNextAction, UpToDate
  <2>2. CASE Data!ShouldSend(q)
    <3> DEFINE state == Data!Sending(send_key,
                          IF q.entries[1].acknowledge_request THEN {seq} ELSE {}, NoPayload)
               new == [q EXCEPT !.state = state]
               action == Data!SendFrame(send_key, q.entries[1].key, seq, Data!MorePending(q))
    <3>1. polled = [queue |-> new, action |-> action]
      BY <2>1, <2>2 DEF Data!PollEntries, Data!ShouldSend, Data!AckTimedOut
    <3>2. action.type = "SendFrame" /\ action.key = q.entries[1].key
      BY DEF Data!SendFrame
    <3>3. state.tag # "Idle"
      BY NotAsking
    <3>4. 1 \in Indices(q) /\ (q.entries[1].indirect => Asked(q))
      BY <1>4, <2>2, EntriesOf DEF Data!ShouldSend, Asked
    <3> HIDE DEF state, action
    <3>5. Same(new, q)
      BY <3>3, WithState
    <3> HIDE DEF new
    <3>6. From(new, q) /\ new.last_pending_reported = q.last_pending_reported
      BY <3>5, SameIsFrom
    <3>7. polled.queue = new /\ polled.action = action
      BY <3>1
    <3> HIDE DEF polled
    <3>8. Polled(polled.queue, polled.action, q)
      BY <3>2, <3>4, <3>6, <3>7 DEF Polled
    <3> QED BY <3>8 DEF polled
  <2>3. CASE ~Data!ShouldSend(q) /\ q.state.tag = "HaveResult"
    <3>1. polled = [queue |-> Data!Drop(q, 1),
                    action |-> Data!ReportResult(q.entries[1].key, q.state.result)]
      BY <2>1, <2>3 DEF Data!PollEntries, Data!AckTimedOut
    <3>2. polled.queue = Data!Drop(q, 1)
          /\ polled.action = Data!ReportResult(q.entries[1].key, q.state.result)
      BY <3>1
    <3>3. Polled(polled.queue, polled.action, q)
      BY <1>4, <3>2, Delivers
    <3> QED BY <3>3
  <2>4. CASE ~Data!ShouldSend(q) /\ Data!AckTimedOut(q) /\ ~Data!CanRetry(q)
    <3>1. polled = [queue |-> Data!Drop(q, 1),
                    action |-> Data!ReportResult(q.entries[1].key, Data!Err("NoAck"))]
      BY <2>1, <2>4 DEF Data!PollEntries, Data!AckTimedOut
    <3>2. polled.queue = Data!Drop(q, 1)
          /\ polled.action = Data!ReportResult(q.entries[1].key, Data!Err("NoAck"))
      BY <3>1
    <3>3. Polled(polled.queue, polled.action, q)
      BY <1>4, <3>2, Delivers
    <3> QED BY <3>3
  <2>5. CASE /\ ~Data!ShouldSend(q) /\ q.state.tag # "HaveResult"
             /\ ~(Data!AckTimedOut(q) /\ ~Data!CanRetry(q))
    <3>1. polled = Data!ExpireOrWait(Data!Settle(q))
      BY <2>1, <2>5 DEF Data!PollEntries
    <3>2. Same(Data!Settle(q), q)
      BY <1>4, SettleSame
    <3>3. IsQueue(Data!Settle(q)) /\ UpToDate(Data!Settle(q))
      BY <1>4, <3>2, SameIsFrom DEF Same
    <3>4. Polled(polled.queue, polled.action, Data!Settle(q))
      BY <3>1, <3>3, Expires
    <3>5. ~Asked(q)
      BY <2>5 DEF Data!ShouldSend, Asked
    <3> QED BY <3>2, <3>4, <3>5, PolledSame
  <2> QED BY <2>2, <2>3, <2>4, <2>5
<1> QED BY <1>2, <1>3, <1>4

-----------------------------------------------------------------------------
(* The inductive invariant, in parts that are each a fact about a few of the *)
(* variables.                                                               *)
Address == Data!Short(Pan, DeviceAddress)
Knows(status) == status \in {"joined", "served"}

IsSequence(s) == Len(s) \in Nat /\ s = [i \in 1 .. Len(s) |-> s[i]]

\* The main loop only ever sends AssociateData.
MainInv(r, mcps) == r \subseteq {AssociateData} /\ mcps \in Seq({AssociateData})

\* MCPS requests are for the address that every device gets.
RequestsInv(rs) ==
  /\ IsSequence(rs)
  /\ \A k \in 1 .. Len(rs) : rs[k].mcps => rs[k].destination = Address

\* A queue holds requests for its destination; those for Address are indirect, and
\* only a device that knows its address has asked for them.
EntryInv(entry, d, rs) ==
  /\ entry.key \in 1 .. Len(rs)
  /\ rs[entry.key].destination = d
  /\ d = Address => entry.indirect

QueueInv(q, d, rs, status) ==
  /\ IsQueue(q)
  /\ \A i \in Indices(q) : EntryInv(q.entries[i], d, rs)
  /\ d = Address /\ Asked(q) => Knows(status)

QueuesInv(qs, rs, status) ==
  /\ qs = [d \in DOMAIN qs |-> qs[d]]
  /\ \A d \in DOMAIN qs : QueueInv(qs[d], d, rs, status)

SentInv(l, rs, status) ==
  \A i \in 1 .. Len(l) :
    l[i].content.type = "SendFrame" =>
      /\ l[i].content.key \in 1 .. Len(rs)
      /\ rs[l[i].content.key].mcps => Knows(status)

\* The link's messages, each with a key of its own.
MessageInv(m) ==
  \/ m.type = "SetParam" /\ m.content.type = "SetParam" /\ m.content.param \in Params
  \/ m.type = "SendPacket" /\ m.content.type \in {"Beacon", "SendFrame"}
  \/ m.type = "Init" /\ m.content.type = "Init"
  \/ m.type = "Update" /\ m.content.type \in {"UpdateShort", "UpdateExtended"}

LinkInv(l, key) ==
  /\ key \in Nat /\ IsSequence(l)
  /\ \A i \in 1 .. Len(l) : MessageInv(l[i]) /\ l[i].key \in Nat /\ l[i].key < key
  /\ \A i, j \in 1 .. Len(l) : i < j => l[i].key < l[j].key

\* A parameter is to be sent, or the last message for it has what was requested, or
\* there is none and the radio has it.
SetsParam(m, param) == m.type = "SetParam" /\ m.content.param = param
Tracked(info, l, value, param) ==
  \/ info.updating = {} /\ info.dirty
  \/ /\ info.updating = {} /\ ~info.dirty
     /\ \A i \in 1 .. Len(l) : ~SetsParam(l[i], param)
     /\ value = info.requested_value
  \/ \E i \in 1 .. Len(l) :
       /\ info.updating = {l[i].key} /\ SetsParam(l[i], param)
       /\ ~info.dirty => l[i].content.value = info.requested_value
       /\ \A j \in i + 1 .. Len(l) : ~SetsParam(l[j], param)

IsInfo(info) ==
  /\ info = [requested_value |-> info.requested_value, updating |-> info.updating,
             dirty |-> info.dirty]
  /\ info.dirty \in BOOLEAN

PibFields == DOMAIN SettableTypes \cup Unreadable \cup ReadOnly \cup {"mac_associated_pan_coord"}
IsPib(p) == p = [field \in PibFields |-> p[field]]

ParamsInv(ps, p, l, values) ==
  /\ IsPib(p) /\ ps = [param \in Params |-> ps[param]]
  /\ \A param \in Params : /\ IsInfo(ps[param])
                           /\ ps[param].requested_value = ParamValue(p, param)
                           /\ Tracked(ps[param], l, values[param], param)

RadioInv(r) ==
  /\ r = [params |-> r.params, short |-> r.short, extended |-> r.extended]
  /\ r.params = [param \in Params |-> r.params[param]]
  /\ r.short = [i \in Slots |-> r.short[i]]

\* The table of short addresses has a slot for Address exactly while it is marked.
Value == <<Pan, DeviceAddress>>
Contents == [dirty : BOOLEAN, value : {{}, {Value}}]
ShortInv(t) ==
  /\ t \in [values : {{}, {Value}}, table : [Slots -> Contents], order : [Slots -> Slots],
            updating : SUBSET (Nat \X Slots)]
  /\ Value \in t.values <=> \E i \in Slots : t.table[i].value = {Value}
  /\ \A i, j \in Slots : t.table[i].value = {Value} /\ t.table[j].value = {Value} => i = j

\* Until the radio has cleared its tables no update is under way; from then on none
\* of an earlier table is left, and a slot that is clean is the radio's, or is being
\* made so by the only update there is.
IsShortUpdate(m) == m.content.type = "UpdateShort"
NoShortUpdate(l) == \A i \in 1 .. Len(l) : ~IsShortUpdate(l[i])
Clears(l, key) ==
  \E i \in 1 .. Len(l) : /\ l[i].type = "Init" /\ key = {l[i].key}
                         /\ \A j \in i + 1 .. Len(l) :
                              ~IsShortUpdate(l[j]) /\ l[j].type # "Init"
Synced(t, slots) ==
  \A i \in Slots : ~t.table[i].dirty /\ (\A u \in t.updating : u[2] # i) =>
    slots[i] = t.table[i].value
Updates(t, l) ==
  \E i \in 1 .. Len(l) :
    /\ IsShortUpdate(l[i])
    /\ t.updating = {<<l[i].key, l[i].content.index>>}
    /\ ~t.table[l[i].content.index].dirty =>
         l[i].content.value = t.table[l[i].content.index].value
    /\ \A j \in 1 .. Len(l) : j # i => ~IsShortUpdate(l[j])

Running(c, l, slots) ==
  /\ c.is_initialized /\ c.initializing = {}
  /\ \A i \in 1 .. Len(l) : l[i].type # "Init"
  /\ \/ c.short.updating = {} /\ NoShortUpdate(l)
     \/ Updates(c.short, l)
  /\ Synced(c.short, slots)

IsTables(c) ==
  /\ c = [initializing |-> c.initializing, is_initialized |-> c.is_initialized,
          none |-> c.none, short |-> c.short, extended |-> c.extended]
  /\ ShortInv(c.short) /\ c.is_initialized \in BOOLEAN

TablesInv(c, l, slots) ==
  /\ IsTables(c)
  /\ \/ ~c.is_initialized /\ c.initializing = {} /\ c.short.updating = {}
     \/ ~c.is_initialized /\ c.short.updating = {} /\ Clears(l, c.initializing)
     \/ Running(c, l, slots)

\* Address is the only short address with a queue, and is marked if that has last
\* reported so.
Reports(qs) == Address \in DOMAIN qs /\ qs[Address].last_pending_reported = {TRUE}
MarkInv(c, qs) ==
  /\ \A d \in DOMAIN qs : d = Address \/ d.mode = "Extended"
  /\ Value \in c.short.values <=> Reports(qs)

\* Queues in quiet have reported what they should; a MAC that sleeps has nothing to
\* send.
QuietInv(sleep, qt, qs, ps, c) ==
  /\ sleep \in BOOLEAN
  /\ qt \subseteq DOMAIN qs
  /\ \A d \in qt : UpToDate(qs[d])
  /\ sleep => /\ qt = DOMAIN qs
              /\ \A param \in Params : ~ToSend(ps[param])
              /\ c.initializing # {} \/ (c.is_initialized /\ ~Data!HasUpdate(c.short))

-----------------------------------------------------------------------------
(* The parts under the changes that the actions make: sequences first.      *)
Appended(new, l, m) ==
  /\ IsSequence(new) /\ Len(l) \in Nat /\ Len(new) = Len(l) + 1 /\ new[Len(l) + 1] = m
  /\ \A i \in 1 .. Len(l) : new[i] = l[i]

Shortened(new, l) ==
  /\ IsSequence(new) /\ Len(l) \in Nat \ {0} /\ Len(new) = Len(l) - 1
  /\ \A i \in 1 .. Len(new) : new[i] = l[i + 1]

LEMMA EmptySequence == IsSequence(<<>>) /\ 1 .. Len(<<>>) = {}
<1>1. Len(<<>>) = 0 /\ 1 .. 0 = {}
  OBVIOUS
<1> QED BY <1>1 DEF IsSequence

LEMMA SequenceIsSeq ==
  ASSUME NEW l, IsSequence(l)
  PROVE  l \in Seq({l[i] : i \in 1 .. Len(l)})
<1> DEFINE S == {l[i] : i \in 1 .. Len(l)}
<1>1. l \in [1 .. Len(l) -> S] /\ Len(l) \in Nat
  BY DEF IsSequence
<1> HIDE DEF S
<1>2. l \in Seq(S)
  BY <1>1
<1> QED BY <1>2 DEF S

LEMMA SeqIsSequence ==
  ASSUME NEW S, NEW l \in Seq(S)
  PROVE  IsSequence(l)
  BY LenProperties DEF IsSequence

LEMMA AppendSequence ==
  ASSUME NEW l, IsSequence(l), NEW m
  PROVE  Appended(Append(l, m), l, m)
<1> DEFINE S == {l[i] : i \in 1 .. Len(l)}
           T == S \cup {m}
<1>1. l \in Seq(S) /\ Len(l) \in Nat
  BY SequenceIsSeq DEF IsSequence
<1> HIDE DEF S
<1>2. l \in Seq(T) /\ m \in T
  BY <1>1
<1> HIDE DEF T
<1>3. /\ Append(l, m) \in Seq(T) /\ Len(Append(l, m)) = Len(l) + 1
      /\ \A i \in 1 .. Len(l) : Append(l, m)[i] = l[i]
      /\ Append(l, m)[Len(l) + 1] = m
  BY <1>2, AppendProperties
<1>4. IsSequence(Append(l, m))
  BY <1>3, SeqIsSequence
<1> QED BY <1>1, <1>3, <1>4 DEF Appended

LEMMA TailSequence ==
  ASSUME NEW l, IsSequence(l), l # <<>>
  PROVE  Shortened(Tail(l), l) /\ Head(l) = l[1] /\ 1 \in 1 .. Len(l)
<1> DEFINE S == {l[i] : i \in 1 .. Len(l)}
           t == Tail(l)
<1>1. l \in Seq(S) /\ Len(l) \in Nat
  BY SequenceIsSeq DEF IsSequence
<1> HIDE DEF S
<1>2. /\ t \in Seq(S) /\ Len(t) = Len(l) - 1 /\ Head(l) = l[1] /\ Len(l) # 0
      /\ \A i \in 1 .. Len(t) : t[i] = l[i + 1]
  BY <1>1, HeadTailProperties, EmptySeq
<1> HIDE DEF t
<1>3. IsSequence(t)
  BY <1>2, SeqIsSequence
<1>4. Shortened(t, l) /\ 1 \in 1 .. Len(l)
  BY <1>1, <1>2, <1>3 DEF Shortened
<1> QED BY <1>2, <1>4 DEF t

\* The places of the longer sequence.
LEMMA AppendedPlaces ==
  ASSUME NEW new, NEW l, NEW m, Appended(new, l, m)
  PROVE  /\ \A i \in 1 .. Len(new) : i \in 1 .. Len(l) \/ i = Len(l) + 1
         /\ \A i \in 1 .. Len(l) : i \in 1 .. Len(new) /\ i < Len(l) + 1
         /\ Len(l) + 1 \in 1 .. Len(new)
  BY DEF Appended

LEMMA ShortenedPlaces ==
  ASSUME NEW new, NEW l, Shortened(new, l)
  PROVE  /\ \A i \in 1 .. Len(new) : i + 1 \in 1 .. Len(l) /\ i + 1 # 1
         /\ \A i \in 1 .. Len(l) : i # 1 => i - 1 \in 1 .. Len(new) /\ new[i - 1] = l[i]
         /\ 1 \in 1 .. Len(l)
<1>1. /\ \A i \in 1 .. Len(new) : i + 1 \in 1 .. Len(l) /\ i + 1 # 1
      /\ \A i \in 1 .. Len(l) : i # 1 => i - 1 \in 1 .. Len(new) /\ (i - 1) + 1 = i
      /\ 1 \in 1 .. Len(l)
  BY DEF Shortened
<1> QED BY <1>1 DEF Shortened

LEMMA LinkAppended ==
  ASSUME NEW l, NEW key, LinkInv(l, key), NEW new, NEW m, Appended(new, l, m),
         MessageInv(m), m.key = key
  PROVE  LinkInv(new, key + 1)
<1>1. /\ key \in Nat /\ key + 1 \in Nat
      /\ \A i \in 1 .. Len(l) : MessageInv(l[i]) /\ l[i].key \in Nat /\ l[i].key < key
      /\ \A i, j \in 1 .. Len(l) : i < j => l[i].key < l[j].key
  BY DEF LinkInv
<1>2. /\ new[Len(l) + 1] = m /\ \A i \in 1 .. Len(l) : new[i] = l[i]
      /\ \A i \in 1 .. Len(new) : i \in 1 .. Len(l) \/ i = Len(l) + 1
      /\ \A i \in 1 .. Len(l) : i \in 1 .. Len(new) /\ i < Len(l) + 1
      /\ IsSequence(new) /\ Len(l) \in Nat
  BY AppendedPlaces DEF Appended
<1>3. ASSUME NEW i \in 1 .. Len(new)
      PROVE  MessageInv(new[i]) /\ new[i].key \in Nat /\ new[i].key < key + 1
  <2>1. CASE i \in 1 .. Len(l)
    <3>1. MessageInv(l[i]) /\ l[i].key \in Nat /\ l[i].key < key + 1
      BY <2>1, <1>1
    <3> QED BY <2>1, <3>1, <1>2
  <2>2. CASE i = Len(l) + 1
    BY <2>2, <1>1, <1>2
  <2> QED BY <2>1, <2>2, <1>2
<1>4. ASSUME NEW i \in 1 .. Len(new), NEW j \in 1 .. Len(new), i < j
      PROVE  new[i].key < new[j].key
  <2>1. i \in 1 .. Len(l)
    BY <1>2, <1>4
  <2>2. CASE j \in 1 .. Len(l)
    BY <2>1, <2>2, <1>1, <1>2, <1>4
  <2>3. CASE j = Len(l) + 1
    BY <2>1, <2>3, <1>1, <1>2
  <2> QED BY <2>2, <2>3, <1>2
<1> QED BY <1>1, <1>2, <1>3, <1>4 DEF LinkInv

LEMMA LinkShortened ==
  ASSUME NEW l, NEW key, LinkInv(l, key), NEW new, Shortened(new, l)
  PROVE  LinkInv(new, key)
<1>1. /\ \A i \in 1 .. Len(new) : i + 1 \in 1 .. Len(l) /\ new[i] = l[i + 1]
      /\ IsSequence(new)
  BY ShortenedPlaces DEF Shortened
<1>2. \A i, j \in 1 .. Len(new) : i < j => i + 1 < j + 1
  OBVIOUS
<1> QED BY <1>1, <1>2 DEF LinkInv

LEMMA LinkEmpty ==
  ASSUME NEW l, NEW key, LinkInv(l, key)
  PROVE  LinkInv(<<>>, key)
  BY EmptySequence DEF LinkInv

-----------------------------------------------------------------------------
(* Requests and queues.                                                     *)
\* The history of the requests is only added to.
Grown(rs2, rs) ==
  \A k \in 1 .. Len(rs) : k \in 1 .. Len(rs2) /\ rs2[k] = rs[k]

LEMMA SentAppended ==
  ASSUME NEW l, NEW rs, NEW status, SentInv(l, rs, status), NEW new, NEW m,
         Appended(new, l, m),
         m.content.type = "SendFrame" => /\ m.content.key \in 1 .. Len(rs)
                                         /\ rs[m.content.key].mcps => Knows(status)
  PROVE  SentInv(new, rs, status)
<1>1. /\ new[Len(l) + 1] = m /\ \A i \in 1 .. Len(l) : new[i] = l[i]
      /\ \A i \in 1 .. Len(new) : i \in 1 .. Len(l) \/ i = Len(l) + 1
  BY AppendedPlaces DEF Appended
<1> QED BY <1>1 DEF SentInv

LEMMA SentShortened ==
  ASSUME NEW l, NEW rs, NEW status, SentInv(l, rs, status), NEW new, Shortened(new, l)
  PROVE  SentInv(new, rs, status)
<1>1. \A i \in 1 .. Len(new) : i + 1 \in 1 .. Len(l) /\ new[i] = l[i + 1]
  BY ShortenedPlaces DEF Shortened
<1> QED BY <1>1 DEF SentInv

LEMMA SentLater ==
  ASSUME NEW l, NEW rs, NEW status, SentInv(l, rs, status), NEW rs2, Grown(rs2, rs),
         NEW status2, Knows(status) => Knows(status2)
  PROVE  SentInv(l, rs2, status2)
  BY DEF SentInv, Grown

LEMMA QueuesLater ==
  ASSUME NEW qs, NEW rs, NEW status, QueuesInv(qs, rs, status), NEW rs2, Grown(rs2, rs),
         NEW status2, Knows(status) => Knows(status2)
  PROVE  QueuesInv(qs, rs2, status2)
<1>1. ASSUME NEW d \in DOMAIN qs PROVE QueueInv(qs[d], d, rs2, status2)
  <2>1. QueueInv(qs[d], d, rs, status)
    BY <1>1 DEF QueuesInv
  <2>2. \A i \in Indices(qs[d]) : EntryInv(qs[d].entries[i], d, rs2)
    BY <2>1 DEF QueueInv, EntryInv, Grown
  <2> QED BY <2>1, <2>2 DEF QueueInv
<1> QED BY <1>1 DEF QueuesInv

LEMMA QueueFrom ==
  ASSUME NEW q, NEW d, NEW rs, NEW status, QueueInv(q, d, rs, status), NEW new, From(new, q)
  PROVE  QueueInv(new, d, rs, status)
<1>1. ASSUME NEW i \in Indices(new) PROVE EntryInv(new.entries[i], d, rs)
  <2>1. PICK j \in Indices(q) : /\ new.entries[i].key = q.entries[j].key
                                /\ new.entries[i].indirect = q.entries[j].indirect
    BY DEF From
  <2>2. EntryInv(q.entries[j], d, rs)
    BY DEF QueueInv
  <2> QED BY <2>1, <2>2 DEF EntryInv
<1> QED BY <1>1 DEF QueueInv, From

LEMMA QueuesFrom ==
  ASSUME NEW qs, NEW rs, NEW status, QueuesInv(qs, rs, status), NEW new,
         new = [d \in DOMAIN qs |-> new[d]], \A d \in DOMAIN qs : From(new[d], qs[d])
  PROVE  QueuesInv(new, rs, status)
<1>1. DOMAIN new = DOMAIN qs
  OBVIOUS
<1>2. ASSUME NEW d \in DOMAIN qs PROVE QueueInv(new[d], d, rs, status)
  BY <1>2, QueueFrom DEF QueuesInv
<1> QED BY <1>1, <1>2 DEF QueuesInv

LEMMA NoQueues ==
  ASSUME NEW rs, NEW status
  PROVE  QueuesInv(<<>>, rs, status) /\ DOMAIN <<>> = {}
<1>1. DOMAIN <<>> = {} /\ <<>> = [d \in DOMAIN <<>> |-> <<>>[d]]
  OBVIOUS
<1> QED BY <1>1 DEF QueuesInv

LEMMA QueuesWith ==
  ASSUME NEW qs, NEW rs, NEW status, QueuesInv(qs, rs, status), NEW d, NEW q,
         QueueInv(q, d, rs, status), NEW new, new = Data!With(qs, d, q)
  PROVE  /\ QueuesInv(new, rs, status) /\ DOMAIN new = DOMAIN qs \cup {d} /\ new[d] = q
         /\ \A e \in DOMAIN qs : e # d => new[e] = qs[e]
<1>1. new = [e \in DOMAIN qs \cup {d} |-> IF e = d THEN q ELSE qs[e]]
  BY DEF Data!With
<1>2. /\ DOMAIN new = DOMAIN qs \cup {d} /\ new = [e \in DOMAIN new |-> new[e]] /\ new[d] = q
      /\ \A e \in DOMAIN qs : e # d => new[e] = qs[e]
  BY <1>1, Zenon
<1>3. ASSUME NEW e \in DOMAIN new PROVE QueueInv(new[e], e, rs, status)
  <2>1. CASE e = d
    BY <2>1, <1>2
  <2>2. CASE e # d
    BY <2>2, <1>2, <1>3 DEF QueuesInv
  <2> QED BY <2>1, <2>2
<1> QED BY <1>2, <1>3 DEF QueuesInv

LEMMA QueuesWithout ==
  ASSUME NEW qs, NEW rs, NEW status, QueuesInv(qs, rs, status), NEW d,
         NEW new, new = Data!Without(qs, d)
  PROVE  /\ QueuesInv(new, rs, status) /\ DOMAIN new = DOMAIN qs \ {d}
         /\ \A e \in DOMAIN qs : e # d => new[e] = qs[e]
<1>1. new = [e \in DOMAIN qs \ {d} |-> qs[e]]
  BY DEF Data!Without
<1>2. /\ DOMAIN new = DOMAIN qs \ {d} /\ new = [e \in DOMAIN new |-> new[e]]
      /\ \A e \in DOMAIN qs : e # d => new[e] = qs[e]
  BY <1>1, Zenon
<1>3. ASSUME NEW e \in DOMAIN new PROVE QueueInv(new[e], e, rs, status)
  BY <1>2, <1>3 DEF QueuesInv
<1> QED BY <1>2, <1>3 DEF QueuesInv

-----------------------------------------------------------------------------
(* What the data service has, asks the radio for and is told.               *)
DeviceInv(d) ==
  d = [coordinator |-> d.coordinator, status |-> d.status, listening |-> d.listening,
       ack |-> d.ack]

DataInv ==
  /\ MainInv(reply, mcps_in)
  /\ DeviceInv(device)
  /\ RequestsInv(requests)
  /\ QueuesInv(queues, requests, device.status)
  /\ LinkInv(link, next_key)
  /\ SentInv(link, requests, device.status)

LEMMA DataInit ==
  ASSUME Init
  PROVE  DataInv
<1>1. MainInv(reply, mcps_in)
  BY DEF Init, MainInv
<1>2. DeviceInv(device)
  BY DEF Init, DeviceInv
<1>3. requests = <<>> /\ queues = <<>> /\ link = <<>> /\ next_key = 0
  BY DEF Init, Data!Init
<1>4. RequestsInv(requests)
  BY <1>3, EmptySequence DEF RequestsInv
<1>5. QueuesInv(queues, requests, device.status)
  BY <1>3, NoQueues
<1>6. LinkInv(link, next_key)
  BY <1>3, EmptySequence DEF LinkInv
<1>7. SentInv(link, requests, device.status)
  BY <1>3, EmptySequence DEF SentInv
<1> QED BY <1>1, <1>2, <1>4, <1>5, <1>6, <1>7 DEF DataInv

LEMMA DataSteady ==
  ASSUME DataInv, UNCHANGED <<reply, mcps_in, requests, device, queues, link, next_key>>
  PROVE  DataInv'
  BY DEF DataInv

\* A step of the main loop.
LEMMA DataMain ==
  ASSUME DataInv, Main
  PROVE  DataInv'
<1>1. UNCHANGED <<requests, device, queues, link, next_key>>
  BY DEF Main, MainStarts, MainTakesConfirm, MainSendsBeacon, MainAnswersAssociate,
         MainSendsData, MainTakes, MainRuns, dataVars, linkVars, airVars
<1>2. MainInv(reply, mcps_in)
  BY DEF DataInv
<1>3. CASE UNCHANGED <<reply, mcps_in>>
  BY <1>1, <1>3, DataSteady
<1>4. CASE MainAnswersAssociate
  <2>1. reply' = {AssociateData} /\ mcps_in' = mcps_in
    BY <1>4 DEF MainAnswersAssociate, MainTakes
  <2>2. MainInv(reply', mcps_in')
    BY <1>2, <2>1 DEF MainInv
  <2> QED BY <1>1, <2>2 DEF DataInv
<1>5. CASE MainSendsData
  <2> DEFINE request == CHOOSE r \in reply : TRUE
  <2>1. reply # {} /\ reply' = {} /\ mcps_in' = mcps_in \o << request >>
    BY <1>5 DEF MainSendsData
  <2>2. request \in reply
    BY <2>1
  <2> HIDE DEF request
  <2>3. request \in {AssociateData} /\ mcps_in \in Seq({AssociateData})
    BY <1>2, <2>2 DEF MainInv
  <2>4. mcps_in' \in Seq({AssociateData})
    BY <2>1, <2>3
  <2>5. MainInv(reply', mcps_in')
    BY <2>1, <2>4 DEF MainInv
  <2> QED BY <1>1, <2>5 DEF DataInv
<1> QED BY <1>3, <1>4, <1>5 DEF Main, MainStarts, MainTakesConfirm, MainSendsBeacon, MainTakes

\* A message for the radio.
LEMMA DataSends ==
  ASSUME DataInv, NEW m, Appended(link', link, m), MessageInv(m), m.key = next_key,
         next_key' = next_key + 1,
         m.content.type = "SendFrame" => /\ m.content.key \in 1 .. Len(requests)
                                         /\ requests[m.content.key].mcps => Knows(device.status)
  PROVE  LinkInv(link', next_key') /\ SentInv(link', requests, device.status)
<1>1. LinkInv(link, next_key) /\ SentInv(link, requests, device.status)
  BY DEF DataInv
<1>2. LinkInv(link', next_key + 1)
  BY <1>1, LinkAppended
<1>3. SentInv(link', requests, device.status)
  BY <1>1, SentAppended
<1> QED BY <1>2, <1>3

LEMMA ToRadioAppends ==
  ASSUME DataInv, NEW type, NEW key, NEW content, NEW new, new = Data!ToRadio(type, key, content)
  PROVE  Appended(new, link, [type |-> type, key |-> key, content |-> content])
<1>1. IsSequence(link)
  BY DEF DataInv, LinkInv
<1> QED BY <1>1, AppendSequence DEF Data!ToRadio

LEMMA DataPollParam ==
  ASSUME DataInv, NEW param \in Params, PollParam(param)
  PROVE  DataInv'
<1> DEFINE content == [type |-> "SetParam", param |-> param,
                       value |-> radio_params[param].requested_value]
           m == [type |-> "SetParam", key |-> next_key, content |-> content]
<1>1. /\ link' = Data!ToRadio("SetParam", next_key, content) /\ next_key' = next_key + 1
      /\ UNCHANGED <<reply, mcps_in, requests, device, queues>>
  BY DEF PollParam, MacRuns, dataVars, airVars
<1>2. Appended(link', link, m)
  BY <1>1, ToRadioAppends
<1>3. MessageInv(m) /\ m.key = next_key /\ m.content.type # "SendFrame"
  BY DEF MessageInv
<1> HIDE DEF m
<1>4. LinkInv(link', next_key') /\ SentInv(link', requests, device.status)
  BY <1>1, <1>2, <1>3, DataSends
<1> QED BY <1>1, <1>4 DEF DataInv

LEMMA DataPollOutgoing ==
  ASSUME DataInv, PollOutgoing
  PROVE  DataInv'
<1> DEFINE content == [type |-> "Beacon", beacon |-> Head(outgoing)]
           m == [type |-> "SendPacket", key |-> next_key, content |-> content]
<1>1. /\ link' = Data!ToRadio("SendPacket", next_key, content) /\ next_key' = next_key + 1
      /\ UNCHANGED <<reply, mcps_in, requests, device, queues>>
  BY DEF PollOutgoing, MacRuns, dataVars, airVars
<1>2. Appended(link', link, m)
  BY <1>1, ToRadioAppends
<1>3. MessageInv(m) /\ m.key = next_key /\ m.content.type # "SendFrame"
  BY DEF MessageInv
<1> HIDE DEF m
<1>4. LinkInv(link', next_key') /\ SentInv(link', requests, device.status)
  BY <1>1, <1>2, <1>3, DataSends
<1> QED BY <1>1, <1>4 DEF DataInv

\* A poll of the tables returns nothing, or a message for them.
LEMMA PollTablesType ==
  ASSUME NEW c, NEW key, Data!PollTables(c, key).action # Data!NoUpdate
  PROVE  LET action == Data!PollTables(c, key).action IN
         /\ action.type \in {"Init", "UpdateShort", "UpdateExtended"}
         /\ action.type = "Init" <=> ~c.is_initialized
<1>1. c.initializing = {}
  BY DEF Data!PollTables
<1>2. CASE ~c.is_initialized
  BY <1>1, <1>2 DEF Data!PollTables, Data!StartInit, Data!InitTables
<1>3. CASE c.is_initialized
  <2>1. Data!PollTables(c, key) = Data!PollUpdates(c, key)
    BY <1>1, <1>3 DEF Data!PollTables
  <2> QED BY <1>3, <2>1 DEF Data!PollUpdates, Data!UpdateShort, Data!UpdateExtended
<1> QED BY <1>2, <1>3

LEMMA DataPollTables ==
  ASSUME DataInv, Data!PollPendingTable, UNCHANGED <<reply, mcps_in, device>>
  PROVE  DataInv'
<1> DEFINE content == Data!PollTables(tables, next_key).action
           type == IF content.type = "Init" THEN "Init" ELSE "Update"
           m == [type |-> type, key |-> next_key, content |-> content]
<1>1. /\ content # Data!NoUpdate
      /\ link' = Data!ToRadio(type, next_key, content) /\ next_key' = next_key + 1
      /\ UNCHANGED <<requests, queues>>
  BY DEF Data!PollPendingTable
<1>2. content.type \in {"Init", "UpdateShort", "UpdateExtended"}
  BY <1>1, PollTablesType
<1> HIDE DEF content
<1>3. m.type = type /\ m.key = next_key /\ m.content = content
  OBVIOUS
<1>4. MessageInv(m) /\ m.key = next_key /\ m.content.type # "SendFrame"
  BY <1>2, <1>3 DEF MessageInv
<1> HIDE DEF type
<1>5. Appended(link', link, m)
  BY <1>1, ToRadioAppends
<1> HIDE DEF m
<1>6. LinkInv(link', next_key') /\ SentInv(link', requests, device.status)
  BY <1>1, <1>4, <1>5, DataSends
<1> QED BY <1>1, <1>6 DEF DataInv

\* A poll of the queue of d, whose frame is one that may be sent.
LEMMA DataPollQueue ==
  ASSUME DataInv, NEW d \in DOMAIN queues, Data!PollQueue(d),
         UNCHANGED <<reply, mcps_in, device>>
  PROVE  DataInv'
<1> DEFINE q == queues[d]
           polled == Data!PollNextAction(q, next_key, pib.mac_dsn)
           new == polled.queue
           action == polled.action
           m == [type |-> "SendPacket", key |-> next_key, content |-> action]
<1>1. /\ queues' = IF action = Data!Empty THEN Data!Without(queues, d)
                   ELSE Data!With(queues, d, new)
      /\ IF action.type = "SendFrame"
         THEN link' = Data!ToRadio("SendPacket", next_key, action) /\ next_key' = next_key + 1
         ELSE UNCHANGED <<link, next_key>>
      /\ requests' = requests
  BY DEF Data!PollQueue, Data!AfterPoll
<1>2. /\ QueuesInv(queues, requests, device.status) /\ QueueInv(q, d, requests, device.status)
      /\ IsQueue(q) /\ RequestsInv(requests)
  BY DEF DataInv, QueuesInv, QueueInv
<1>3. Polled(new, action, q)
  BY <1>2, PollShape
<1> HIDE DEF q, polled, new, action
<1>4. QueueInv(new, d, requests, device.status)
  BY <1>2, <1>3, QueueFrom DEF Polled
<1>5. QueuesInv(queues', requests, device.status)
  BY <1>1, <1>2, <1>4, QueuesWith, QueuesWithout
<1>6. CASE action.type # "SendFrame"
  BY <1>1, <1>5, <1>6 DEF DataInv
<1>7. CASE action.type = "SendFrame"
  <2>0. action # Data!Empty
    BY <1>7 DEF Data!Empty
  <2>1. PICK i \in Indices(q) : /\ action.key = q.entries[i].key
                                /\ q.entries[i].indirect => Asked(q)
    BY <1>3, <1>7, <2>0 DEF Polled
  <2>2. EntryInv(q.entries[i], d, requests) /\ (d = Address /\ Asked(q) => Knows(device.status))
    BY <1>2 DEF QueueInv
  <2>3. /\ action.key \in 1 .. Len(requests) /\ requests[action.key].destination = d
        /\ d = Address => Knows(device.status)
    BY <2>1, <2>2 DEF EntryInv
  <2>4. requests[action.key].mcps => Knows(device.status)
    BY <1>2, <2>3 DEF RequestsInv
  <2>5. m.type = "SendPacket" /\ m.key = next_key /\ m.content = action
    OBVIOUS
  <2>6. MessageInv(m)
    BY <1>7, <2>5 DEF MessageInv
  <2>7. Appended(link', link, m)
    BY <1>1, <1>7, ToRadioAppends
  <2> HIDE DEF m
  <2>8. LinkInv(link', next_key') /\ SentInv(link', requests, device.status)
    BY <1>1, <1>7, <2>3, <2>4, <2>5, <2>6, <2>7, DataSends
  <2> QED BY <1>1, <1>5, <2>8 DEF DataInv
<1> QED BY <1>6, <1>7

LEMMA DataPolls ==
  ASSUME DataInv, MacPolls
  PROVE  DataInv'
<1>1. CASE PollData
  <2>1. UNCHANGED <<reply, mcps_in, device>> /\ Data!Poll
    BY <1>1 DEF PollData, MacRuns, airVars
  <2>2. CASE Data!PollPending
    BY <2>1, <2>2, DataSteady DEF Data!PollPending, Data!serviceVars
  <2> QED BY <2>1, <2>2, DataPollTables, DataPollQueue DEF Data!Poll
<1> QED BY <1>1, DataPollParam, DataPollOutgoing DEF MacPolls

\* A new request, and its entry in the queue of its destination.
LEMMA DataNewRequest ==
  ASSUME DataInv, NEW d, NEW indirect \in BOOLEAN, NEW ack \in BOOLEAN, NEW outcome,
         Data!NewRequest(d, indirect, ack, outcome), device' = device,
         outcome = "open" => d = Address, d = Address => indirect
  PROVE  /\ RequestsInv(requests') /\ QueuesInv(queues', requests', device.status)
         /\ LinkInv(link', next_key') /\ SentInv(link', requests', device.status)
<1> DEFINE n == Len(requests)
           request == [destination |-> d, mcps |-> outcome = "open"]
           entry == Data!Entry(n + 1, indirect, ack, MaxFrameRetries)
           q == IF d \in DOMAIN queues THEN queues[d] ELSE Data!New
           new == Data!Insert(q, entry)
<1>1. /\ requests' = Append(requests, request) /\ queues' = Data!With(queues, d, new)
      /\ UNCHANGED <<link, next_key>>
  BY DEF Data!NewRequest, Data!InsertEntry
<1>2. /\ RequestsInv(requests) /\ IsSequence(requests)
      /\ QueuesInv(queues, requests, device.status)
      /\ LinkInv(link, next_key) /\ SentInv(link, requests, device.status)
  BY DEF DataInv, RequestsInv
<1>3. Appended(requests', requests, request)
  BY <1>1, <1>2, AppendSequence
<1>4. request.destination = d /\ (request.mcps => d = Address)
  OBVIOUS
<1> HIDE DEF request
<1>5. /\ n \in Nat /\ requests'[n + 1] = request
      /\ \A k \in 1 .. n : requests'[k] = requests[k]
      /\ \A k \in 1 .. Len(requests') : k \in 1 .. n \/ k = n + 1
      /\ \A k \in 1 .. n : k \in 1 .. Len(requests')
      /\ n + 1 \in 1 .. Len(requests')
      /\ IsSequence(requests')
  BY <1>3, AppendedPlaces DEF Appended
<1>6. RequestsInv(requests')
  BY <1>2, <1>4, <1>5 DEF RequestsInv
<1>7. Grown(requests', requests)
  BY <1>5 DEF Grown
<1>8. /\ SentInv(link, requests', device.status)
      /\ QueuesInv(queues, requests', device.status)
  BY <1>2, <1>7, SentLater, QueuesLater
<1>9. entry \in EntryType /\ entry.key = n + 1 /\ entry.indirect = indirect
  BY <1>5, CoordinatorAssumption DEF Data!Entry, EntryType
<1> HIDE DEF entry
<1>10. EntryInv(entry, d, requests')
  BY <1>4, <1>5, <1>9 DEF EntryInv
<1>11. QueueInv(q, d, requests', device.status)
  BY <1>8, NewQueue DEF QueuesInv, QueueInv
<1> HIDE DEF q
<1>12. /\ IsQueue(new) /\ new.state = q.state
       /\ \A i \in Indices(new) : \/ new.entries[i] = entry
                                  \/ \E j \in Indices(q) : new.entries[i] = q.entries[j]
  BY <1>9, <1>11, InsertShape DEF QueueInv
<1> HIDE DEF new
<1>13. QueueInv(new, d, requests', device.status)
  <2>1. \A i \in Indices(new) : EntryInv(new.entries[i], d, requests')
    BY <1>10, <1>11, <1>12 DEF QueueInv
  <2>2. Asked(new) <=> Asked(q)
    BY <1>12 DEF Asked
  <2> QED BY <1>11, <1>12, <2>1, <2>2 DEF QueueInv
<1>14. QueuesInv(queues', requests', device.status)
  BY <1>1, <1>8, <1>13, QueuesWith
<1> QED BY <1>1, <1>2, <1>6, <1>8, <1>14

LEMMA DataMcps ==
  ASSUME DataInv, ProcessMcps
  PROVE  DataInv'
<1>1. /\ mcps_in # <<>> /\ mcps_in' = Tail(mcps_in) /\ UNCHANGED <<reply, device>>
      /\ Data!ProcessMcpsDataRequest(Head(mcps_in).destination, Head(mcps_in).indirect,
                                     Head(mcps_in).ack)
  BY DEF ProcessMcps, MacRuns, airVars
<1>2. mcps_in \in Seq({AssociateData}) /\ MainInv(reply, mcps_in)
  BY DEF DataInv, MainInv
<1>3. mcps_in' \in Seq({AssociateData}) /\ Head(mcps_in) = AssociateData
  BY <1>1, <1>2
<1>4. /\ AssociateData.destination = Address /\ AssociateData.indirect = TRUE
      /\ AssociateData.ack = TRUE
  BY DEF AssociateData, Address
<1>5. Data!NewRequest(Address, TRUE, TRUE, "open")
  BY <1>1, <1>3, <1>4 DEF Data!ProcessMcpsDataRequest
<1>6. /\ RequestsInv(requests') /\ QueuesInv(queues', requests', device.status)
      /\ LinkInv(link', next_key') /\ SentInv(link', requests', device.status)
  BY <1>1, <1>5, DataNewRequest
<1>7. MainInv(reply', mcps_in')
  BY <1>1, <1>2, <1>3 DEF MainInv
<1> QED BY <1>1, <1>6, <1>7 DEF DataInv

LEMMA DataMlme ==
  ASSUME DataInv, ProcessMlme
  PROVE  DataInv'
<1>1. UNCHANGED <<reply, mcps_in, device>>
  BY DEF ProcessMlme, ProcessReset, ProcessSet, ProcessStart, ProcessBeacon,
         ProcessAssociateResponse, TakeMlme, MacRuns, airVars
<1>2. CASE ProcessReset
  <2>1. queues' = <<>> /\ UNCHANGED <<requests, link, next_key>>
    BY <1>2 DEF ProcessReset, Data!ProcessMlmeResetRequest
  <2>2. QueuesInv(queues', requests, device.status)
    BY <2>1, NoQueues
  <2> QED BY <1>1, <2>1, <2>2 DEF DataInv
<1>3. CASE ProcessSet \/ ProcessStart \/ ProcessBeacon
  BY <1>1, <1>3, DataSteady
     DEF ProcessSet, ProcessStart, ProcessBeacon, Data!OtherInput, Data!serviceVars
<1>4. CASE ProcessAssociateResponse
  <2> DEFINE d == ResponseAddress(pib, Head(mlme_in).device)
             indirect == ~Head(mlme_in).fast_association
  <2>1. d.mode = "Extended" /\ Data!NewRequest(d, indirect, TRUE, "none")
    BY <1>4 DEF ProcessAssociateResponse, Data!ProcessMlmeAssociateResponse
  <2>2. d # Address /\ indirect \in BOOLEAN
    BY <2>1 DEF Address, Data!Short
  <2> HIDE DEF d, indirect
  <2>3. /\ RequestsInv(requests') /\ QueuesInv(queues', requests', device.status)
        /\ LinkInv(link', next_key') /\ SentInv(link', requests', device.status)
    BY <1>1, <2>1, <2>2, DataNewRequest
  <2> QED BY <1>1, <2>3 DEF DataInv
<1> QED BY <1>2, <1>3, <1>4 DEF ProcessMlme

\* The device learns, and never forgets, its address.
LEMMA HeardDevice ==
  ASSUME DeviceInv(device), NEW content, Hears(content)
  PROVE  /\ DeviceInv(Heard(content))
         /\ Knows(device.status) => Knows(Heard(content).status)
<1>1. device = [coordinator |-> device.coordinator, status |-> device.status,
                listening |-> device.listening, ack |-> device.ack]
  BY DEF DeviceInv
<1>2. CASE content.type = "Beacon"
  <2> DEFINE u == [device EXCEPT !.status = "found"]
             new == [u EXCEPT !.coordinator = {content.beacon.source}]
  <2>1. Heard(content) = new
    BY <1>2 DEF Heard
  <2>2. u = [coordinator |-> device.coordinator, status |-> "found",
             listening |-> device.listening, ack |-> device.ack]
    BY <1>1
  <2> HIDE DEF u
  <2>3. new = [coordinator |-> {content.beacon.source}, status |-> "found",
               listening |-> device.listening, ack |-> device.ack]
    BY <2>2
  <2> HIDE DEF new
  <2>4. DeviceInv(new)
    BY <2>3 DEF DeviceInv
  <2>5. ~Knows(device.status)
    BY <1>2 DEF Hears, Knows
  <2> QED BY <2>1, <2>4, <2>5
<1>3. CASE content.type # "Beacon"
  <2> DEFINE status == IF device.status = "waiting" THEN "joined" ELSE "served"
             no == FALSE
             u == [device EXCEPT !.status = status]
             v == [u EXCEPT !.listening = no]
             new == [v EXCEPT !.ack = {content.seq}]
  <2>0. Knows(status)
    BY DEF Knows
  <2>1. Heard(content) = new
    BY <1>3 DEF Heard
  <2> HIDE DEF status, no
  <2>2. u = [coordinator |-> device.coordinator, status |-> status,
             listening |-> device.listening, ack |-> device.ack]
    BY <1>1
  <2> HIDE DEF u
  <2>3. v = [coordinator |-> device.coordinator, status |-> status,
             listening |-> no, ack |-> device.ack]
    BY <2>2
  <2> HIDE DEF v
  <2>4. new = [coordinator |-> device.coordinator, status |-> status,
               listening |-> no, ack |-> {content.seq}]
    BY <2>3
  <2> HIDE DEF new
  <2>5. DeviceInv(new) /\ new.status = status
    BY <2>4 DEF DeviceInv
  <2> QED BY <2>0, <2>1, <2>5
<1> QED BY <1>2, <1>3

\* The radio's answer to a send, and to anything else.
LEMMA DataAnswers ==
  ASSUME DataInv, Answers
  PROVE  DataInv'
<1>0. PICK ok, done \in BOOLEAN :
        AnswersParam(ok, done) \/ \E heard \in BOOLEAN : AnswersData(ok, done, heard)
  BY DEF Answers
<1>1. /\ link # <<>> /\ link' = Tail(link)
      /\ UNCHANGED <<reply, mcps_in, requests, next_key>>
  BY <1>0 DEF AnswersParam, AnswersData, RadioAnswers, Data!RadioAnswers, MacRuns
<1>2. /\ DeviceInv(device) /\ QueuesInv(queues, requests, device.status)
      /\ LinkInv(link, next_key) /\ SentInv(link, requests, device.status)
      /\ IsSequence(link)
  BY DEF DataInv, LinkInv
<1>3. Shortened(link', link)
  BY <1>1, <1>2, TailSequence
<1>4. LinkInv(link', next_key) /\ SentInv(link', requests, device.status)
  BY <1>2, <1>3, LinkShortened, SentShortened
<1>5. DeviceInv(device') /\ (Knows(device.status) => Knows(device'.status))
  <2>1. device' = device \/ \E content : Hears(content) /\ device' = Heard(content)
    BY <1>0 DEF AnswersParam, AnswersData, RadioAnswers
  <2> QED BY <1>2, <2>1, HeardDevice
<1>6. Grown(requests, requests)
  BY DEF Grown
<1>7. /\ SentInv(link', requests, device'.status)
      /\ QueuesInv(queues, requests, device'.status)
  BY <1>2, <1>4, <1>5, <1>6, SentLater, QueuesLater
<1>8. QueuesInv(queues', requests, device'.status)
  <2>1. CASE queues' = queues
    BY <1>7, <2>1
  <2>2. CASE queues' = [d \in DOMAIN queues |->
                          Data!ProcessSendResult(queues[d], Head(link).key, ok)]
    <3>1. \A d \in DOMAIN queues : IsQueue(queues[d])
      BY <1>7 DEF QueuesInv, QueueInv
    <3>2. \A d \in DOMAIN queues : From(queues'[d], queues[d])
      BY <2>2, <3>1, SendResultSame, SameIsFrom
    <3>3. queues' = [d \in DOMAIN queues |-> queues'[d]]
      BY <2>2, Zenon
    <3> QED BY <1>7, <3>2, <3>3, QueuesFrom
  <2> QED BY <1>0, <2>1, <2>2 DEF AnswersParam, AnswersData, Data!RadioAnswers
<1> QED BY <1>1, <1>4, <1>5, <1>7, <1>8 DEF DataInv

\* A queue with an acknowledgement, or one of its timers elapsed.
LEMMA DataQueues ==
  ASSUME DataInv, UNCHANGED <<reply, mcps_in, requests, link, next_key>>,
         DeviceInv(device'), Knows(device.status) => Knows(device'.status),
         queues' = [d \in DOMAIN queues |-> queues'[d]],
         \A d \in DOMAIN queues : Same(queues'[d], queues[d])
  PROVE  DataInv'
<1>1. /\ QueuesInv(queues, requests, device.status) /\ SentInv(link, requests, device.status)
      /\ Grown(requests, requests)
  BY DEF DataInv, Grown
<1>2. /\ QueuesInv(queues, requests, device'.status)
      /\ SentInv(link, requests, device'.status)
  BY <1>1, QueuesLater, SentLater
<1>3. \A d \in DOMAIN queues : IsQueue(queues[d])
  BY <1>1 DEF QueuesInv, QueueInv
<1>4. \A d \in DOMAIN queues : From(queues'[d], queues[d])
  BY <1>3, SameIsFrom
<1>5. QueuesInv(queues', requests, device'.status)
  BY <1>2, <1>4, QueuesFrom
<1> QED BY <1>2, <1>5 DEF DataInv

LEMMA SameQueues ==
  ASSUME DataInv
  PROVE  /\ queues = [d \in DOMAIN queues |-> queues[d]]
         /\ \A d \in DOMAIN queues : IsQueue(queues[d]) /\ Same(queues[d], queues[d])
  BY SameItself DEF DataInv, QueuesInv, QueueInv

LEMMA QueuesExcept ==
  ASSUME DataInv, NEW d \in DOMAIN queues, NEW q, queues' = [queues EXCEPT ![d] = q]
  PROVE  /\ queues' = [e \in DOMAIN queues |-> queues'[e]]
         /\ queues'[d] = q /\ \A e \in DOMAIN queues : e # d => queues'[e] = queues[e]
<1>1. queues' = [e \in DOMAIN queues |-> IF e = d THEN q ELSE queues[e]]
  BY SameQueues
<1> QED BY <1>1, Zenon

LEMMA DataTimers ==
  ASSUME DataInv, AckTimeout \/ TransactionTimeout
  PROVE  DataInv'
<1>1. UNCHANGED <<reply, mcps_in, device>>
  BY DEF AckTimeout, TransactionTimeout, MacRuns, airVars
<1>2. ASSUME NEW d \in DOMAIN queues, NEW q, Same(q, queues[d]),
             queues' = [queues EXCEPT ![d] = q], UNCHANGED <<requests, link, next_key>>
      PROVE  DataInv'
  <2>1. /\ queues' = [e \in DOMAIN queues |-> queues'[e]]
        /\ queues'[d] = q /\ \A e \in DOMAIN queues : e # d => queues'[e] = queues[e]
    BY <1>2, QueuesExcept
  <2>2. \A e \in DOMAIN queues : Same(queues'[e], queues[e])
    BY <1>2, <2>1, SameQueues
  <2> QED BY <1>1, <1>2, <2>1, <2>2, DataQueues DEF DataInv
<1>3. CASE AckTimeout
  <2>1. PICK d \in DOMAIN queues : Data!AckTimeout(d)
    BY <1>3 DEF AckTimeout
  <2> DEFINE q == [queues[d] EXCEPT !.state.timeout = TRUE]
  <2>2. /\ queues' = [queues EXCEPT ![d] = q] /\ UNCHANGED <<requests, link, next_key>>
        /\ queues[d].state.tag = "WaitingForAck"
    BY <2>1, SameQueues DEF Data!AckTimeout
  <2>3. Same(q, queues[d])
    BY <2>2, SameQueues, AckTimerSame
  <2> HIDE DEF q
  <2> QED BY <2>2, <2>3, <1>2
<1>4. CASE TransactionTimeout
  <2>1. PICK d \in DOMAIN queues :
          \E i \in 1 .. Len(queues[d].entries) : Data!TransactionTimeout(d, i)
    BY <1>4 DEF TransactionTimeout
  <2>2. PICK i \in Indices(queues[d]) : Data!TransactionTimeout(d, i)
    BY <2>1 DEF Indices
  <2> DEFINE q == [queues[d] EXCEPT !.entries[i].timeout = TRUE]
  <2>3. queues' = [queues EXCEPT ![d] = q] /\ UNCHANGED <<requests, link, next_key>>
    BY <2>2, SameQueues DEF Data!TransactionTimeout
  <2>4. Same(q, queues[d])
    BY SameQueues, TransactionTimerSame
  <2> HIDE DEF q
  <2> QED BY <2>3, <2>4, <1>2
<1> QED BY <1>3, <1>4

LEMMA ChangedDevice ==
  ASSUME DeviceInv(device), NEW x
  PROVE  /\ LET d == [device EXCEPT !.listening = x]
            IN  DeviceInv(d) /\ d.status = device.status
         /\ LET d == [device EXCEPT !.ack = x]
            IN  DeviceInv(d) /\ d.status = device.status
<1>1. device = [coordinator |-> device.coordinator, status |-> device.status,
                listening |-> device.listening, ack |-> device.ack]
  BY DEF DeviceInv
<1> DEFINE d == [device EXCEPT !.listening = x]
           e == [device EXCEPT !.ack = x]
<1>2. d = [coordinator |-> device.coordinator, status |-> device.status,
           listening |-> x, ack |-> device.ack]
  BY <1>1
<1>3. e = [coordinator |-> device.coordinator, status |-> device.status,
           listening |-> device.listening, ack |-> x]
  BY <1>1
<1> HIDE DEF d, e
<1>4. DeviceInv(d) /\ d.status = device.status
  BY <1>2 DEF DeviceInv
<1>5. DeviceInv(e) /\ e.status = device.status
  BY <1>3 DEF DeviceInv
<1> QED BY <1>4, <1>5 DEF d, e

\* Only a device that knows its short address asks from it.
LEMMA DataReceiveDataRequest ==
  ASSUME DataInv, ReceiveDataRequest
  PROVE  DataInv'
<1> DEFINE marked == MarkedInRadio(OwnAddress)
           source == OwnAddress
<1>1. /\ device.status \in {"waiting", "joined"}
      /\ device' = [device EXCEPT !.listening = marked]
      /\ \/ Data!OtherInput
         \/ Data!ProcessFrameDataRequest(source)
      /\ UNCHANGED <<reply, mcps_in>>
  BY DEF ReceiveDataRequest, Receive, MacRuns
<1>2. source = Address => Knows(device.status)
  BY <1>1 DEF OwnAddress, Address, Data!Short, Data!Extended, Knows
<1> HIDE DEF marked, source
<1>3. DeviceInv(device') /\ device'.status = device.status
  BY <1>1, ChangedDevice DEF DataInv
<1>4. UNCHANGED <<requests, link, next_key>>
  BY <1>1 DEF Data!OtherInput, Data!ProcessFrameDataRequest
<1>5. QueuesInv(queues', requests, device.status)
  <2>0. QueuesInv(queues, requests, device.status)
    BY DEF DataInv
  <2>1. CASE queues' = queues
    BY <2>0, <2>1
  <2>2. CASE source \in DOMAIN queues /\ queues' # queues
    <3> DEFINE q == queues[source]
               new == Data!ProcessDataRequest(q)
    <3>1. queues' = [queues EXCEPT ![source] = new]
      BY <1>1, <2>2 DEF Data!OtherInput, Data!ProcessFrameDataRequest, Data!serviceVars
    <3>2. QueueInv(q, source, requests, device.status) /\ IsQueue(q)
      BY <2>0, <2>2 DEF QueuesInv, QueueInv
    <3>3. new = q \/ \E state : new = [q EXCEPT !.state = state]
      BY DEF Data!ProcessDataRequest
    <3> HIDE DEF q, new
    <3>4. IsQueue(new) /\ new.entries = q.entries
      <4>1. CASE new = q
        BY <3>2, <4>1
      <4>2. ASSUME NEW state, new = [q EXCEPT !.state = state]
            PROVE  IsQueue(new) /\ new.entries = q.entries
        BY <3>2, <4>2, WithState
      <4> QED BY <3>3, <4>1, <4>2
    <3>5. QueueInv(new, source, requests, device.status)
      BY <1>2, <3>2, <3>4 DEF QueueInv, Indices
    <3>6. /\ queues' = [e \in DOMAIN queues |-> queues'[e]]
          /\ queues'[source] = new
          /\ \A e \in DOMAIN queues : e # source => queues'[e] = queues[e]
      BY <2>2, <3>1, QueuesExcept
    <3>7. DOMAIN queues' = DOMAIN queues
      BY <3>6
    <3>8. ASSUME NEW e \in DOMAIN queues' PROVE QueueInv(queues'[e], e, requests, device.status)
      <4>1. CASE e = source
        BY <3>5, <3>6, <4>1
      <4>2. CASE e # source
        BY <2>0, <3>6, <3>7, <4>2 DEF QueuesInv
      <4> QED BY <4>1, <4>2
    <3> QED BY <3>6, <3>7, <3>8 DEF QueuesInv
  <2> QED BY <1>1, <2>1, <2>2
           DEF Data!OtherInput, Data!ProcessFrameDataRequest, Data!serviceVars
<1> QED BY <1>1, <1>3, <1>4, <1>5 DEF DataInv

LEMMA DataReceives ==
  ASSUME DataInv,
         \/ ReceiveBeaconRequest \/ ReceiveAck \/ ReceiveUndecodable
         \/ \E fast_association \in BOOLEAN : ReceiveAssociationRequest(fast_association)
         \/ \E other \in OtherDevices : ReceiveOtherAssociation(other)
  PROVE  DataInv'
<1>1. CASE ReceiveBeaconRequest
  BY <1>1, DataSteady
     DEF ReceiveBeaconRequest, Receive, MacRuns, Data!OtherInput, Data!serviceVars
<1>2. CASE ReceiveAck
  <2>1. /\ device' = [device EXCEPT !.ack = {}]
        /\ queues' = [d \in DOMAIN queues |->
                        Data!ProcessAcknowledge(queues[d], device.ack, NoPayload)]
        /\ UNCHANGED <<reply, mcps_in, requests, link, next_key>>
    BY <1>2 DEF ReceiveAck, Receive, MacRuns, Data!ProcessFrameAck
  <2>2. DeviceInv(device') /\ device'.status = device.status
    BY <2>1, ChangedDevice DEF DataInv
  <2>3. queues' = [d \in DOMAIN queues |-> queues'[d]]
    BY <2>1, Zenon
  <2>4. \A d \in DOMAIN queues : Same(queues'[d], queues[d])
    BY <2>1, SameQueues, AcknowledgeSame
  <2> QED BY <2>1, <2>2, <2>3, <2>4, DataQueues
<1>3. CASE ReceiveUndecodable
  <2>1. /\ queues' = <<>> /\ link' = <<>> /\ mcps_in' = <<>>
        /\ UNCHANGED <<reply, requests, next_key, device>>
    BY <1>3 DEF ReceiveUndecodable, airVars
  <2>2. QueuesInv(queues', requests, device.status)
    BY <2>1, NoQueues
  <2>3. LinkInv(link', next_key) /\ SentInv(link', requests, device.status)
    BY <2>1, LinkEmpty, EmptySequence DEF DataInv, SentInv
  <2>4. MainInv(reply', mcps_in')
    BY <2>1 DEF DataInv, MainInv
  <2> QED BY <2>1, <2>2, <2>3, <2>4 DEF DataInv
<1>4. ASSUME NEW fast \in BOOLEAN, ReceiveAssociationRequest(fast)
      PROVE  DataInv'
  <2> DEFINE u == [device EXCEPT !.status = "waiting"]
  <2>1. /\ device' = [u EXCEPT !.listening = fast] /\ device.status = "found"
        /\ UNCHANGED <<reply, mcps_in, requests, queues, link, next_key>>
    BY <1>4 DEF ReceiveAssociationRequest, Receive, MacRuns, Data!OtherInput, Data!serviceVars
  <2>2. device = [coordinator |-> device.coordinator, status |-> device.status,
                  listening |-> device.listening, ack |-> device.ack]
    BY DEF DataInv, DeviceInv
  <2>3. u = [coordinator |-> device.coordinator, status |-> "waiting",
             listening |-> device.listening, ack |-> device.ack]
    BY <2>2
  <2> HIDE DEF u
  <2>4. device' = [coordinator |-> device.coordinator, status |-> "waiting",
                   listening |-> fast, ack |-> device.ack]
    BY <2>1, <2>3
  <2>5. DeviceInv(device')
    BY <2>4 DEF DeviceInv
  <2>6. ~Knows(device.status)
    BY <2>1 DEF Knows
  <2> QED BY <2>1, <2>5, <2>6, SameQueues, DataQueues
<1>5. ASSUME NEW other \in OtherDevices, ReceiveOtherAssociation(other)
      PROVE  DataInv'
  BY <1>5, DataSteady
     DEF ReceiveOtherAssociation, Receive, MacRuns, Data!OtherInput, Data!serviceVars
<1> QED BY <1>1, <1>2, <1>3, <1>4, <1>5

LEMMA DataStep ==
  ASSUME DataInv, [Next]_vars
  PROVE  DataInv'
<1>1. CASE UNCHANGED vars
  BY <1>1, DataSteady DEF vars, mainVars, dataVars, linkVars, airVars
<1>2. CASE MainStops \/ MacHangs
  BY <1>2, DataSteady DEF MainStops, MacHangs, mainVars, dataVars, linkVars, airVars
<1> QED BY <1>1, <1>2, DataMain, DataPolls, DataMlme, DataMcps, DataAnswers, DataReceives,
           DataReceiveDataRequest, DataTimers DEF Next

LEMMA DataAlways == Spec => []DataInv
  BY DataInit, DataStep, PTL DEF Spec

LEMMA FollowsFromData ==
  ASSUME DataInv
  PROVE  DataFollowsResponse
  BY DEF DataInv, SentInv, Knows, DataFollowsResponse

\* The data that the main loop sends behind its association response goes to the
\* radio only once the device has its short address, whichever of the two the MAC
\* takes first and however often frames are lost, repeated or time out.
THEOREM DataIsHeldBack == Spec => []DataFollowsResponse
  BY DataAlways, FollowsFromData, PTL

-----------------------------------------------------------------------------
(* The radio's parameters.                                                  *)
LEMMA TrackedAppended ==
  ASSUME NEW info, NEW l, NEW value, NEW param, Tracked(info, l, value, param),
         NEW new, NEW m, Appended(new, l, m), ~SetsParam(m, param)
  PROVE  Tracked(info, new, value, param)
<1>1. /\ new[Len(l) + 1] = m /\ \A i \in 1 .. Len(l) : new[i] = l[i]
      /\ \A i \in 1 .. Len(new) : i \in 1 .. Len(l) \/ i = Len(l) + 1
      /\ \A i \in 1 .. Len(l) : i \in 1 .. Len(new)
      /\ Len(l) \in Nat /\ Len(new) = Len(l) + 1
  BY AppendedPlaces DEF Appended
<1>2. CASE info.updating = {} /\ info.dirty
  BY <1>2 DEF Tracked
<1>3. CASE /\ info.updating = {} /\ ~info.dirty
           /\ \A i \in 1 .. Len(l) : ~SetsParam(l[i], param)
           /\ value = info.requested_value
  <2>1. \A i \in 1 .. Len(new) : ~SetsParam(new[i], param)
    BY <1>1, <1>3
  <2> QED BY <1>3, <2>1 DEF Tracked
<1>4. ASSUME NEW i \in 1 .. Len(l),
             info.updating = {l[i].key}, SetsParam(l[i], param),
             ~info.dirty => l[i].content.value = info.requested_value,
             \A j \in i + 1 .. Len(l) : ~SetsParam(l[j], param)
      PROVE  Tracked(info, new, value, param)
  <2>1. \A j \in i + 1 .. Len(new) : (j \in i + 1 .. Len(l) /\ j \in 1 .. Len(l)) \/ j = Len(l) + 1
    BY <1>1
  <2>2. \A j \in i + 1 .. Len(new) : ~SetsParam(new[j], param)
    BY <1>1, <1>4, <2>1
  <2>3. i \in 1 .. Len(new) /\ new[i] = l[i]
    BY <1>1
  <2> QED BY <1>4, <2>2, <2>3 DEF Tracked
<1> QED BY <1>2, <1>3, <1>4 DEF Tracked

LEMMA TrackedSent ==
  ASSUME NEW l, NEW value, NEW param, NEW new, NEW m, Appended(new, l, m),
         SetsParam(m, param), NEW info, info.updating = {m.key},
         m.content.value = info.requested_value
  PROVE  Tracked(info, new, value, param)
<1>1. /\ new[Len(l) + 1] = m /\ Len(l) + 1 \in 1 .. Len(new)
      /\ Len(l) \in Nat /\ Len(new) = Len(l) + 1
  BY AppendedPlaces DEF Appended
<1> DEFINE n == Len(l) + 1
<1>2. (n + 1) .. Len(new) = {}
  BY <1>1
<1>3. n \in 1 .. Len(new) /\ new[n] = m
  BY <1>1
<1> HIDE DEF n
<1>4. /\ info.updating = {new[n].key} /\ SetsParam(new[n], param)
      /\ new[n].content.value = info.requested_value
      /\ \A j \in n + 1 .. Len(new) : ~SetsParam(new[j], param)
  BY <1>2, <1>3
<1> QED BY <1>3, <1>4 DEF Tracked

LEMMA TrackedShortened ==
  ASSUME NEW info, NEW l, NEW value, NEW param, Tracked(info, l, value, param),
         NEW new, Shortened(new, l), ~SetsParam(l[1], param)
  PROVE  Tracked(info, new, value, param)
<1>1. /\ \A i \in 1 .. Len(new) : i + 1 \in 1 .. Len(l) /\ new[i] = l[i + 1]
      /\ \A i \in 1 .. Len(l) : i # 1 => i - 1 \in 1 .. Len(new) /\ new[i - 1] = l[i]
      /\ Len(l) \in Nat /\ Len(new) = Len(l) - 1
  BY ShortenedPlaces DEF Shortened
<1>2. CASE info.updating = {} /\ info.dirty
  BY <1>2 DEF Tracked
<1>3. CASE /\ info.updating = {} /\ ~info.dirty
           /\ \A i \in 1 .. Len(l) : ~SetsParam(l[i], param)
           /\ value = info.requested_value
  <2>1. \A i \in 1 .. Len(new) : ~SetsParam(new[i], param)
    BY <1>1, <1>3
  <2> QED BY <1>3, <2>1 DEF Tracked
<1>4. ASSUME NEW i \in 1 .. Len(l),
             info.updating = {l[i].key}, SetsParam(l[i], param),
             ~info.dirty => l[i].content.value = info.requested_value,
             \A j \in i + 1 .. Len(l) : ~SetsParam(l[j], param)
      PROVE  Tracked(info, new, value, param)
  <2> DEFINE n == i - 1
  <2>1. i # 1
    BY <1>4
  <2>2. n \in 1 .. Len(new) /\ new[n] = l[i]
    BY <1>1, <2>1
  <2>0. Len(l) \in Nat /\ Len(new) = Len(l) - 1 /\ i \in Nat
    BY <1>1
  <2>3. \A j \in n + 1 .. Len(new) : j \in 1 .. Len(new) /\ j + 1 \in i + 1 .. Len(l)
    BY <2>0, <2>1
  <2>4. \A j \in n + 1 .. Len(new) : ~SetsParam(new[j], param)
    BY <1>1, <1>4, <2>3
  <2> HIDE DEF n
  <2> QED BY <1>4, <2>2, <2>4 DEF Tracked
<1> QED BY <1>2, <1>3, <1>4 DEF Tracked

\* The answer to a message for the parameter, and to one for another.
LEMMA InfoAnswered ==
  ASSUME NEW info, IsInfo(info), NEW key, NEW ok \in BOOLEAN, NEW new,
         new = ProcessSetParamResult(info, [key |-> key, ok |-> ok])
  PROVE  /\ IsInfo(new) /\ new.requested_value = info.requested_value
         /\ info.updating # {key} => new = info
         /\ info.updating = {key} => /\ new.updating = {}
                                     /\ new.dirty <=> info.dirty \/ ~ok
<1> DEFINE result == [key |-> key, ok |-> ok]
<1>1. result.key = key /\ result.ok = ok
  OBVIOUS
<1> HIDE DEF result
<1>2. new = ProcessSetParamResult(info, result)
  BY DEF result
<1>3. CASE info.updating # {key}
  BY <1>1, <1>2, <1>3 DEF ProcessSetParamResult
<1>4. CASE info.updating = {key}
  <2> DEFINE dirty == info.dirty \/ ~ok
             u == [info EXCEPT !.updating = {}]
  <2>0. dirty \in BOOLEAN
    OBVIOUS
  <2>1. new = [u EXCEPT !.dirty = @ \/ ~ok]
    BY <1>1, <1>2, <1>4 DEF ProcessSetParamResult
  <2>2. info = [requested_value |-> info.requested_value, updating |-> info.updating,
                dirty |-> info.dirty]
    BY DEF IsInfo
  <2>3. u = [requested_value |-> info.requested_value, updating |-> {}, dirty |-> info.dirty]
    BY <2>2
  <2>4. u.dirty = info.dirty
    BY <2>3
  <2>5. new = [u EXCEPT !.dirty = dirty]
    BY <2>1, <2>4
  <2> HIDE DEF u, dirty
  <2>6. new = [requested_value |-> info.requested_value, updating |-> {}, dirty |-> dirty]
    BY <2>3, <2>5
  <2>7. new.requested_value = info.requested_value /\ new.updating = {} /\ new.dirty = dirty
    BY <2>6
  <2>8. IsInfo(new)
    BY <2>0, <2>6, <2>7 DEF IsInfo
  <2> QED BY <1>4, <2>7, <2>8 DEF dirty
<1> QED BY <1>3, <1>4

LEMMA TrackedAnswered ==
  ASSUME NEW info, IsInfo(info), NEW l, NEW value, NEW param, Tracked(info, l, value, param),
         NEW next, LinkInv(l, next), NEW new, Shortened(new, l), NEW ok \in BOOLEAN,
         NEW info2, info2 = ProcessSetParamResult(info, [key |-> l[1].key, ok |-> ok]),
         NEW value2, ~SetsParam(l[1], param) => value2 = value,
         SetsParam(l[1], param) /\ ok => value2 = l[1].content.value
  PROVE  Tracked(info2, new, value2, param)
<1>1. /\ \A i \in 1 .. Len(new) : i + 1 \in 1 .. Len(l) /\ new[i] = l[i + 1]
      /\ \A i \in 1 .. Len(l) : i # 1 => i - 1 \in 1 .. Len(new) /\ new[i - 1] = l[i]
      /\ 1 \in 1 .. Len(l) /\ Len(l) \in Nat /\ Len(new) = Len(l) - 1
  BY ShortenedPlaces DEF Shortened
<1>2. \A i \in 1 .. Len(l) : i # 1 => l[i].key # l[1].key
  <2>1. \A i \in 1 .. Len(l) : i # 1 => 1 < i
    BY <1>1
  <2>2. \A i \in 1 .. Len(l) : l[i].key \in Nat
    BY DEF LinkInv
  <2>3. \A i, j \in 1 .. Len(l) : i < j => l[i].key < l[j].key
    BY DEF LinkInv
  <2>4. \A i \in 1 .. Len(l) : i # 1 => l[1].key < l[i].key
    BY <1>1, <2>1, <2>3
  <2> QED BY <1>1, <2>2, <2>4
<1>3. /\ info2.requested_value = info.requested_value
      /\ info.updating # {l[1].key} => info2 = info
      /\ info.updating = {l[1].key} => info2.updating = {} /\ (info2.dirty <=> info.dirty \/ ~ok)
  BY InfoAnswered
<1>4. CASE ~SetsParam(l[1], param)
  <2>1. info.updating # {l[1].key}
    BY <1>2, <1>4 DEF Tracked
  <2> QED BY <1>3, <1>4, <2>1, TrackedShortened
<1>5. CASE SetsParam(l[1], param)
  <2>1. CASE info.updating = {} /\ info.dirty
    BY <1>3, <2>1 DEF Tracked
  <2>2. ASSUME NEW i \in 1 .. Len(l),
               info.updating = {l[i].key}, SetsParam(l[i], param),
               ~info.dirty => l[i].content.value = info.requested_value,
               \A j \in i + 1 .. Len(l) : ~SetsParam(l[j], param)
        PROVE  Tracked(info2, new, value2, param)
    <3>1. CASE i = 1
      <4>1. \A j \in 1 .. Len(new) : j + 1 \in i + 1 .. Len(l)
        BY <1>1, <3>1
      <4>2. \A j \in 1 .. Len(new) : ~SetsParam(new[j], param)
        BY <1>1, <2>2, <4>1
      <4>3. info2.updating = {} /\ (info2.dirty <=> info.dirty \/ ~ok)
        BY <1>3, <2>2, <3>1
      <4>4. CASE info2.dirty
        BY <4>3, <4>4 DEF Tracked
      <4>5. CASE ~info2.dirty
        <5>1. value2 = info2.requested_value
          BY <1>3, <1>5, <2>2, <3>1, <4>3, <4>5
        <5> QED BY <4>2, <4>3, <4>5, <5>1 DEF Tracked
      <4> QED BY <4>4, <4>5
    <3>2. CASE i # 1
      <4> DEFINE n == i - 1
      <4>1. n \in 1 .. Len(new) /\ new[n] = l[i]
        BY <1>1, <3>2
      <4>0. Len(l) \in Nat /\ Len(new) = Len(l) - 1 /\ i \in Nat
        BY <1>1
      <4>2. \A j \in n + 1 .. Len(new) : j \in 1 .. Len(new) /\ j + 1 \in i + 1 .. Len(l)
        BY <4>0, <3>2
      <4>3. \A j \in n + 1 .. Len(new) : ~SetsParam(new[j], param)
        BY <1>1, <2>2, <4>2
      <4>4. info2 = info
        BY <1>2, <1>3, <2>2, <3>2
      <4> HIDE DEF n
      <4> QED BY <2>2, <4>1, <4>3, <4>4 DEF Tracked
    <3> QED BY <3>1, <3>2
  <2> QED BY <1>1, <1>5, <2>1, <2>2 DEF Tracked
<1> QED BY <1>4, <1>5

LEMMA Fields ==
  PibFields = {"mac_extended_address", "mac_associated_pan_coord", "mac_association_permit",
               "mac_beacon_payload", "mac_bsn", "mac_dsn", "mac_pan_id", "mac_short_address",
               "mac_beacon_auto_respond", "mac_transaction_persistence_time",
               "mac_max_frame_retries", "phy_current_channel", "phy_max_tx_power",
               "phy_tx_power"}
  BY DEF PibFields, SettableTypes, Unreadable, ReadOnly

LEMMA NewPibIs ==
  ASSUME NEW address, NEW channel, NEW power, NEW bsn, NEW dsn
  PROVE  IsPib(NewPib(address, channel, power, bsn, dsn))
<1> DEFINE p == NewPib(address, channel, power, bsn, dsn)
<1>1. DOMAIN p = PibFields /\ p = [field \in DOMAIN p |-> p[field]]
  BY Fields DEF NewPib
<1> QED BY <1>1 DEF IsPib

WithField(p, field, x) == [p EXCEPT ![field] = x]

LEMMA PibExcept ==
  ASSUME NEW p, IsPib(p), NEW field, NEW x, NEW new, new = WithField(p, field, x)
  PROVE  IsPib(new) /\ \A f \in PibFields : f # field => new[f] = p[f]
<1>1. PICK S : S = PibFields
  OBVIOUS
<1>2. p = [f \in S |-> p[f]]
  BY <1>1 DEF IsPib
<1>3. new = [f \in S |-> IF f = field THEN x ELSE p[f]]
  BY <1>2 DEF WithField
<1>4. new = [f \in S |-> new[f]] /\ \A f \in S : f # field => new[f] = p[f]
  BY <1>3, Zenon
<1>5. IsPib(new)
  BY <1>1, <1>4, Zenon DEF IsPib
<1> QED BY <1>1, <1>4, <1>5

\* Fields that no parameter is made from.
LEMMA SameValues ==
  ASSUME NEW p, NEW new,
         \A f \in {"phy_current_channel", "mac_pan_id", "mac_short_address", "phy_tx_power"} :
           new[f] = p[f],
         NEW param \in Params
  PROVE  ParamValue(new, param) = ParamValue(p, param)
<1>1. param \in RadioParams
  BY ParamsAssumption
<1> QED BY <1>1 DEF ParamValue, RadioParams

LEMMA SequenceNumbers ==
  ASSUME NEW p, IsPib(p), NEW field \in {"mac_bsn", "mac_dsn"}, NEW x, NEW new,
         new = WithField(p, field, x)
  PROVE  IsPib(new) /\ \A param \in Params : ParamValue(new, param) = ParamValue(p, param)
<1>1. IsPib(new) /\ \A f \in PibFields : f # field => new[f] = p[f]
  BY PibExcept
<1>2. \A f \in {"phy_current_channel", "mac_pan_id", "mac_short_address", "phy_tx_power"} :
        new[f] = p[f]
  BY <1>1, Fields
<1> QED BY <1>1, <1>2, SameValues

LEMMA ParamsPib ==
  ASSUME NEW ps, NEW p, NEW l, NEW values, ParamsInv(ps, p, l, values), NEW p2, IsPib(p2),
         \A param \in Params : ParamValue(p2, param) = ParamValue(p, param)
  PROVE  ParamsInv(ps, p2, l, values)
  BY DEF ParamsInv

LEMMA ParamsAppended ==
  ASSUME NEW ps, NEW p, NEW l, NEW values, ParamsInv(ps, p, l, values),
         NEW new, NEW m, Appended(new, l, m), m.type # "SetParam"
  PROVE  ParamsInv(ps, p, new, values)
<1>1. \A param \in Params : ~SetsParam(m, param)
  BY DEF SetsParam
<1> QED BY <1>1, TrackedAppended DEF ParamsInv

LEMMA ParamsNew ==
  ASSUME NEW p, IsPib(p), NEW l, NEW values
  PROVE  ParamsInv(NewParams(p), p, l, values)
<1> DEFINE ps == NewParams(p)
<1>1. ps = [param \in Params |-> ps[param]]
  BY DEF NewParams
<1>2. ASSUME NEW param \in Params
      PROVE  /\ IsInfo(ps[param]) /\ ps[param].requested_value = ParamValue(p, param)
             /\ Tracked(ps[param], l, values[param], param)
  <2> DEFINE yes == TRUE
  <2>1. ps[param] = [requested_value |-> ParamValue(p, param), updating |-> {}, dirty |-> yes]
    BY DEF NewParams
  <2> HIDE DEF ps, yes
  <2>2. /\ ps[param].requested_value = ParamValue(p, param) /\ ps[param].updating = {}
        /\ ps[param].dirty = yes
    BY <2>1
  <2>3. IsInfo(ps[param])
    BY <2>1, <2>2 DEF IsInfo, yes
  <2>4. Tracked(ps[param], l, values[param], param)
    BY <2>2 DEF Tracked, yes
  <2> QED BY <2>2, <2>3, <2>4
<1> HIDE DEF ps
<1>3. ParamsInv(ps, p, l, values)
  BY <1>1, <1>2 DEF ParamsInv
<1> QED BY <1>3 DEF ps

\* A value that is requested anew makes the parameter dirty.
LEMMA TrackedDirty ==
  ASSUME NEW info, NEW l, NEW value, NEW param, Tracked(info, l, value, param),
         NEW new, new.dirty, new.updating = info.updating
  PROVE  Tracked(new, l, value, param)
  BY DEF Tracked

LEMMA ParamsUpdated ==
  ASSUME NEW ps, NEW p, NEW l, NEW values, ParamsInv(ps, p, l, values), NEW p2, IsPib(p2)
  PROVE  ParamsInv(UpdateParams(ps, p2), p2, l, values)
<1> DEFINE new == UpdateParams(ps, p2)
<1>1. new = [param \in Params |-> new[param]]
  BY DEF UpdateParams
<1>2. ASSUME NEW param \in Params
      PROVE  /\ IsInfo(new[param]) /\ new[param].requested_value = ParamValue(p2, param)
             /\ Tracked(new[param], l, values[param], param)
  <2> DEFINE info == ps[param]
             value == ParamValue(p2, param)
             yes == TRUE
             u == [info EXCEPT !.requested_value = value]
  <2>0. IsInfo(info) /\ Tracked(info, l, values[param], param)
    BY DEF ParamsInv
  <2>1. new[param] = IF info.requested_value # value THEN [u EXCEPT !.dirty = yes] ELSE info
    BY DEF UpdateParams
  <2> HIDE DEF new, info, value, yes
  <2>2. info = [requested_value |-> info.requested_value, updating |-> info.updating,
                dirty |-> info.dirty]
    BY <2>0 DEF IsInfo
  <2>3. CASE info.requested_value = value
    BY <2>0, <2>1, <2>3 DEF value
  <2>4. CASE info.requested_value # value
    <3>1. u = [requested_value |-> value, updating |-> info.updating, dirty |-> info.dirty]
      BY <2>2
    <3> HIDE DEF u
    <3>2. new[param] = [requested_value |-> value, updating |-> info.updating, dirty |-> yes]
      BY <2>1, <2>4, <3>1
    <3>3. /\ new[param].requested_value = value /\ new[param].updating = info.updating
          /\ new[param].dirty = yes
      BY <3>2
    <3>4. IsInfo(new[param]) /\ new[param].dirty
      BY <3>2, <3>3 DEF IsInfo, yes
    <3>5. Tracked(new[param], l, values[param], param)
      BY <2>0, <3>3, <3>4, TrackedDirty
    <3> QED BY <3>3, <3>4, <3>5 DEF value
  <2> QED BY <2>3, <2>4
<1> HIDE DEF new
<1>3. ParamsInv(new, p2, l, values)
  BY <1>1, <1>2 DEF ParamsInv
<1> QED BY <1>3 DEF new

\* The parameter that is sent is tracked by its message.
LEMMA ParamsSend ==
  ASSUME NEW ps, NEW p, NEW l, NEW values, ParamsInv(ps, p, l, values),
         NEW param \in Params, NEW key, NEW new, NEW m, Appended(new, l, m),
         SetsParam(m, param), m.key = key, m.content.value = ps[param].requested_value,
         NEW ps2, ps2 = [ps EXCEPT ![param] = SendParam(@, key)]
  PROVE  ParamsInv(ps2, p, new, values)
<1> DEFINE info == ps[param]
           no == FALSE
           u == [info EXCEPT !.dirty = no]
           sent == SendParam(info, key)
<1>1. /\ IsPib(p) /\ ps = [x \in Params |-> ps[x]] /\ IsInfo(info)
      /\ info.requested_value = ParamValue(p, param)
  BY DEF ParamsInv
<1>2. info = [requested_value |-> info.requested_value, updating |-> info.updating,
              dirty |-> info.dirty]
  BY <1>1 DEF IsInfo
<1>3. sent = [u EXCEPT !.updating = {key}]
  BY DEF SendParam
<1>0. ps2 = [x \in Params |-> IF x = param THEN sent ELSE ps[x]]
  BY <1>1
<1> HIDE DEF info, no, sent
<1>4. u = [requested_value |-> info.requested_value, updating |-> info.updating, dirty |-> no]
  BY <1>2
<1> HIDE DEF u
<1>5. sent = [requested_value |-> info.requested_value, updating |-> {key}, dirty |-> no]
  BY <1>3, <1>4
<1>6. sent.requested_value = info.requested_value /\ sent.updating = {key} /\ sent.dirty = no
  BY <1>5
<1>7. IsInfo(sent)
  BY <1>5, <1>6 DEF IsInfo, no
<1>8. Tracked(sent, new, values[param], param)
  BY <1>6, TrackedSent DEF info
<1>9. /\ ps2 = [x \in Params |-> ps2[x]] /\ ps2[param] = sent
      /\ \A x \in Params : x # param => ps2[x] = ps[x]
  BY <1>0, Zenon
<1>10. ASSUME NEW x \in Params, x # param
       PROVE  Tracked(ps[x], new, values[x], x)
  <2>1. ~SetsParam(m, x)
    BY <1>10 DEF SetsParam
  <2>2. Tracked(ps[x], l, values[x], x)
    BY DEF ParamsInv
  <2> QED BY <2>1, <2>2, TrackedAppended
<1>11. ASSUME NEW x \in Params
       PROVE  /\ IsInfo(ps2[x]) /\ ps2[x].requested_value = ParamValue(p, x)
              /\ Tracked(ps2[x], new, values[x], x)
  <2>1. CASE x = param
    BY <1>1, <1>6, <1>7, <1>8, <1>9, <2>1
  <2>2. CASE x # param
    BY <1>9, <1>10, <2>2 DEF ParamsInv
  <2> QED BY <2>1, <2>2
<1> QED BY <1>1, <1>9, <1>11 DEF ParamsInv

\* An answer to the oldest message, of which ps2 is what the service makes.
LEMMA ParamsAnswered ==
  ASSUME NEW ps, NEW p, NEW l, NEW values, ParamsInv(ps, p, l, values),
         NEW key, LinkInv(l, key), NEW new, Shortened(new, l), NEW ok \in BOOLEAN,
         NEW ps2,
         ps2 = [param \in Params |->
                  ProcessSetParamResult(ps[param], [key |-> l[1].key, ok |-> ok])],
         NEW values2,
         \A param \in Params : ~SetsParam(l[1], param) => values2[param] = values[param],
         \A param \in Params : SetsParam(l[1], param) /\ ok => values2[param] = l[1].content.value
  PROVE  ParamsInv(ps2, p, new, values2)
<1>1. ps2 = [param \in Params |-> ps2[param]]
  BY Zenon
<1>2. ASSUME NEW param \in Params
      PROVE  /\ IsInfo(ps2[param]) /\ ps2[param].requested_value = ParamValue(p, param)
             /\ Tracked(ps2[param], new, values2[param], param)
  <2>1. /\ IsInfo(ps[param]) /\ ps[param].requested_value = ParamValue(p, param)
        /\ Tracked(ps[param], l, values[param], param)
    BY DEF ParamsInv
  <2>2. ps2[param] = ProcessSetParamResult(ps[param], [key |-> l[1].key, ok |-> ok])
    OBVIOUS
  <2>3. IsInfo(ps2[param]) /\ ps2[param].requested_value = ps[param].requested_value
    BY <2>1, <2>2, InfoAnswered
  <2>4. Tracked(ps2[param], new, values2[param], param)
    BY <2>1, <2>2, TrackedAnswered
  <2> QED BY <2>1, <2>3, <2>4
<1> QED BY <1>1, <1>2 DEF ParamsInv

LEMMA ParamsShortened ==
  ASSUME NEW ps, NEW p, NEW l, NEW values, ParamsInv(ps, p, l, values),
         NEW new, Shortened(new, l), l[1].type # "SetParam"
  PROVE  ParamsInv(ps, p, new, values)
<1>1. \A param \in Params : ~SetsParam(l[1], param)
  BY DEF SetsParam
<1> QED BY <1>1, TrackedShortened DEF ParamsInv

\* What the radio makes of a message.
LEMMA ExecuteParam ==
  ASSUME RadioInv(radio), NEW content, content.type = "SetParam", content.param \in Params
  PROVE  /\ RadioInv(Execute(content)) /\ Execute(content).short = radio.short
         /\ Execute(content).params[content.param] = content.value
         /\ \A x \in Params : x # content.param => Execute(content).params[x] = radio.params[x]
<1> DEFINE params == [radio.params EXCEPT ![content.param] = content.value]
           new == [radio EXCEPT !.params = params]
<1>1. /\ radio.params = [param \in Params |-> radio.params[param]]
      /\ radio.short = [i \in Slots |-> radio.short[i]]
  BY DEF RadioInv
<1>2. radio = [params |-> radio.params, short |-> radio.short, extended |-> radio.extended]
  BY DEF RadioInv
<1>3. Execute(content) = new
  BY <1>2 DEF Execute
<1>4. params = [x \in Params |-> IF x = content.param THEN content.value ELSE radio.params[x]]
  BY <1>1
<1> HIDE DEF params
<1>5. /\ params = [x \in Params |-> params[x]] /\ params[content.param] = content.value
      /\ \A x \in Params : x # content.param => params[x] = radio.params[x]
  BY <1>4, Zenon
<1>6. new = [params |-> params, short |-> radio.short, extended |-> radio.extended]
  BY <1>2
<1> HIDE DEF new
<1>7. new.params = params /\ new.short = radio.short /\ new.extended = radio.extended
  BY <1>6
<1>8. RadioInv(new)
  BY <1>1, <1>5, <1>6, <1>7 DEF RadioInv
<1> QED BY <1>3, <1>5, <1>7, <1>8

LEMMA ExecuteInit ==
  ASSUME RadioInv(radio), NEW content, content.type = "Init"
  PROVE  /\ RadioInv(Execute(content)) /\ Execute(content).params = radio.params
         /\ \A i \in Slots : Execute(content).short[i] = {}
<1> DEFINE empty == [i \in Slots |-> {}]
           u == [radio EXCEPT !.short = empty]
           new == [u EXCEPT !.extended = empty]
<1>1. radio.params = [param \in Params |-> radio.params[param]]
  BY DEF RadioInv
<1>2. radio = [params |-> radio.params, short |-> radio.short, extended |-> radio.extended]
  BY DEF RadioInv
<1>3. Execute(content) = new
  BY DEF Execute
<1>4. empty = [i \in Slots |-> empty[i]] /\ \A i \in Slots : empty[i] = {}
  OBVIOUS
<1> HIDE DEF empty
<1>5. u = [params |-> radio.params, short |-> empty, extended |-> radio.extended]
  BY <1>2
<1> HIDE DEF u
<1>6. new = [params |-> radio.params, short |-> empty, extended |-> empty]
  BY <1>5
<1> HIDE DEF new
<1>7. new.params = radio.params /\ new.short = empty /\ new.extended = empty
  BY <1>6
<1>8. RadioInv(new)
  BY <1>1, <1>4, <1>6, <1>7 DEF RadioInv
<1> QED BY <1>3, <1>4, <1>7, <1>8

LEMMA ExecuteShort ==
  ASSUME RadioInv(radio), NEW content, content.type = "UpdateShort"
  PROVE  /\ RadioInv(Execute(content)) /\ Execute(content).params = radio.params
         /\ content.index \in Slots => Execute(content).short[content.index] = content.value
         /\ \A i \in Slots : i # content.index => Execute(content).short[i] = radio.short[i]
<1> DEFINE short == [radio.short EXCEPT ![content.index] = content.value]
           new == [radio EXCEPT !.short = short]
<1>1. /\ radio.params = [param \in Params |-> radio.params[param]]
      /\ radio.short = [i \in Slots |-> radio.short[i]]
  BY DEF RadioInv
<1>2. radio = [params |-> radio.params, short |-> radio.short, extended |-> radio.extended]
  BY DEF RadioInv
<1>3. Execute(content) = new
  BY <1>2 DEF Execute
<1>4. short = [i \in Slots |-> IF i = content.index THEN content.value ELSE radio.short[i]]
  BY <1>1
<1> HIDE DEF short
<1>5. /\ short = [i \in Slots |-> short[i]]
      /\ content.index \in Slots => short[content.index] = content.value
      /\ \A i \in Slots : i # content.index => short[i] = radio.short[i]
  BY <1>4, Zenon
<1>6. new = [params |-> radio.params, short |-> short, extended |-> radio.extended]
  BY <1>2
<1> HIDE DEF new
<1>7. new.params = radio.params /\ new.short = short /\ new.extended = radio.extended
  BY <1>6
<1>8. RadioInv(new)
  BY <1>1, <1>5, <1>6, <1>7 DEF RadioInv
<1> QED BY <1>3, <1>5, <1>7, <1>8

LEMMA ExecuteOther ==
  ASSUME RadioInv(radio), NEW content,
         content.type \notin {"SetParam", "Init", "UpdateShort"}
  PROVE  /\ RadioInv(Execute(content)) /\ Execute(content).params = radio.params
         /\ Execute(content).short = radio.short
<1>1. CASE content.type = "UpdateExtended"
  <2> DEFINE extended == [radio.extended EXCEPT ![content.index] = content.value]
             new == [radio EXCEPT !.extended = extended]
  <2>1. /\ radio.params = [param \in Params |-> radio.params[param]]
        /\ radio.short = [i \in Slots |-> radio.short[i]]
    BY DEF RadioInv
  <2>2. radio = [params |-> radio.params, short |-> radio.short, extended |-> radio.extended]
    BY DEF RadioInv
  <2>3. Execute(content) = new
    BY <1>1, <2>2 DEF Execute
  <2> HIDE DEF extended
  <2>4. new = [params |-> radio.params, short |-> radio.short, extended |-> extended]
    BY <2>2
  <2> HIDE DEF new
  <2>5. new.params = radio.params /\ new.short = radio.short /\ new.extended = extended
    BY <2>4
  <2>6. RadioInv(new)
    BY <2>1, <2>4, <2>5 DEF RadioInv
  <2> QED BY <2>3, <2>5, <2>6
<1>2. CASE content.type # "UpdateExtended"
  BY <1>2 DEF Execute
<1> QED BY <1>1, <1>2

\* The answer to the oldest message, ok, which the radio has done as it was asked to.
Answered(ok, done) ==
  /\ ok => done
  /\ Shortened(link', link) /\ MessageInv(link[1])
  /\ radio' = IF done THEN Execute(link[1].content) ELSE radio
  /\ pib' = pib
  /\ link[1].type = "SetParam" =>
       /\ radio_params' = [param \in Params |->
                             ProcessSetParamResult(radio_params[param],
                                                   [key |-> link[1].key, ok |-> ok])]
       /\ tables' = tables
  /\ link[1].type # "SetParam" => radio_params' = radio_params
  /\ link[1].type = "Init" => tables' = Data!ReportInitResult(tables, link[1].key, ok)
  /\ link[1].type = "Update" => tables' = Data!ReportTablesResult(tables, link[1].key, ok)
  /\ link[1].type = "SendPacket" => tables' = tables
  /\ asleep' = FALSE /\ quiet' = {}

LEMMA AnswersShape ==
  ASSUME DataInv, Answers
  PROVE  \E ok, done \in BOOLEAN : Answered(ok, done)
<1>0. PICK ok, done \in BOOLEAN :
        AnswersParam(ok, done) \/ \E heard \in BOOLEAN : AnswersData(ok, done, heard)
  BY DEF Answers
<1>1. link # <<>> /\ link' = Tail(link)
  BY <1>0 DEF AnswersParam, AnswersData, RadioAnswers, Data!RadioAnswers
<1>2. IsSequence(link) /\ \A i \in 1 .. Len(link) : MessageInv(link[i])
  BY DEF DataInv, LinkInv
<1>3. Shortened(link', link) /\ Head(link) = link[1] /\ MessageInv(link[1])
  BY <1>1, <1>2, TailSequence
<1>4. CASE AnswersParam(ok, done)
  <2>1. /\ ok => done
        /\ radio' = IF done THEN Execute(link[1].content) ELSE radio
        /\ pib' = pib /\ tables' = tables /\ asleep' = FALSE /\ quiet' = {}
        /\ link[1].type = "SetParam"
        /\ radio_params' = [param \in Params |->
                              ProcessSetParamResult(radio_params[param],
                                                    [key |-> link[1].key, ok |-> ok])]
    BY <1>3, <1>4 DEF AnswersParam, RadioAnswers, Data!Input, Data!Wake
  <2> QED BY <1>3, <2>1 DEF Answered
<1>5. ASSUME NEW heard \in BOOLEAN, AnswersData(ok, done, heard)
      PROVE  Answered(ok, done)
  <2>1. /\ ok => done
        /\ radio' = IF done THEN Execute(link[1].content) ELSE radio
        /\ pib' = pib /\ asleep' = FALSE /\ quiet' = {}
        /\ link[1].type # "SetParam" /\ radio_params' = radio_params
        /\ tables' = CASE link[1].type = "Init" ->
                            Data!ReportInitResult(tables, link[1].key, ok)
                       [] link[1].type = "Update" ->
                            Data!ReportTablesResult(tables, link[1].key, ok)
                       [] link[1].type = "SendPacket" -> tables
    BY <1>3, <1>5 DEF AnswersData, RadioAnswers, Data!RadioAnswers, Data!Input, Data!Wake
  <2>2. /\ link[1].type = "Init" => tables' = Data!ReportInitResult(tables, link[1].key, ok)
        /\ link[1].type = "Update" => tables' = Data!ReportTablesResult(tables, link[1].key, ok)
        /\ link[1].type = "SendPacket" => tables' = tables
    BY <2>1
  <2> QED BY <1>3, <2>1, <2>2 DEF Answered
<1> QED BY <1>0, <1>4, <1>5

LEMMA RadioStep ==
  ASSUME DataInv, RadioInv(radio), [Next]_vars
  PROVE  RadioInv(radio')
<1>1. CASE Answers
  <2>1. PICK ok, done \in BOOLEAN : Answered(ok, done)
    BY <1>1, AnswersShape
  <2> DEFINE content == link[1].content
  <2>2. radio' = radio \/ radio' = Execute(content)
    BY <2>1 DEF Answered
  <2>3. content.type = "SetParam" => content.param \in Params
    BY <2>1 DEF Answered, MessageInv
  <2> HIDE DEF content
  <2>4. RadioInv(Execute(content))
    BY <2>3, ExecuteParam, ExecuteInit, ExecuteShort, ExecuteOther
  <2> QED BY <2>2, <2>4
<1>2. CASE UNCHANGED radio
  BY <1>2
<1>3. CASE Main \/ MainStops \/ MacHangs \/ UNCHANGED vars
  BY <1>2, <1>3 DEF vars, Main, MainStarts, MainTakesConfirm, MainSendsBeacon,
     MainAnswersAssociate, MainSendsData, MainTakes, MainRuns, airVars, MainStops,
     MacHangs
<1>4. CASE MacPolls
  BY <1>2, <1>4 DEF MacPolls, PollOutgoing, PollData, PollParam, airVars
<1>5. CASE ProcessMlme \/ ProcessMcps
  BY <1>2, <1>5 DEF ProcessMlme, ProcessReset, ProcessSet, ProcessStart, ProcessBeacon,
     ProcessAssociateResponse, TakeMlme, ProcessMcps, airVars
<1>6. CASE \/ ReceiveBeaconRequest \/ ReceiveDataRequest \/ ReceiveAck \/ ReceiveUndecodable
           \/ \E fast \in BOOLEAN : ReceiveAssociationRequest(fast)
           \/ \E other \in OtherDevices : ReceiveOtherAssociation(other)
           \/ AckTimeout \/ TransactionTimeout
  BY <1>2, <1>6 DEF ReceiveBeaconRequest, ReceiveDataRequest, ReceiveAck, ReceiveUndecodable,
     ReceiveAssociationRequest, ReceiveOtherAssociation, Receive, AckTimeout,
     TransactionTimeout, airVars
<1> QED BY <1>1, <1>3, <1>4, <1>5, <1>6 DEF Next

\* What a poll of the data service sends is no parameter.
LEMMA PollDataShape ==
  ASSUME DataInv, PollData
  PROVE  /\ \E dsn : pib' = WithField(pib, "mac_dsn", dsn)
         /\ UNCHANGED <<radio, radio_params>>
         /\ link' = link \/ \E m : Appended(link', link, m) /\ m.type # "SetParam"
<1>1. /\ \E dsn : pib' = WithField(pib, "mac_dsn", dsn)
      /\ UNCHANGED <<radio, radio_params>> /\ Data!Poll
  BY DEF PollData, airVars, WithField
<1>2. ASSUME NEW type, NEW key, NEW content, type # "SetParam",
             link' = Data!ToRadio(type, key, content)
      PROVE  \E m : Appended(link', link, m) /\ m.type # "SetParam"
  <2> DEFINE m == [type |-> type, key |-> key, content |-> content]
  <2>1. m.type # "SetParam"
    BY <1>2
  <2>2. Appended(link', link, m)
    BY <1>2, ToRadioAppends
  <2> QED BY <2>1, <2>2
<1>3. CASE Data!PollPendingTable
  <2> DEFINE content == Data!PollTables(tables, next_key).action
             type == IF content.type = "Init" THEN "Init" ELSE "Update"
  <2>1. link' = Data!ToRadio(type, next_key, content)
    BY <1>3 DEF Data!PollPendingTable
  <2>2. type # "SetParam"
    OBVIOUS
  <2> HIDE DEF type, content
  <2> QED BY <1>1, <1>2, <2>1, <2>2
<1>4. CASE Data!PollPending
  BY <1>1, <1>4 DEF Data!PollPending
<1>5. ASSUME NEW d \in DOMAIN queues, Data!PollQueue(d)
      PROVE  link' = link \/ \E m : Appended(link', link, m) /\ m.type # "SetParam"
  <2> DEFINE action == Data!PollNextAction(queues[d], next_key, pib.mac_dsn).action
  <2>1. link' = link \/ link' = Data!ToRadio("SendPacket", next_key, action)
    BY <1>5 DEF Data!PollQueue
  <2> HIDE DEF action
  <2> QED BY <1>2, <2>1
<1> QED BY <1>1, <1>3, <1>4, <1>5 DEF Data!Poll

LEMMA ParamsAnswer ==
  ASSUME DataInv, RadioInv(radio), ParamsInv(radio_params, pib, link, radio.params), Answers
  PROVE  ParamsInv(radio_params', pib', link', radio'.params)
<1>1. PICK ok, done \in BOOLEAN : Answered(ok, done)
  BY AnswersShape
<1> DEFINE content == link[1].content
<1>2. /\ Shortened(link', link) /\ MessageInv(link[1]) /\ pib' = pib
      /\ radio' = IF done THEN Execute(content) ELSE radio
      /\ LinkInv(link, next_key)
  BY <1>1 DEF Answered, DataInv
<1>3. CASE link[1].type # "SetParam"
  <2>1. radio_params' = radio_params
    BY <1>1, <1>3 DEF Answered
  <2>2. content.type # "SetParam"
    BY <1>2, <1>3 DEF MessageInv
  <2>3. Execute(content).params = radio.params
    <3> HIDE DEF content
    <3> QED BY <2>2, ExecuteInit, ExecuteShort, ExecuteOther
  <2>4. radio'.params = radio.params
    BY <1>2, <2>3
  <2> QED BY <1>2, <1>3, <2>1, <2>4, ParamsShortened
<1>4. CASE link[1].type = "SetParam"
  <2>1. /\ radio_params' = [param \in Params |->
                             ProcessSetParamResult(radio_params[param],
                                                   [key |-> link[1].key, ok |-> ok])]
        /\ ok => done
    BY <1>1, <1>4 DEF Answered
  <2>2. content.type = "SetParam" /\ content.param \in Params
    BY <1>2, <1>4 DEF MessageInv
  <2>3. \A param \in Params : SetsParam(link[1], param) <=> param = content.param
    BY <1>4 DEF SetsParam
  <2> HIDE DEF content
  <2>4. /\ Execute(content).params[content.param] = content.value
        /\ \A x \in Params : x # content.param => Execute(content).params[x] = radio.params[x]
    BY <2>2, ExecuteParam
  <2>5. \A param \in Params :
          ~SetsParam(link[1], param) => radio'.params[param] = radio.params[param]
    BY <1>2, <2>3, <2>4
  <2>6. \A param \in Params : SetsParam(link[1], param) /\ ok =>
          radio'.params[param] = link[1].content.value
    BY <1>2, <2>1, <2>3, <2>4 DEF content
  <2> QED BY <1>2, <2>1, <2>5, <2>6, ParamsAnswered
<1> QED BY <1>3, <1>4

LEMMA ParamsStep ==
  ASSUME DataInv, RadioInv(radio), ParamsInv(radio_params, pib, link, radio.params),
         [Next]_vars
  PROVE  ParamsInv(radio_params', pib', link', radio'.params)
<1>0. IsPib(pib)
  BY DEF ParamsInv
<1>1. CASE UNCHANGED <<radio_params, pib, link, radio>>
  BY <1>1
<1>2. ASSUME NEW field \in {"mac_bsn", "mac_dsn"}, NEW x, pib' = WithField(pib, field, x),
             UNCHANGED <<radio_params, radio>>
      PROVE  ParamsInv(radio_params', pib', link, radio'.params)
  <2>1. IsPib(pib') /\ \A param \in Params : ParamValue(pib', param) = ParamValue(pib, param)
    BY <1>0, <1>2, SequenceNumbers
  <2> QED BY <1>2, <2>1, ParamsPib
<1>3. CASE Main \/ MainStops \/ MacHangs \/ UNCHANGED vars
  BY <1>1, <1>3 DEF vars, Main, MainStarts, MainTakesConfirm, MainSendsBeacon,
     MainAnswersAssociate, MainSendsData, MainTakes, MainRuns, airVars, MainStops,
     MacHangs, managementVars, linkVars
<1>4. CASE PollOutgoing
  <2>1. /\ UNCHANGED <<radio_params, pib, radio>>
        /\ link' = Data!ToRadio("SendPacket", next_key,
                                [type |-> "Beacon", beacon |-> Head(outgoing)])
    BY <1>4 DEF PollOutgoing, airVars
  <2> DEFINE content == [type |-> "Beacon", beacon |-> Head(outgoing)]
             m == [type |-> "SendPacket", key |-> next_key, content |-> content]
  <2>2. Appended(link', link, m) /\ m.type # "SetParam"
    BY <2>1, ToRadioAppends
  <2> HIDE DEF m
  <2> QED BY <2>1, <2>2, ParamsAppended
<1>5. CASE PollData
  <2>1. /\ \E dsn : pib' = WithField(pib, "mac_dsn", dsn)
        /\ UNCHANGED <<radio, radio_params>>
        /\ link' = link \/ \E m : Appended(link', link, m) /\ m.type # "SetParam"
    BY <1>5, PollDataShape
  <2>2. ParamsInv(radio_params', pib', link, radio'.params)
    BY <1>2, <2>1
  <2> QED BY <2>1, <2>2, ParamsAppended
<1>6. ASSUME NEW param \in Params, PollParam(param)
      PROVE  ParamsInv(radio_params', pib', link', radio'.params)
  <2> DEFINE content == [type |-> "SetParam", param |-> param,
                         value |-> radio_params[param].requested_value]
             m == [type |-> "SetParam", key |-> next_key, content |-> content]
  <2>1. /\ link' = Data!ToRadio("SetParam", next_key, content)
        /\ radio_params' = [radio_params EXCEPT ![param] = SendParam(@, next_key)]
        /\ UNCHANGED <<pib, radio>>
    BY <1>6 DEF PollParam, airVars
  <2>2. Appended(link', link, m)
    BY <2>1, ToRadioAppends
  <2>3. /\ SetsParam(m, param) /\ m.key = next_key
        /\ m.content.value = radio_params[param].requested_value
    BY DEF SetsParam
  <2> HIDE DEF m
  <2> QED BY <2>1, <2>2, <2>3, ParamsSend
<1>7. CASE ProcessReset
  <2>1. /\ \E bsn, dsn : pib' = ResetPib(pib, bsn, dsn)
        /\ radio_params' = NewParams(pib')
    BY <1>7 DEF ProcessReset
  <2>2. IsPib(pib')
    BY <2>1, NewPibIs DEF ResetPib
  <2> QED BY <2>1, <2>2, ParamsNew
<1>8. CASE ProcessSet
  <2> DEFINE field == Head(mlme_in).attribute
             x == Head(mlme_in).value.value
  <2>1. /\ pib' = pib \/ pib' = WithField(pib, field, x)
        /\ radio_params' = UpdateParams(radio_params, pib') /\ UNCHANGED <<link, radio>>
    BY <1>8 DEF ProcessSet, SetProperty, WithField, TakeMlme, airVars, Data!OtherInput
  <2> HIDE DEF field, x
  <2>2. IsPib(pib')
    BY <1>0, <2>1, PibExcept
  <2> QED BY <2>1, <2>2, ParamsUpdated
<1>9. CASE ProcessStart
  <2>1. UNCHANGED <<link, radio>>
    BY <1>9 DEF ProcessStart, TakeMlme, airVars, Data!OtherInput
  <2>2. CASE UNCHANGED <<pib, radio_params>>
    BY <1>1, <2>1, <2>2
  <2>3. CASE /\ pib' = StartedPib(pib, Head(mlme_in).pan_id, Head(mlme_in).channel)
             /\ radio_params' = UpdateParams(radio_params, pib')
    <3> DEFINE u == WithField(pib, "phy_current_channel", Head(mlme_in).channel)
               v == WithField(u, "mac_pan_id", Head(mlme_in).pan_id)
               coordinator == {<<pib.mac_extended_address, pib.mac_short_address>>}
               w == WithField(v, "mac_associated_pan_coord", coordinator)
    <3>1. pib' = w
      BY <2>3 DEF StartedPib, WithField
    <3>2. IsPib(u)
      BY <1>0, PibExcept
    <3> HIDE DEF u
    <3>3. IsPib(v)
      BY <3>2, PibExcept
    <3> HIDE DEF v, coordinator
    <3>4. IsPib(w)
      BY <3>3, PibExcept
    <3> QED BY <2>1, <2>3, <3>1, <3>4, ParamsUpdated
  <2> QED BY <1>9, <2>2, <2>3 DEF ProcessStart
<1>10. CASE ProcessBeacon \/ ReceiveBeaconRequest
  <2>1. UNCHANGED <<link, radio, radio_params>>
    BY <1>10 DEF ProcessBeacon, ReceiveBeaconRequest, TakeMlme, airVars, Receive,
                 Data!OtherInput
  <2>2. pib' = pib \/ pib' = WithField(pib, "mac_bsn", NextSequenceNr(pib.mac_bsn))
    BY <1>10 DEF ProcessBeacon, ReceiveBeaconRequest, QueueBeacon, BeaconSent, WithField
  <2> QED BY <1>1, <1>2, <2>1, <2>2
<1>11. CASE ReceiveUndecodable
  <2>1. radio_params' = NewParams(pib) /\ pib' = pib
    BY <1>11 DEF ReceiveUndecodable
  <2> QED BY <1>0, <2>1, ParamsNew
<1>12. CASE ProcessAssociateResponse \/ ProcessMcps
  <2>1. UNCHANGED <<radio_params, pib, link, radio>>
    BY <1>12 DEF ProcessAssociateResponse, ProcessMcps, TakeMlme, airVars, managementVars,
       Data!ProcessMlmeAssociateResponse, Data!ProcessMcpsDataRequest, Data!NewRequest
  <2> QED BY <1>1, <2>1
<1>13. CASE \/ ReceiveDataRequest \/ ReceiveAck \/ AckTimeout \/ TransactionTimeout
            \/ \E fast \in BOOLEAN : ReceiveAssociationRequest(fast)
            \/ \E other \in OtherDevices : ReceiveOtherAssociation(other)
  <2>1. UNCHANGED <<radio_params, pib, link, radio>>
    BY <1>13 DEF ReceiveDataRequest, ReceiveAck, ReceiveAssociationRequest,
       ReceiveOtherAssociation, Receive, AckTimeout, TransactionTimeout, airVars, managementVars, Data!OtherInput,
       Data!ProcessFrameDataRequest, Data!ProcessFrameAck, Data!AckTimeout,
       Data!TransactionTimeout
  <2> QED BY <1>1, <2>1
<1> QED BY <1>3, <1>4, <1>5, <1>6, <1>7, <1>8, <1>9, <1>10, <1>11, <1>12, <1>13, ParamsAnswer
         DEF Next, MacPolls, ProcessMlme

-----------------------------------------------------------------------------
(* The table of short addresses.                                            *)
LEMMA SizeNat == Size \in Nat \ {0} /\ Slots = 1 .. Size /\ 1 \in Slots /\ Slots \in SUBSET Nat
  BY CoordinatorAssumption DEF Slots

LEMMA ShortParts ==
  ASSUME NEW t, ShortInv(t)
  PROVE  /\ t = [values |-> t.values, table |-> t.table, order |-> t.order,
                 updating |-> t.updating]
         /\ t.values \in {{}, {Value}} /\ t.table \in [Slots -> Contents]
         /\ t.order \in [Slots -> Slots] /\ t.updating \in SUBSET (Nat \X Slots)
         /\ \A i \in Slots : /\ t.table[i] \in Contents
                             /\ t.table[i] = [dirty |-> t.table[i].dirty,
                                              value |-> t.table[i].value]
                             /\ t.table[i].dirty \in BOOLEAN
                             /\ t.table[i].value \in {{}, {Value}}
<1>1. t \in [values : {{}, {Value}}, table : [Slots -> Contents], order : [Slots -> Slots],
             updating : SUBSET (Nat \X Slots)]
  BY DEF ShortInv
<1>2. /\ t = [values |-> t.values, table |-> t.table, order |-> t.order,
              updating |-> t.updating]
      /\ t.values \in {{}, {Value}} /\ t.table \in [Slots -> Contents]
      /\ t.order \in [Slots -> Slots] /\ t.updating \in SUBSET (Nat \X Slots)
  BY <1>1
<1>3. \A i \in Slots : t.table[i] \in Contents
  BY <1>2
<1>4. \A x \in Contents : /\ x = [dirty |-> x.dirty, value |-> x.value]
                          /\ x.dirty \in BOOLEAN /\ x.value \in {{}, {Value}}
  BY DEF Contents
<1> QED BY <1>2, <1>3, <1>4

\* The values stay in their slots.
LEMMA ShortRetabled ==
  ASSUME NEW t, ShortInv(t), NEW table \in [Slots -> Contents],
         NEW updating \in SUBSET (Nat \X Slots),
         \A i \in Slots : table[i].value = t.table[i].value,
         NEW new, new = [values |-> t.values, table |-> table, order |-> t.order,
                         updating |-> updating]
  PROVE  ShortInv(new)
<1>1. /\ t.values \in {{}, {Value}} /\ t.order \in [Slots -> Slots]
  BY ShortParts
<1>2. /\ new.values = t.values /\ new.table = table /\ new.order = t.order
      /\ new.updating = updating
  OBVIOUS
<1>3. new \in [values : {{}, {Value}}, table : [Slots -> Contents], order : [Slots -> Slots],
               updating : SUBSET (Nat \X Slots)]
  BY <1>1
<1> QED BY <1>2, <1>3 DEF ShortInv

\* order keeps its type.
LEMMA OthersType ==
  ASSUME NEW order \in [Slots -> Slots], NEW index \in Slots
  PROVE  /\ Data!Others(order, index) \in Seq(Slots)
         /\ Len(Data!Others(order, index)) = Size - 1
<1> DEFINE p == Data!Position(order, index)
           rest == [n \in 1 .. Size - 1 |-> IF n < p THEN order[n] ELSE order[n + 1]]
<1>1. Len(order) = Size
  BY SizeNat
<1>2. Data!Others(order, index) = rest
  BY <1>1 DEF Data!Others
<1> HIDE DEF p
<1>3. \A n \in 1 .. Size - 1 : n \in Slots /\ n + 1 \in Slots
  BY SizeNat
<1>4. rest \in [1 .. Size - 1 -> Slots]
  BY <1>3
<1>5. Size - 1 \in Nat
  BY SizeNat
<1> HIDE DEF rest
<1>6. rest \in Seq(Slots) /\ Len(rest) = Size - 1
  BY <1>4, <1>5
<1> QED BY <1>2, <1>6

LEMMA OrderType ==
  ASSUME NEW order \in [Slots -> Slots], NEW index \in Slots
  PROVE  /\ Data!PromoteIndex(order, index) \in [Slots -> Slots]
         /\ Data!DemoteIndex(order, index) \in [Slots -> Slots]
<1>1. PICK rest : rest = Data!Others(order, index)
  OBVIOUS
<1>2. rest \in Seq(Slots) /\ Len(rest) = Size - 1
  BY <1>1, OthersType
<1>3. Size - 1 \in Nat /\ (Size - 1) + 1 = Size /\ 1 + (Size - 1) = Size /\ Slots = 1 .. Size
  BY SizeNat
<1>4. /\ Append(rest, index) \in Seq(Slots) /\ Len(Append(rest, index)) = Size
  BY <1>2, <1>3, AppendProperties
<1>5. <<index>> \in Seq(Slots) /\ Len(<<index>>) = 1
  OBVIOUS
<1>6. (<<index>> \o rest) \in Seq(Slots) /\ Len(<<index>> \o rest) = Size
  BY <1>2, <1>3, <1>5, ConcatProperties
<1>7. \A s \in Seq(Slots) : Len(s) = Size => s \in [Slots -> Slots]
  BY <1>3, LenProperties
<1>8. Append(rest, index) \in [Slots -> Slots]
  BY <1>4, <1>7
<1>9. (<<index>> \o rest) \in [Slots -> Slots]
  BY <1>6, <1>7
<1>10. Data!PromoteIndex(order, index) = Append(rest, index)
  BY <1>1 DEF Data!PromoteIndex
<1>11. Data!DemoteIndex(order, index) = <<index>> \o rest
  BY <1>1 DEF Data!DemoteIndex
<1> QED BY <1>8, <1>9, <1>10, <1>11

LEMMA ShortNew ==
  /\ ShortInv(Data!NewTable(Size)) /\ Data!NewTable(Size).updating = {}
  /\ Data!NewTable(Size).values = {}
<1> DEFINE table == [i \in Slots |-> Data!Default]
           order == [i \in Slots |-> i]
           new == Data!NewTable(Size)
<1>1. new = [values |-> {}, table |-> table, order |-> order, updating |-> {}]
  BY DEF Data!NewTable, Slots
<1>2. Data!Default \in Contents /\ Data!Default.value = {}
  BY DEF Data!Default, Contents
<1>3. /\ table \in [Slots -> Contents] /\ order \in [Slots -> Slots]
      /\ \A i \in Slots : table[i].value = {}
  BY <1>2
<1> HIDE DEF table, order, new
<1>4. /\ new.values = {} /\ new.table = table /\ new.order = order /\ new.updating = {}
  BY <1>1
<1>5. new \in [values : {{}, {Value}}, table : [Slots -> Contents], order : [Slots -> Slots],
               updating : SUBSET (Nat \X Slots)]
  BY <1>1, <1>3
<1>6. ShortInv(new)
  BY <1>3, <1>4, <1>5 DEF ShortInv
<1> QED BY <1>4, <1>6 DEF new

LEMMA TablesNew ==
  ASSUME NEW l, NEW slots
  PROVE  /\ TablesInv(Data!NewTables(Size), l, slots)
         /\ Data!NewTables(Size).short.values = {}
<1> DEFINE no == FALSE
           none == FALSE
           short == Data!NewTable(Size)
           new == Data!NewTables(Size)
<1>1. new = [initializing |-> {}, is_initialized |-> no, none |-> none,
             short |-> short, extended |-> short]
  BY DEF Data!NewTables
<1>2. ShortInv(short) /\ short.updating = {} /\ short.values = {}
  BY ShortNew
<1>3. no \in BOOLEAN /\ ~no
  OBVIOUS
<1> HIDE DEF short, no, none, new
<1>4. /\ new.initializing = {} /\ new.is_initialized = no /\ new.none = none
      /\ new.short = short /\ new.extended = short
  BY <1>1
<1>5. TablesInv(new, l, slots)
  BY <1>1, <1>2, <1>3, <1>4 DEF TablesInv, IsTables
<1> QED BY <1>2, <1>4, <1>5 DEF new

\* Slots are dirty or as they were.
Dirtied(new, t) ==
  /\ ShortInv(new) /\ new.updating = t.updating
  /\ \A i \in Slots : new.table[i] = t.table[i] \/ new.table[i].dirty

\* The slot that has the value, if one has.
LEMMA SlotOf ==
  ASSUME NEW t, ShortInv(t)
  PROVE  /\ Data!SlotsOf(t, Value) = {i \in Slots : t.table[i].value = {Value}}
         /\ Data!SlotsOf(t, Value) # {} <=> Value \in t.values
         /\ Data!SlotsOf(t, Value) # {} =>
              /\ Data!GetIndex(t, Value) \in Slots
              /\ t.table[Data!GetIndex(t, Value)].value = {Value}
<1>1. DOMAIN t.table = Slots
  BY ShortParts
<1>2. Data!SlotsOf(t, Value) = {i \in Slots : t.table[i].value = {Value}}
  BY <1>1 DEF Data!SlotsOf
<1>3. Data!SlotsOf(t, Value) # {} <=> Value \in t.values
  BY <1>2 DEF ShortInv
<1>4. ASSUME Data!SlotsOf(t, Value) # {}
      PROVE  Data!GetIndex(t, Value) \in Data!SlotsOf(t, Value)
  <2>1. Data!SlotsOf(t, Value) \in SUBSET Nat
    BY <1>2, SizeNat
  <2>2. \E i \in Data!SlotsOf(t, Value) : \A j \in Data!SlotsOf(t, Value) : i <= j
    BY <1>4, <2>1, LeastElementExists
  <2> QED BY <2>2 DEF Data!GetIndex
<1> QED BY <1>2, <1>3, <1>4

\* A slot is given to Value, or taken from it.
Writes(t, index, entry) ==
  /\ index \in Slots /\ entry \in Contents /\ entry.dirty
  /\ \A i \in Slots : i # index => t.table[i].value # {Value}

LEMMA ShortSlot ==
  ASSUME NEW t, ShortInv(t), NEW index, NEW entry, Writes(t, index, entry),
         NEW order \in [Slots -> Slots], NEW new,
         new = [values |-> entry.value, table |-> WithField(t.table, index, entry),
                order |-> order, updating |-> t.updating]
  PROVE  Dirtied(new, t) /\ new.values = entry.value
<1> DEFINE table == WithField(t.table, index, entry)
<1>0. /\ index \in Slots /\ entry \in Contents /\ entry.dirty
      /\ entry.value \in {{}, {Value}}
  BY DEF Writes, Contents
<1>1. t.table \in [Slots -> Contents] /\ t.updating \in SUBSET (Nat \X Slots)
  BY ShortParts
<1>2. /\ table \in [Slots -> Contents] /\ table[index] = entry
      /\ \A i \in Slots : i # index => table[i] = t.table[i]
  BY <1>0, <1>1 DEF WithField
<1>3. new = [values |-> entry.value, table |-> table, order |-> order,
             updating |-> t.updating]
  OBVIOUS
<1> HIDE DEF table
<1>4. /\ new.values = entry.value /\ new.table = table /\ new.order = order
      /\ new.updating = t.updating
  BY <1>3
<1>5. new \in [values : {{}, {Value}}, table : [Slots -> Contents], order : [Slots -> Slots],
               updating : SUBSET (Nat \X Slots)]
  BY <1>0, <1>1, <1>2, <1>3
<1>6. \A i \in Slots : table[i].value = {Value} <=> i = index /\ entry.value = {Value}
  BY <1>2 DEF Writes
<1>7. ShortInv(new)
  BY <1>0, <1>4, <1>5, <1>6 DEF ShortInv
<1> QED BY <1>0, <1>2, <1>4, <1>7 DEF Dirtied

LEMMA ShortOrder ==
  ASSUME NEW t, ShortInv(t), NEW order \in [Slots -> Slots], NEW new,
         new = [values |-> t.values, table |-> t.table, order |-> order,
                updating |-> t.updating]
  PROVE  Dirtied(new, t) /\ new.values = t.values
<1>1. /\ t.values \in {{}, {Value}} /\ t.table \in [Slots -> Contents]
      /\ t.updating \in SUBSET (Nat \X Slots)
  BY ShortParts
<1>2. /\ new.values = t.values /\ new.table = t.table /\ new.order = order
      /\ new.updating = t.updating
  OBVIOUS
<1>3. new \in [values : {{}, {Value}}, table : [Slots -> Contents], order : [Slots -> Slots],
               updating : SUBSET (Nat \X Slots)]
  BY <1>1
<1> QED BY <1>2, <1>3 DEF ShortInv, Dirtied

LEMMA ShortInsert ==
  ASSUME NEW t, ShortInv(t)
  PROVE  Dirtied(Data!InsertValue(t, Value), t) /\ Value \in Data!InsertValue(t, Value).values
<1> DEFINE values == t.values \cup {Value}
           u == [t EXCEPT !.values = values]
<1>1. t = [values |-> t.values, table |-> t.table, order |-> t.order, updating |-> t.updating]
  BY ShortParts
<1>2. /\ t.order \in [Slots -> Slots] /\ t.values \in {{}, {Value}} /\ DOMAIN t.table = Slots
  BY ShortParts
<1>3. values = {Value}
  BY <1>2
<1>4. Data!InsertValue(t, Value) = Data!Promote(u, Value)
  BY <1>1 DEF Data!InsertValue
<1> HIDE DEF values
<1>5. u = [values |-> values, table |-> t.table, order |-> t.order, updating |-> t.updating]
  BY <1>1
<1> HIDE DEF u
<1>6. /\ u.values = values /\ u.table = t.table /\ u.order = t.order /\ u.updating = t.updating
  BY <1>5
<1>7. Data!SlotsOf(u, Value) = Data!SlotsOf(t, Value)
  BY <1>6 DEF Data!SlotsOf
<1>8. CASE Data!SlotsOf(u, Value) # {}
  <2> DEFINE index == Data!GetIndex(u, Value)
             order == Data!PromoteIndex(t.order, index)
             new == [u EXCEPT !.order = order]
  <2>1. Data!Promote(u, Value) = new
    BY <1>3, <1>5, <1>6, <1>8 DEF Data!Promote
  <2>2. index = Data!GetIndex(t, Value)
    BY <1>7 DEF Data!GetIndex
  <2>3. index \in Slots /\ Value \in t.values
    BY <1>7, <1>8, <2>2, SlotOf
  <2>4. t.values = values
    BY <1>2, <1>3, <2>3
  <2>5. order \in [Slots -> Slots]
    BY <1>2, <2>3, OrderType
  <2> HIDE DEF order
  <2>6. new = [values |-> t.values, table |-> t.table, order |-> order,
               updating |-> t.updating]
    BY <1>5, <2>4
  <2> HIDE DEF new
  <2>7. Dirtied(new, t) /\ new.values = t.values
    BY <2>5, <2>6, ShortOrder
  <2> QED BY <1>4, <2>1, <2>3, <2>7
<1>9. CASE Data!SlotsOf(u, Value) = {}
  <2> DEFINE index == t.order[1]
             entry == Data!NewEntry(Value)
             table == WithField(t.table, index, entry)
             order == Data!PromoteIndex(t.order, index)
             v == [u EXCEPT !.table = table]
             new == [v EXCEPT !.order = order]
  <2>1. Data!Promote(u, Value) = Data!Overwrite(u, index, Value)
    BY <1>3, <1>6, <1>9 DEF Data!Promote
  <2>2. Data!Overwrite(u, index, Value) = new
    BY <1>5, <1>6 DEF Data!Overwrite, WithField
  <2>3. index \in Slots
    BY <1>2, SizeNat
  <2>4. entry \in Contents /\ entry.dirty /\ entry.value = {Value}
    BY DEF Data!NewEntry, Contents
  <2>5. order \in [Slots -> Slots]
    BY <1>2, <2>3, OrderType
  <2>6. \A i \in Slots : t.table[i].value # {Value}
    BY <1>7, <1>9, SlotOf
  <2> HIDE DEF order, entry, index, table
  <2>7. v = [values |-> values, table |-> table, order |-> t.order, updating |-> t.updating]
    BY <1>5
  <2> HIDE DEF v
  <2>8. new = [values |-> entry.value, table |-> table, order |-> order,
               updating |-> t.updating]
    BY <1>3, <2>4, <2>7
  <2> HIDE DEF new
  <2>9. Writes(t, index, entry)
    BY <2>3, <2>4, <2>6 DEF Writes
  <2>10. Dirtied(new, t) /\ new.values = entry.value
    BY <2>5, <2>8, <2>9, ShortSlot DEF table
  <2> QED BY <1>4, <2>1, <2>2, <2>4, <2>10
<1> QED BY <1>8, <1>9

LEMMA ShortRemove ==
  ASSUME NEW t, ShortInv(t)
  PROVE  Dirtied(Data!RemoveValue(t, Value), t) /\ Value \notin Data!RemoveValue(t, Value).values
<1> DEFINE values == t.values \ {Value}
           u == [t EXCEPT !.values = values]
<1>1. t = [values |-> t.values, table |-> t.table, order |-> t.order, updating |-> t.updating]
  BY ShortParts
<1>2. /\ t.order \in [Slots -> Slots] /\ t.values \in {{}, {Value}} /\ DOMAIN t.table = Slots
  BY ShortParts
<1>3. values = {}
  BY <1>2
<1>4. Data!RemoveValue(t, Value) =
        IF Value \in t.values /\ Data!SlotsOf(t, Value) # {}
        THEN Data!FreeSlot(u, Data!GetIndex(t, Value)) ELSE u
  BY <1>1 DEF Data!RemoveValue
<1> HIDE DEF values
<1>5. u = [values |-> values, table |-> t.table, order |-> t.order, updating |-> t.updating]
  BY <1>1
<1> HIDE DEF u
<1>6. /\ u.values = values /\ u.table = t.table /\ u.order = t.order /\ u.updating = t.updating
  BY <1>5
<1>7. CASE Value \notin t.values
  <2>1. t.values = values
    BY <1>2, <1>3, <1>7
  <2>2. Dirtied(u, t) /\ u.values = t.values
    BY <1>2, <1>5, <2>1, ShortOrder
  <2> QED BY <1>4, <1>7, <2>2
<1>8. CASE Value \in t.values
  <2> DEFINE index == Data!GetIndex(t, Value)
             entry == Data!Default
             table == WithField(t.table, index, entry)
             order == Data!DemoteIndex(t.order, index)
             v == [u EXCEPT !.table = table]
             new == [v EXCEPT !.order = order]
  <2>1. index \in Slots /\ t.table[index].value = {Value} /\ Data!SlotsOf(t, Value) # {}
    BY <1>8, SlotOf
  <2>2. Data!RemoveValue(t, Value) = Data!FreeSlot(u, index)
    BY <1>4, <1>8, <2>1
  <2>3. Data!FreeSlot(u, index) = new
    BY <1>5, <1>6 DEF Data!FreeSlot, WithField
  <2>4. entry \in Contents /\ entry.dirty /\ entry.value = {}
    BY DEF Data!Default, Contents
  <2>5. order \in [Slots -> Slots]
    BY <1>2, <2>1, OrderType
  <2>6. \A i \in Slots : i # index => t.table[i].value # {Value}
    BY <2>1 DEF ShortInv
  <2> HIDE DEF order, entry, index, table
  <2>7. v = [values |-> values, table |-> table, order |-> t.order, updating |-> t.updating]
    BY <1>5
  <2> HIDE DEF v
  <2>8. new = [values |-> entry.value, table |-> table, order |-> order,
               updating |-> t.updating]
    BY <1>3, <2>4, <2>7
  <2> HIDE DEF new
  <2>9. Writes(t, index, entry)
    BY <2>1, <2>4, <2>6 DEF Writes
  <2>10. Dirtied(new, t) /\ new.values = entry.value
    BY <2>5, <2>8, <2>9, ShortSlot DEF table
  <2> QED BY <2>2, <2>3, <2>4, <2>10
<1> QED BY <1>7, <1>8

\* An address is set in or removed from the tables.
LEMMA TablesSet ==
  ASSUME NEW c, NEW l, NEW slots, TablesInv(c, l, slots), NEW d,
         d = Address \/ d.mode = "Extended", NEW pending \in BOOLEAN
  PROVE  LET new == Data!SetAddress(c, d, pending) IN
         /\ new = [initializing |-> c.initializing, is_initialized |-> c.is_initialized,
                   none |-> c.none, short |-> new.short, extended |-> new.extended]
         /\ Dirtied(new.short, c.short)
         /\ d # Address => new.short.values = c.short.values
         /\ d = Address => (Value \in new.short.values <=> pending)
<1> DEFINE new == Data!SetAddress(c, d, pending)
<1>1. /\ c = [initializing |-> c.initializing, is_initialized |-> c.is_initialized,
              none |-> c.none, short |-> c.short, extended |-> c.extended]
  BY DEF TablesInv, IsTables
<1>2. ShortInv(c.short)
  BY DEF TablesInv, IsTables
<1>3. CASE d = Address
  <2> DEFINE t == c.short
             short == Data!SetValue(t, Value, pending)
  <2>1. d.mode = "Short" /\ <<d.pan_id, d.address>> = Value
    BY <1>3 DEF Address, Data!Short, Value
  <2>2. new = [c EXCEPT !.short = short]
    BY <1>1, <2>1 DEF Data!SetAddress
  <2>3. Dirtied(short, t) /\ (Value \in short.values <=> pending)
    BY <1>2, ShortInsert, ShortRemove DEF Data!SetValue
  <2> HIDE DEF short, t
  <2>4. [c EXCEPT !.short = short] =
          [initializing |-> c.initializing, is_initialized |-> c.is_initialized,
           none |-> c.none, short |-> short, extended |-> c.extended]
    BY <1>1
  <2> HIDE DEF new
  <2>5. new.short = short /\ new.extended = c.extended
        /\ new = [initializing |-> c.initializing, is_initialized |-> c.is_initialized,
                  none |-> c.none, short |-> new.short, extended |-> new.extended]
    BY <2>2, <2>4
  <2> QED BY <1>3, <2>3, <2>5 DEF new, t
<1>4. CASE d # Address
  <2> DEFINE extended == Data!SetValue(c.extended, d.address, pending)
  <2>1. new = [c EXCEPT !.extended = extended]
    BY <1>1, <1>4 DEF Data!SetAddress
  <2> HIDE DEF extended
  <2>2. [c EXCEPT !.extended = extended] =
          [initializing |-> c.initializing, is_initialized |-> c.is_initialized,
           none |-> c.none, short |-> c.short, extended |-> extended]
    BY <1>1
  <2> HIDE DEF new
  <2>3. new.short = c.short /\ new.extended = extended
        /\ new = [initializing |-> c.initializing, is_initialized |-> c.is_initialized,
                  none |-> c.none, short |-> new.short, extended |-> new.extended]
    BY <2>1, <2>2
  <2>4. Dirtied(c.short, c.short)
    BY <1>2 DEF Dirtied
  <2> QED BY <1>4, <2>3, <2>4 DEF new
<1> QED BY <1>3, <1>4

\* An update is started: the slot is clean, and being updated.
LEMMA ShortStart ==
  ASSUME NEW t, ShortInv(t), Data!HasUpdate(t), NEW key \in Nat, NEW new,
         new = Data!StartUpdate(t, key)
  PROVE  LET index == Data!FirstDirty(t) IN
         /\ ShortInv(new) /\ new.values = t.values /\ index \in Slots
         /\ new.updating = {<<key, index>>}
         /\ new.table[index].value = t.table[index].value
         /\ \A i \in Slots : i # index => new.table[i] = t.table[i]
<1> DEFINE index == Data!FirstDirty(t)
           entry == [t.table[index] EXCEPT !.dirty = FALSE]
           table == WithField(t.table, index, entry)
           u == [t EXCEPT !.table = table]
           updating == {<<key, index>>}
<1>1. DOMAIN t.table = Slots /\ t.table \in [Slots -> Contents]
  BY ShortParts
<1>2. index \in Slots
  <2>1. Data!DirtySlots(t) \subseteq Slots /\ Data!DirtySlots(t) \in SUBSET Nat
        /\ Data!DirtySlots(t) # {}
    BY <1>1, SizeNat DEF Data!DirtySlots, Data!HasUpdate
  <2>2. \E i \in Data!DirtySlots(t) : \A j \in Data!DirtySlots(t) : i <= j
    BY <2>1, LeastElementExists
  <2>3. Data!FirstDirty(t) \in Data!DirtySlots(t)
    BY <2>2 DEF Data!FirstDirty
  <2> QED BY <2>1, <2>3
<1>3. t = [values |-> t.values, table |-> t.table, order |-> t.order, updating |-> t.updating]
  BY ShortParts
<1>4. new = [u EXCEPT !.updating = updating]
  BY <1>3 DEF Data!StartUpdate, WithField
<1> HIDE DEF index
<1>5. t.table[index] \in Contents
  BY <1>1, <1>2
<1>6. entry \in Contents /\ entry.value = t.table[index].value
  BY <1>5 DEF Contents
<1> HIDE DEF entry
<1>7. /\ table \in [Slots -> Contents] /\ table[index] = entry
      /\ \A i \in Slots : i # index => table[i] = t.table[i]
  BY <1>1, <1>2, <1>6 DEF WithField
<1>8. updating \in SUBSET (Nat \X Slots)
  BY <1>2
<1> HIDE DEF table, updating
<1>9. u = [values |-> t.values, table |-> table, order |-> t.order, updating |-> t.updating]
  BY <1>3
<1> HIDE DEF u
<1>10. new = [values |-> t.values, table |-> table, order |-> t.order, updating |-> updating]
  BY <1>4, <1>9
<1>11. \A i \in Slots : table[i].value = t.table[i].value
  BY <1>6, <1>7
<1>12. ShortInv(new)
  BY <1>7, <1>8, <1>10, <1>11, ShortRetabled
<1>13. new.values = t.values /\ new.table = table /\ new.updating = updating
  BY <1>10
<1> QED BY <1>2, <1>6, <1>7, <1>12, <1>13 DEF index, updating

LEMMA ShortEmpty ==
  ASSUME NEW t, ShortInv(t), NEW new, new = Data!AssumeEmpty(t)
  PROVE  /\ ShortInv(new) /\ new.values = t.values /\ new.updating = t.updating
         /\ \A i \in Slots : new.table[i].dirty \/ new.table[i].value = {}
<1> DEFINE entry(i) == [dirty |-> t.table[i].value # {}, value |-> t.table[i].value]
           table == [i \in Slots |-> entry(i)]
<1>1. DOMAIN t.table = Slots /\ t.updating \in SUBSET (Nat \X Slots)
      /\ \A i \in Slots : t.table[i].value \in {{}, {Value}}
  BY ShortParts
<1>2. t = [values |-> t.values, table |-> t.table, order |-> t.order, updating |-> t.updating]
  BY ShortParts
<1>3. new = [t EXCEPT !.table = table]
  BY <1>1, <1>2 DEF Data!AssumeEmpty
<1>4. ASSUME NEW i \in Slots
      PROVE  /\ entry(i) \in Contents /\ entry(i).value = t.table[i].value
             /\ entry(i).dirty \/ entry(i).value = {}
  <2> DEFINE dirty == t.table[i].value # {}
             e == [dirty |-> dirty, value |-> t.table[i].value]
  <2>1. dirty \in BOOLEAN /\ (dirty \/ t.table[i].value = {})
    OBVIOUS
  <2>2. entry(i) = e
    OBVIOUS
  <2> HIDE DEF dirty
  <2>3. e \in Contents /\ e.value = t.table[i].value /\ e.dirty = dirty
    BY <1>1, <2>1 DEF Contents
  <2> QED BY <2>1, <2>2, <2>3
<1>5. \A i \in Slots : table[i] = entry(i)
  OBVIOUS
<1>6. table = [i \in Slots |-> table[i]]
  OBVIOUS
<1> HIDE DEF table, entry
<1>7. /\ table \in [Slots -> Contents]
      /\ \A i \in Slots : /\ table[i].value = t.table[i].value
                          /\ table[i].dirty \/ table[i].value = {}
  BY <1>4, <1>5, <1>6
<1>8. new = [values |-> t.values, table |-> table, order |-> t.order, updating |-> t.updating]
  BY <1>2, <1>3
<1>9. ShortInv(new)
  BY <1>1, <1>7, <1>8, ShortRetabled
<1>10. new.values = t.values /\ new.table = table /\ new.updating = t.updating
  BY <1>8
<1> QED BY <1>7, <1>9, <1>10

\* The result of an update of this table, and one that is not its own.
LEMMA ShortForeign ==
  ASSUME NEW t, NEW key, NEW ok, \A i \in DOMAIN t.table : <<key, i>> \notin t.updating
  PROVE  Data!ReportUpdateResult(t, key, ok) = t
  BY DEF Data!ReportUpdateResult

BeingUpdated(t, key, index) == index \in Slots /\ t.updating = {<<key, index>>}
Resulted(new, t, index, ok) ==
  /\ ShortInv(new) /\ new.values = t.values /\ new.updating = {}
  /\ \A i \in Slots : i # index => new.table[i] = t.table[i]
  /\ new.table[index].value = t.table[index].value
  /\ ~new.table[index].dirty => ok /\ ~t.table[index].dirty

LEMMA ShortResult ==
  ASSUME NEW t, ShortInv(t), NEW key, NEW index, BeingUpdated(t, key, index),
         NEW ok \in BOOLEAN
  PROVE  Resulted(Data!ReportUpdateResult(t, key, ok), t, index, ok)
<1> DEFINE entry(i) == [t.table[i] EXCEPT !.dirty = TRUE]
           table == [i \in Slots |-> IF <<key, i>> \in t.updating /\ ~ok
                                     THEN entry(i) ELSE t.table[i]]
           u == [t EXCEPT !.updating = {}]
           new == Data!ReportUpdateResult(t, key, ok)
<1>0. index \in Slots /\ t.updating = {<<key, index>>}
  BY DEF BeingUpdated
<1>1. /\ DOMAIN t.table = Slots /\ t.table \in [Slots -> Contents]
      /\ \A i \in Slots : t.table[i] \in Contents
  BY ShortParts
<1>2. t = [values |-> t.values, table |-> t.table, order |-> t.order, updating |-> t.updating]
  BY ShortParts
<1>3. \A i \in Slots : <<key, i>> \in t.updating <=> i = index
  BY <1>0
<1>4. new = [u EXCEPT !.table = table]
  BY <1>0, <1>1, <1>2, <1>3 DEF Data!ReportUpdateResult
<1>5. \A i \in Slots : entry(i) \in Contents /\ entry(i).value = t.table[i].value /\ entry(i).dirty
  BY <1>1 DEF Contents
<1> HIDE DEF entry, new
<1>6. \A i \in Slots : table[i] = IF i = index /\ ~ok THEN entry(i) ELSE t.table[i]
  BY <1>3
<1>7. table = [i \in Slots |-> table[i]]
  OBVIOUS
<1> HIDE DEF table
<1>8. /\ table \in [Slots -> Contents]
      /\ \A i \in Slots : table[i].value = t.table[i].value
      /\ \A i \in Slots : i # index => table[i] = t.table[i]
      /\ ~table[index].dirty => ok /\ ~t.table[index].dirty
  BY <1>0, <1>1, <1>5, <1>6, <1>7
<1>9. u = [values |-> t.values, table |-> t.table, order |-> t.order, updating |-> {}]
  BY <1>2
<1> HIDE DEF u
<1>10. new = [values |-> t.values, table |-> table, order |-> t.order, updating |-> {}]
  BY <1>4, <1>9
<1>11. {} \in SUBSET (Nat \X Slots)
  OBVIOUS
<1>12. ShortInv(new)
  BY <1>8, <1>10, <1>11, ShortRetabled
<1>13. new.values = t.values /\ new.table = table /\ new.updating = {}
  BY <1>10
<1>14. Resulted(new, t, index, ok)
  BY <1>0, <1>8, <1>12, <1>13 DEF Resulted
<1> QED BY <1>14 DEF new

-----------------------------------------------------------------------------
(* The tables, the link and the radio's slots.                              *)
\* Nothing that is looked at has changed.
LEMMA TablesAlike ==
  ASSUME NEW c, NEW l, NEW slots, TablesInv(c, l, slots), NEW new, IsTables(new),
         new.initializing = c.initializing, new.is_initialized = c.is_initialized,
         new.short = c.short
  PROVE  TablesInv(new, l, slots)
  BY DEF TablesInv, Running

LEMMA TablesAppended ==
  ASSUME NEW c, NEW l, NEW slots, TablesInv(c, l, slots), NEW new, NEW m,
         Appended(new, l, m), m.type # "Init", ~IsShortUpdate(m)
  PROVE  TablesInv(c, new, slots)
<1>1. /\ new[Len(l) + 1] = m /\ \A i \in 1 .. Len(l) : new[i] = l[i]
      /\ \A i \in 1 .. Len(new) : i \in 1 .. Len(l) \/ i = Len(l) + 1
      /\ \A i \in 1 .. Len(l) : i \in 1 .. Len(new)
      /\ Len(l) \in Nat /\ Len(new) = Len(l) + 1
  BY AppendedPlaces DEF Appended
<1>2. ASSUME Clears(l, c.initializing) PROVE Clears(new, c.initializing)
  <2>1. PICK i \in 1 .. Len(l) :
          /\ l[i].type = "Init" /\ c.initializing = {l[i].key}
          /\ \A j \in i + 1 .. Len(l) : ~IsShortUpdate(l[j]) /\ l[j].type # "Init"
    BY <1>2 DEF Clears
  <2>2. i \in Nat /\ Len(l) \in Nat /\ Len(new) = Len(l) + 1 /\ 1 <= i
    BY <1>1
  <2>3. \A j \in i + 1 .. Len(new) : (j \in i + 1 .. Len(l) /\ j \in 1 .. Len(l)) \/ j = Len(l) + 1
    BY <2>2
  <2>4. \A j \in i + 1 .. Len(new) : ~IsShortUpdate(new[j]) /\ new[j].type # "Init"
    BY <1>1, <2>1, <2>3
  <2>5. i \in 1 .. Len(new) /\ new[i] = l[i]
    BY <1>1
  <2> QED BY <2>1, <2>4, <2>5 DEF Clears
<1>3. ASSUME Running(c, l, slots) PROVE Running(c, new, slots)
  <2>1. \A i \in 1 .. Len(new) : new[i].type # "Init"
    BY <1>1, <1>3 DEF Running
  <2>2. NoShortUpdate(l) => NoShortUpdate(new)
    BY <1>1 DEF NoShortUpdate
  <2>3. ASSUME Updates(c.short, l) PROVE Updates(c.short, new)
    <3>1. PICK i \in 1 .. Len(l) :
            /\ IsShortUpdate(l[i])
            /\ c.short.updating = {<<l[i].key, l[i].content.index>>}
            /\ ~c.short.table[l[i].content.index].dirty =>
                 l[i].content.value = c.short.table[l[i].content.index].value
            /\ \A j \in 1 .. Len(l) : j # i => ~IsShortUpdate(l[j])
      BY <2>3 DEF Updates
    <3>2. \A j \in 1 .. Len(new) : j # i => ~IsShortUpdate(new[j])
      BY <1>1, <3>1
    <3>3. i \in 1 .. Len(new) /\ new[i] = l[i]
      BY <1>1
    <3> QED BY <3>1, <3>2, <3>3 DEF Updates
  <2> QED BY <1>3, <2>1, <2>2, <2>3 DEF Running
<1> QED BY <1>2, <1>3 DEF TablesInv

LEMMA TablesShortened ==
  ASSUME NEW c, NEW l, NEW slots, TablesInv(c, l, slots), NEW new, Shortened(new, l),
         c.is_initialized => ~IsShortUpdate(l[1]),
         l[1].type = "Init" => c.initializing # {l[1].key},
         NEW slots2, c.is_initialized => slots2 = slots
  PROVE  TablesInv(c, new, slots2)
<1>1. /\ \A i \in 1 .. Len(new) : i + 1 \in 1 .. Len(l) /\ new[i] = l[i + 1]
      /\ \A i \in 1 .. Len(l) : i # 1 => i - 1 \in 1 .. Len(new) /\ new[i - 1] = l[i]
      /\ Len(l) \in Nat /\ Len(new) = Len(l) - 1
  BY ShortenedPlaces DEF Shortened
<1>2. ASSUME Clears(l, c.initializing) PROVE Clears(new, c.initializing)
  <2>1. PICK i \in 1 .. Len(l) :
          /\ l[i].type = "Init" /\ c.initializing = {l[i].key}
          /\ \A j \in i + 1 .. Len(l) : ~IsShortUpdate(l[j]) /\ l[j].type # "Init"
    BY <1>2 DEF Clears
  <2> DEFINE n == i - 1
  <2>2. i # 1 /\ i \in Nat /\ Len(l) \in Nat /\ Len(new) = Len(l) - 1
    BY <1>1, <2>1
  <2>3. n \in 1 .. Len(new) /\ new[n] = l[i]
    BY <1>1, <2>2
  <2>4. \A j \in n + 1 .. Len(new) : j \in 1 .. Len(new) /\ j + 1 \in i + 1 .. Len(l)
    BY <2>2
  <2> HIDE DEF n
  <2>5. ASSUME NEW j \in n + 1 .. Len(new)
        PROVE  ~IsShortUpdate(new[j]) /\ new[j].type # "Init"
    <3>1. new[j] = l[j + 1]
      BY <1>1, <2>4
    <3> QED BY <2>1, <2>4, <3>1
  <2> QED BY <2>1, <2>3, <2>5 DEF Clears
<1>3. ASSUME Running(c, l, slots) PROVE Running(c, new, slots)
  <2>1. \A i \in 1 .. Len(new) : new[i].type # "Init"
    BY <1>1, <1>3 DEF Running
  <2>2. NoShortUpdate(l) => NoShortUpdate(new)
    BY <1>1 DEF NoShortUpdate
  <2>3. ASSUME Updates(c.short, l) PROVE Updates(c.short, new)
    <3>1. PICK i \in 1 .. Len(l) :
            /\ IsShortUpdate(l[i])
            /\ c.short.updating = {<<l[i].key, l[i].content.index>>}
            /\ ~c.short.table[l[i].content.index].dirty =>
                 l[i].content.value = c.short.table[l[i].content.index].value
            /\ \A j \in 1 .. Len(l) : j # i => ~IsShortUpdate(l[j])
      BY <2>3 DEF Updates
    <3> DEFINE n == i - 1
    <3>2. i # 1
      BY <1>3, <3>1 DEF Running
    <3>3. n \in 1 .. Len(new) /\ new[n] = l[i]
      BY <1>1, <3>2
    <3>4. \A j \in 1 .. Len(new) : j # n => j + 1 # i
      OBVIOUS
    <3>5. \A j \in 1 .. Len(new) : j # n => ~IsShortUpdate(new[j])
      BY <1>1, <3>1, <3>4
    <3> HIDE DEF n
    <3> QED BY <3>1, <3>3, <3>5 DEF Updates
  <2> QED BY <1>3, <2>1, <2>2, <2>3 DEF Running
<1>4. CASE c.is_initialized
  BY <1>3, <1>4 DEF TablesInv
<1>5. CASE ~c.is_initialized
  BY <1>2, <1>5 DEF TablesInv, Running
<1> QED BY <1>4, <1>5

\* Slots that are written are dirty.
LEMMA TablesDirtied ==
  ASSUME NEW c, NEW l, NEW slots, TablesInv(c, l, slots), NEW new, IsTables(new),
         new.initializing = c.initializing, new.is_initialized = c.is_initialized,
         Dirtied(new.short, c.short)
  PROVE  TablesInv(new, l, slots)
<1>1. /\ new.short.updating = c.short.updating
      /\ \A i \in Slots : new.short.table[i] = c.short.table[i] \/ new.short.table[i].dirty
  BY DEF Dirtied
<1>2. ASSUME Updates(c.short, l) PROVE Updates(new.short, l)
  <2>1. PICK i \in 1 .. Len(l) :
          /\ IsShortUpdate(l[i])
          /\ c.short.updating = {<<l[i].key, l[i].content.index>>}
          /\ ~c.short.table[l[i].content.index].dirty =>
               l[i].content.value = c.short.table[l[i].content.index].value
          /\ \A j \in 1 .. Len(l) : j # i => ~IsShortUpdate(l[j])
    BY <1>2 DEF Updates
  <2>2. c.short.updating \in SUBSET (Nat \X Slots)
    BY ShortParts DEF TablesInv, IsTables
  <2>3. l[i].content.index \in Slots
    BY <2>1, <2>2
  <2>4. ~new.short.table[l[i].content.index].dirty =>
          l[i].content.value = new.short.table[l[i].content.index].value
    BY <1>1, <2>1, <2>3
  <2> QED BY <1>1, <2>1, <2>4 DEF Updates
<1>3. Synced(c.short, slots) => Synced(new.short, slots)
  BY <1>1 DEF Synced
<1>4. Running(c, l, slots) => Running(new, l, slots)
  BY <1>1, <1>2, <1>3 DEF Running
<1> QED BY <1>1, <1>4 DEF TablesInv

LEMMA TablesInits ==
  ASSUME NEW c, NEW l, NEW slots, TablesInv(c, l, slots), ~c.is_initialized,
         c.initializing = {}, NEW new, NEW m, Appended(new, l, m), m.type = "Init",
         NEW c2, IsTables(c2), c2.initializing = {m.key}, ~c2.is_initialized,
         c2.short = c.short
  PROVE  TablesInv(c2, new, slots)
<1>1. c.short.updating = {}
  BY DEF TablesInv, Running
<1> DEFINE n == Len(l) + 1
<1>2. /\ new[n] = m /\ n \in 1 .. Len(new) /\ Len(new) = n /\ n \in Nat
  BY AppendedPlaces DEF Appended
<1>3. n + 1 .. Len(new) = {}
  BY <1>2
<1> HIDE DEF n
<1>4. Clears(new, c2.initializing)
  BY <1>2, <1>3 DEF Clears
<1> QED BY <1>1, <1>4 DEF TablesInv

LEMMA TablesStarts ==
  ASSUME NEW c, NEW l, NEW slots, TablesInv(c, l, slots), c.is_initialized,
         Data!HasUpdate(c.short), NEW new, NEW m, Appended(new, l, m), m.type # "Init",
         IsShortUpdate(m), m.key \in Nat, m.content.index = Data!FirstDirty(c.short),
         m.content.value = c.short.table[Data!FirstDirty(c.short)].value,
         NEW c2, IsTables(c2), c2.initializing = c.initializing, c2.is_initialized,
         c2.short = Data!StartUpdate(c.short, m.key)
  PROVE  TablesInv(c2, new, slots) /\ c2.short.values = c.short.values
<1> DEFINE t == c.short
           t2 == c2.short
           index == Data!FirstDirty(t)
           n == Len(l) + 1
<1>1. ShortInv(t) /\ Running(c, l, slots) /\ t.updating = {} /\ NoShortUpdate(l)
  BY DEF TablesInv, IsTables, Running, Updates, Data!HasUpdate
<1>2. /\ ShortInv(t2) /\ t2.values = t.values /\ index \in Slots
      /\ t2.updating = {<<m.key, index>>} /\ t2.table[index].value = t.table[index].value
      /\ \A i \in Slots : i # index => t2.table[i] = t.table[i]
  BY <1>1, ShortStart
<1>3. /\ new[n] = m /\ \A i \in 1 .. Len(l) : new[i] = l[i]
      /\ \A i \in 1 .. Len(new) : i \in 1 .. Len(l) \/ i = n
      /\ n \in 1 .. Len(new)
  BY AppendedPlaces DEF Appended
<1> HIDE DEF n
<1>4. \A i \in 1 .. Len(new) : i # n => ~IsShortUpdate(new[i])
  BY <1>1, <1>3 DEF NoShortUpdate
<1>5. m.content.index = index /\ m.content.value = t.table[index].value
  OBVIOUS
<1>6. \A i \in 1 .. Len(new) : new[i].type # "Init"
  BY <1>1, <1>3 DEF Running
<1>7. \A i \in Slots : (\A u \in t2.updating : u[2] # i) => i # index
  BY <1>2
<1>8. Synced(t, slots)
  BY <1>1 DEF Running
<1> HIDE DEF t, index
<1> HIDE DEF t2
<1>9. Synced(t2, slots)
  <2>1. SUFFICES ASSUME NEW i \in Slots, ~t2.table[i].dirty, \A u \in t2.updating : u[2] # i
                 PROVE  slots[i] = t2.table[i].value
    BY DEF Synced
  <2>2. t2.table[i] = t.table[i]
    BY <1>2, <1>7, <2>1
  <2> QED BY <1>1, <1>8, <2>1, <2>2 DEF Synced
<1>10. Updates(t2, new)
  BY <1>2, <1>3, <1>4, <1>5 DEF Updates
<1>11. Running(c2, new, slots)
  BY <1>1, <1>6, <1>9, <1>10 DEF Running, t2
<1> QED BY <1>2, <1>11 DEF TablesInv, t, t2

LEMMA FirstKey ==
  ASSUME NEW l, NEW next, LinkInv(l, next), NEW new, Shortened(new, l)
  PROVE  1 \in 1 .. Len(l) /\ \A i \in 1 .. Len(l) : i # 1 => l[i].key # l[1].key
<1>1. 1 \in 1 .. Len(l) /\ Len(l) \in Nat
  BY ShortenedPlaces DEF Shortened
<1>2. \A i \in 1 .. Len(l) : i # 1 => 1 < i
  BY <1>1
<1>3. \A i \in 1 .. Len(l) : l[i].key \in Nat
  BY DEF LinkInv
<1>4. \A i, j \in 1 .. Len(l) : i < j => l[i].key < l[j].key
  BY DEF LinkInv
<1>5. \A i \in 1 .. Len(l) : i # 1 => l[1].key < l[i].key
  BY <1>1, <1>2, <1>4
<1> QED BY <1>1, <1>3, <1>5

LEMMA TablesCleared ==
  ASSUME NEW c, NEW l, NEW slots, TablesInv(c, l, slots), NEW next, LinkInv(l, next),
         NEW new, Shortened(new, l), l[1].type = "Init", c.initializing = {l[1].key},
         NEW ok \in BOOLEAN, NEW c2, IsTables(c2), c2.initializing = {},
         c2.is_initialized = ok, ok => c2.short = Data!AssumeEmpty(c.short),
         ~ok => c2.short = c.short,
         NEW slots2, ok => \A i \in Slots : slots2[i] = {}
  PROVE  TablesInv(c2, new, slots2) /\ c2.short.values = c.short.values
<1>1. ~c.is_initialized /\ c.short.updating = {} /\ Clears(l, c.initializing)
      /\ ShortInv(c.short)
  BY DEF TablesInv, Running, IsTables
<1>2. CASE ~ok
  BY <1>1, <1>2 DEF TablesInv
<1>3. CASE ok
  <2>1. /\ ShortInv(c2.short) /\ c2.short.values = c.short.values /\ c2.short.updating = {}
        /\ \A i \in Slots : c2.short.table[i].dirty \/ c2.short.table[i].value = {}
    BY <1>1, <1>3, ShortEmpty
  <2>2. PICK i \in 1 .. Len(l) :
          /\ l[i].type = "Init" /\ c.initializing = {l[i].key}
          /\ \A j \in i + 1 .. Len(l) : ~IsShortUpdate(l[j]) /\ l[j].type # "Init"
    BY <1>1 DEF Clears
  <2>3. i = 1
    BY <2>2, FirstKey
  <2>4. /\ \A j \in 1 .. Len(new) : new[j] = l[j + 1]
        /\ Len(l) \in Nat /\ Len(new) = Len(l) - 1
    BY DEF Shortened
  <2>5. \A j \in 1 .. Len(new) : j + 1 \in 1 + 1 .. Len(l)
    BY <2>4
  <2>6. \A j \in 1 .. Len(new) : ~IsShortUpdate(new[j]) /\ new[j].type # "Init"
    BY <2>2, <2>3, <2>4, <2>5
  <2>7. Synced(c2.short, slots2)
    BY <1>3, <2>1 DEF Synced
  <2>8. Running(c2, new, slots2)
    BY <1>3, <2>1, <2>6, <2>7 DEF Running, NoShortUpdate
  <2> QED BY <2>1, <2>8 DEF TablesInv
<1> QED BY <1>2, <1>3

\* The tables and the slots once the update m is answered.
Written(c2, slots2, c, m, slots, ok) ==
  /\ IsTables(c2) /\ c2.initializing = c.initializing
  /\ c2.is_initialized = c.is_initialized
  /\ c2.short = Data!ReportUpdateResult(c.short, m.key, ok)
  /\ m.content.index \in Slots /\ ok => slots2[m.content.index] = m.content.value
  /\ \A i \in Slots : i # m.content.index => slots2[i] = slots[i]

LEMMA TablesUpdated ==
  ASSUME NEW c, NEW l, NEW slots, TablesInv(c, l, slots), NEW next, LinkInv(l, next),
         NEW new, Shortened(new, l), c.is_initialized, IsShortUpdate(l[1]),
         NEW ok \in BOOLEAN, NEW c2, NEW slots2, Written(c2, slots2, c, l[1], slots, ok)
  PROVE  TablesInv(c2, new, slots2) /\ c2.short.values = c.short.values
<1>0. /\ IsTables(c2) /\ c2.initializing = c.initializing
      /\ c2.is_initialized = c.is_initialized
      /\ c2.short = Data!ReportUpdateResult(c.short, l[1].key, ok)
      /\ l[1].content.index \in Slots /\ ok => slots2[l[1].content.index] = l[1].content.value
      /\ \A i \in Slots : i # l[1].content.index => slots2[i] = slots[i]
  BY DEF Written
<1> USE <1>0
<1> DEFINE t == c.short
           t2 == c2.short
           index == l[1].content.index
           key == l[1].key
<1>1. 1 \in 1 .. Len(l)
  BY FirstKey
<1>2. Running(c, l, slots) /\ ShortInv(t)
  BY DEF TablesInv, IsTables
<1>3. Updates(t, l) /\ Synced(t, slots) /\ \A i \in 1 .. Len(l) : l[i].type # "Init"
  BY <1>1, <1>2 DEF Running, NoShortUpdate
<1>4. PICK i \in 1 .. Len(l) :
        /\ IsShortUpdate(l[i])
        /\ t.updating = {<<l[i].key, l[i].content.index>>}
        /\ ~t.table[l[i].content.index].dirty =>
             l[i].content.value = t.table[l[i].content.index].value
        /\ \A j \in 1 .. Len(l) : j # i => ~IsShortUpdate(l[j])
  BY <1>3 DEF Updates
<1>5. i = 1
  BY <1>1, <1>4
<1>6. /\ t.updating = {<<key, index>>}
      /\ ~t.table[index].dirty => l[1].content.value = t.table[index].value
      /\ \A j \in 1 .. Len(l) : j # 1 => ~IsShortUpdate(l[j])
  BY <1>4, <1>5
<1>t. t2 = Data!ReportUpdateResult(t, key, ok)
  OBVIOUS
<1> HIDE DEF t, t2, index, key
<1>7. index \in Slots
  <2>1. t.updating \in SUBSET (Nat \X Slots)
    BY <1>2, ShortParts
  <2>2. <<key, index>> \in Nat \X Slots
    BY <1>6, <2>1
  <2> QED BY <2>2
<1>8. /\ ShortInv(t2) /\ t2.values = t.values /\ t2.updating = {}
      /\ \A j \in Slots : j # index => t2.table[j] = t.table[j]
      /\ t2.table[index].value = t.table[index].value
      /\ ~t2.table[index].dirty => ok /\ ~t.table[index].dirty
  <2>1. BeingUpdated(t, key, index)
    BY <1>6, <1>7 DEF BeingUpdated
  <2>2. Resulted(t2, t, index, ok)
    BY <1>t, <1>2, <2>1, ShortResult
  <2> QED BY <2>2 DEF Resulted
<1>9. \A j \in 1 .. Len(new) : j + 1 \in 1 .. Len(l) /\ j + 1 # 1 /\ new[j] = l[j + 1]
  BY ShortenedPlaces DEF Shortened
<1>10. \A j \in 1 .. Len(new) : new[j].type # "Init" /\ ~IsShortUpdate(new[j])
  BY <1>3, <1>6, <1>9
<1>11. \A u \in t.updating : u[2] = index
  BY <1>6
<1>12. /\ ok => slots2[index] = l[1].content.value
       /\ \A j \in Slots : j # index => slots2[j] = slots[j]
  BY <1>7 DEF index
<1>13. ASSUME NEW j \in Slots, ~t2.table[j].dirty
       PROVE  slots2[j] = t2.table[j].value
  <2>1. CASE j = index
    BY <1>6, <1>8, <1>12, <1>13, <2>1
  <2>2. CASE j # index
    <3>1. ~t.table[j].dirty /\ \A u \in t.updating : u[2] # j
      BY <1>8, <1>11, <1>13, <2>2
    <3>2. slots[j] = t.table[j].value
      BY <1>3, <3>1 DEF Synced
    <3> QED BY <1>8, <1>12, <2>2, <3>2
  <2> QED BY <2>1, <2>2
<1>14. Synced(t2, slots2)
  BY <1>13 DEF Synced
<1>15. Running(c2, new, slots2)
  BY <1>2, <1>8, <1>10, <1>14 DEF Running, NoShortUpdate, t2
<1> QED BY <1>8, <1>15 DEF TablesInv, t, t2

\* What reports of results leave of the tables.
LEMMA InitResult ==
  ASSUME NEW c, IsTables(c), NEW key, NEW ok \in BOOLEAN, c.initializing = {key}, NEW new,
         new = Data!ReportInitResult(c, key, ok)
  PROVE  /\ IsTables(new) /\ new.initializing = {} /\ new.is_initialized = ok
         /\ ok => new.short = Data!AssumeEmpty(c.short)
         /\ ~ok => new.short = c.short
<1> DEFINE short == IF ok THEN Data!AssumeEmpty(c.short) ELSE c.short
           extended == IF ok THEN Data!AssumeEmpty(c.extended) ELSE c.extended
           u == [c EXCEPT !.initializing = {}]
           v == [u EXCEPT !.is_initialized = ok]
           w == [v EXCEPT !.short = short]
<1>1. c = [initializing |-> c.initializing, is_initialized |-> c.is_initialized,
           none |-> c.none, short |-> c.short, extended |-> c.extended]
  BY DEF IsTables
<1>2. new = [w EXCEPT !.extended = extended]
  BY <1>1 DEF Data!ReportInitResult
<1>3. ShortInv(short)
  BY ShortEmpty DEF IsTables
<1>4. (ok => short = Data!AssumeEmpty(c.short)) /\ (~ok => short = c.short)
  OBVIOUS
<1> HIDE DEF short, extended
<1>5. u = [initializing |-> {}, is_initialized |-> c.is_initialized,
           none |-> c.none, short |-> c.short, extended |-> c.extended]
  BY <1>1
<1> HIDE DEF u
<1>6. v = [initializing |-> {}, is_initialized |-> ok,
           none |-> c.none, short |-> c.short, extended |-> c.extended]
  BY <1>5
<1> HIDE DEF v
<1>7. w = [initializing |-> {}, is_initialized |-> ok,
           none |-> c.none, short |-> short, extended |-> c.extended]
  BY <1>6
<1> HIDE DEF w
<1>8. new = [initializing |-> {}, is_initialized |-> ok,
             none |-> c.none, short |-> short, extended |-> extended]
  BY <1>2, <1>7
<1>9. /\ new.initializing = {} /\ new.is_initialized = ok /\ new.short = short
      /\ new.none = c.none /\ new.extended = extended
  BY <1>8
<1>10. IsTables(new)
  BY <1>3, <1>8, <1>9 DEF IsTables
<1> QED BY <1>4, <1>9, <1>10

LEMMA TablesResult ==
  ASSUME NEW c, IsTables(c), NEW key, NEW ok \in BOOLEAN, NEW new,
         new = Data!ReportTablesResult(c, key, ok),
         ShortInv(Data!ReportUpdateResult(c.short, key, ok))
  PROVE  /\ IsTables(new) /\ new.initializing = c.initializing
         /\ new.is_initialized = c.is_initialized
         /\ new.short = Data!ReportUpdateResult(c.short, key, ok)
<1> DEFINE short == Data!ReportUpdateResult(c.short, key, ok)
           extended == Data!ReportUpdateResult(c.extended, key, ok)
           u == [c EXCEPT !.short = short]
<1>1. c = [initializing |-> c.initializing, is_initialized |-> c.is_initialized,
           none |-> c.none, short |-> c.short, extended |-> c.extended]
  BY DEF IsTables
<1>2. new = [u EXCEPT !.extended = extended]
  BY <1>1 DEF Data!ReportTablesResult
<1>3. ShortInv(short)
  OBVIOUS
<1> HIDE DEF short, extended
<1>4. u = [initializing |-> c.initializing, is_initialized |-> c.is_initialized,
           none |-> c.none, short |-> short, extended |-> c.extended]
  BY <1>1
<1> HIDE DEF u
<1>5. new = [initializing |-> c.initializing, is_initialized |-> c.is_initialized,
             none |-> c.none, short |-> short, extended |-> extended]
  BY <1>2, <1>4
<1>6. /\ new.initializing = c.initializing /\ new.is_initialized = c.is_initialized
      /\ new.short = short /\ new.none = c.none /\ new.extended = extended
  BY <1>5
<1>7. IsTables(new)
  BY <1>3, <1>5, <1>6 DEF IsTables
<1> QED BY <1>6, <1>7 DEF short

\* The radio's answer, with the slots the radio has made of the message.
LEMMA TablesAnswer ==
  ASSUME DataInv, RadioInv(radio), TablesInv(tables, link, radio.short), Answers
  PROVE  /\ TablesInv(tables', link', radio'.short)
         /\ tables'.short.values = tables.short.values
<1>1. PICK ok, done \in BOOLEAN : Answered(ok, done)
  BY AnswersShape
<1> DEFINE content == link[1].content
           key == link[1].key
<1>2. /\ Shortened(link', link) /\ MessageInv(link[1]) /\ (ok => done)
      /\ radio' = IF done THEN Execute(content) ELSE radio
      /\ LinkInv(link, next_key) /\ IsTables(tables) /\ ShortInv(tables.short)
  BY <1>1 DEF Answered, DataInv, TablesInv, IsTables
<1>3. 1 \in 1 .. Len(link) /\ \A i \in 1 .. Len(link) : i # 1 => link[i].key # key
  BY <1>2, FirstKey
<1>4. DOMAIN tables.short.table = Slots
  BY <1>2, ShortParts
<1>5. CASE link[1].type \in {"SetParam", "SendPacket"}
  <2>1. tables' = tables
    BY <1>1, <1>5 DEF Answered
  <2>2. /\ content.type \in {"SetParam", "Beacon", "SendFrame"}
        /\ content.type = "SetParam" => content.param \in Params
    BY <1>2, <1>5 DEF MessageInv
  <2>3. ~IsShortUpdate(link[1])
    BY <2>2 DEF IsShortUpdate
  <2> HIDE DEF content
  <2>4. Execute(content).short = radio.short
    BY <2>2, ExecuteParam, ExecuteOther
  <2>5. radio'.short = radio.short
    BY <1>2, <2>4
  <2>6. TablesInv(tables, link', radio'.short)
    BY <1>2, <1>5, <2>3, <2>5, TablesShortened
  <2> QED BY <2>1, <2>6
<1>6. CASE link[1].type = "Init"
  <2>1. tables' = Data!ReportInitResult(tables, key, ok)
    BY <1>1, <1>6 DEF Answered
  <2>2. content.type = "Init"
    BY <1>2, <1>6 DEF MessageInv
  <2>3. CASE tables.initializing # {key}
    <3>1. tables' = tables
      BY <2>1, <2>3 DEF Data!ReportInitResult
    <3>2. ~tables.is_initialized
      BY <1>3, <1>6 DEF TablesInv, Running
    <3>3. TablesInv(tables, link', radio'.short)
      BY <1>2, <2>3, <3>2, TablesShortened
    <3> QED BY <3>1, <3>3
  <2>4. CASE tables.initializing = {key}
    <3>1. /\ IsTables(tables') /\ tables'.initializing = {} /\ tables'.is_initialized = ok
          /\ (ok => tables'.short = Data!AssumeEmpty(tables.short))
          /\ (~ok => tables'.short = tables.short)
      BY <1>2, <2>1, <2>4, InitResult
    <3>2. \A i \in Slots : Execute(content).short[i] = {}
      <4> HIDE DEF content
      <4> QED BY <2>2, ExecuteInit
    <3>3. ok => \A i \in Slots : radio'.short[i] = {}
      BY <1>2, <3>2
    <3> QED BY <1>2, <1>6, <2>4, <3>1, <3>3, TablesCleared
  <2> QED BY <2>3, <2>4
<1>7. CASE link[1].type = "Update"
  <2>1. tables' = Data!ReportTablesResult(tables, key, ok)
    BY <1>1, <1>7 DEF Answered
  <2>2. content.type \in {"UpdateShort", "UpdateExtended"}
    BY <1>2, <1>7 DEF MessageInv
  <2>3. CASE ~(tables.is_initialized /\ IsShortUpdate(link[1]))
    <3>1. \A i \in Slots : <<key, i>> \notin tables.short.updating
      <4>1. CASE tables.short.updating = {}
        BY <4>1
      <4>2. CASE tables.is_initialized /\ Updates(tables.short, link)
        <5>1. PICK i \in 1 .. Len(link) :
                /\ IsShortUpdate(link[i])
                /\ tables.short.updating = {<<link[i].key, link[i].content.index>>}
          BY <4>2 DEF Updates
        <5>2. link[i].key # key
          BY <1>3, <2>3, <4>2, <5>1
        <5> QED BY <5>1, <5>2
      <4> QED BY <4>1, <4>2 DEF TablesInv, Running
    <3>2. Data!ReportUpdateResult(tables.short, key, ok) = tables.short
      BY <1>4, <3>1, ShortForeign
    <3>3. /\ IsTables(tables') /\ tables'.initializing = tables.initializing
          /\ tables'.is_initialized = tables.is_initialized
          /\ tables'.short = tables.short
      BY <1>2, <2>1, <3>2, TablesResult
    <3>4. tables.is_initialized => radio'.short = radio.short
      <4>1. ASSUME tables.is_initialized PROVE content.type = "UpdateExtended"
        BY <2>2, <2>3, <4>1 DEF IsShortUpdate
      <4>2. ASSUME content.type = "UpdateExtended" PROVE Execute(content).short = radio.short
        <5> HIDE DEF content
        <5> QED BY <4>2, ExecuteOther
      <4> QED BY <1>2, <4>1, <4>2
    <3>5. TablesInv(tables, link', radio'.short)
      BY <1>2, <1>7, <2>3, <3>4, TablesShortened
    <3>6. TablesInv(tables', link', radio'.short)
      BY <3>3, <3>5, TablesAlike
    <3> QED BY <3>3, <3>6
  <2>4. CASE tables.is_initialized /\ IsShortUpdate(link[1])
    <3>1. ShortInv(Data!ReportUpdateResult(tables.short, key, ok))
      <4>1. CASE \A i \in Slots : <<key, i>> \notin tables.short.updating
        BY <1>2, <1>4, <4>1, ShortForeign
      <4>2. ASSUME NEW i \in Slots, <<key, i>> \in tables.short.updating
            PROVE  BeingUpdated(tables.short, key, i)
        <5>1. PICK k, index : tables.short.updating = {<<k, index>>}
          BY <4>2 DEF TablesInv, Running, Updates
        <5>2. <<key, i>> = <<k, index>>
          BY <4>2, <5>1
        <5>3. tables.short.updating = {<<key, i>>}
          BY <5>1, <5>2
        <5> QED BY <5>3 DEF BeingUpdated
      <4> QED BY <1>2, <4>1, <4>2, ShortResult DEF Resulted
    <3>2. /\ IsTables(tables') /\ tables'.initializing = tables.initializing
          /\ tables'.is_initialized = tables.is_initialized
          /\ tables'.short = Data!ReportUpdateResult(tables.short, key, ok)
      BY <1>2, <2>1, <3>1, TablesResult
    <3>3. content.type = "UpdateShort"
      BY <2>4 DEF IsShortUpdate
    <3>4. /\ content.index \in Slots => Execute(content).short[content.index] = content.value
          /\ \A i \in Slots : i # content.index => Execute(content).short[i] = radio.short[i]
      <4> HIDE DEF content
      <4> QED BY <3>3, ExecuteShort
    <3>5. /\ content.index \in Slots /\ ok => radio'.short[content.index] = content.value
          /\ \A i \in Slots : i # content.index => radio'.short[i] = radio.short[i]
      BY <1>2, <3>4
    <3>6. /\ TablesInv(tables, link, radio.short) /\ Shortened(link', link)
          /\ LinkInv(link, next_key)
      BY <1>2
    <3>7. /\ IsTables(tables') /\ tables'.initializing = tables.initializing
          /\ tables'.is_initialized = tables.is_initialized
          /\ tables'.short = Data!ReportUpdateResult(tables.short, link[1].key, ok)
      BY <3>2
    <3>8. link[1].content.index \in Slots /\ ok =>
            radio'.short[link[1].content.index] = link[1].content.value
      BY <3>5
    <3>9. \A i \in Slots : i # link[1].content.index => radio'.short[i] = radio.short[i]
      BY <3>5
    <3>10. Written(tables', radio'.short, tables, link[1], radio.short, ok)
      BY <3>7, <3>8, <3>9 DEF Written
    <3> HIDE DEF content, key
    <3> QED BY <2>4, <3>6, <3>10, TablesUpdated
  <2> QED BY <2>3, <2>4
<1>8. link[1].type \in {"SetParam", "SendPacket", "Init", "Update"}
  BY <1>2 DEF MessageInv
<1> QED BY <1>5, <1>6, <1>7, <1>8

LEMMA TablesWith ==
  ASSUME NEW c, IsTables(c), NEW initializing, NEW short, ShortInv(short), NEW extended,
         NEW new, new = [initializing |-> initializing, is_initialized |-> c.is_initialized,
                         none |-> c.none, short |-> short, extended |-> extended]
  PROVE  /\ IsTables(new) /\ new.initializing = initializing
         /\ new.is_initialized = c.is_initialized
         /\ new.short = short /\ new.extended = extended
<1>1. /\ new.initializing = initializing /\ new.is_initialized = c.is_initialized
      /\ new.short = short /\ new.none = c.none /\ new.extended = extended
  OBVIOUS
<1> QED BY <1>1 DEF IsTables

\* The tables' own messages.
LEMMA TablesPoll ==
  ASSUME DataInv, TablesInv(tables, link, radio.short), Data!PollPendingTable
  PROVE  /\ TablesInv(tables', link', radio.short)
         /\ tables'.short.values = tables.short.values
<1> DEFINE c == tables
           polled == Data!PollTables(c, next_key)
           content == polled.action
           type == IF content.type = "Init" THEN "Init" ELSE "Update"
           m == [type |-> type, key |-> next_key, content |-> content]
<1>1. /\ content # Data!NoUpdate /\ tables' = polled.tables
      /\ link' = Data!ToRadio(type, next_key, content)
  BY DEF Data!PollPendingTable
<1>2. c = [initializing |-> c.initializing, is_initialized |-> c.is_initialized,
           none |-> c.none, short |-> c.short, extended |-> c.extended]
  BY DEF TablesInv, IsTables
<1>3. IsTables(c) /\ ShortInv(c.short) /\ c.is_initialized \in BOOLEAN
  BY DEF TablesInv, IsTables
<1>4. c.initializing = {} /\ next_key \in Nat
  BY <1>1 DEF Data!PollTables, DataInv, LinkInv
<1>5. CASE ~c.is_initialized
  <2>1. polled = [tables |-> [c EXCEPT !.initializing = {next_key}],
                  action |-> Data!InitTables(next_key)]
    BY <1>4, <1>5 DEF Data!PollTables, Data!StartInit
  <2>2. polled.tables = [c EXCEPT !.initializing = {next_key}] /\ content.type = "Init"
    BY <2>1 DEF Data!InitTables
  <2> HIDE DEF content
  <2>3. m.type = "Init" /\ m.key = next_key
    BY <2>2
  <2> HIDE DEF type
  <2>4. Appended(link', link, m)
    BY <1>1, ToRadioAppends
  <2> HIDE DEF m, polled
  <2>5. tables' = [initializing |-> {next_key}, is_initialized |-> c.is_initialized,
                   none |-> c.none, short |-> c.short, extended |-> c.extended]
    BY <1>1, <1>2, <2>2
  <2> HIDE DEF c
  <2>6. /\ IsTables(tables') /\ tables'.initializing = {next_key}
        /\ tables'.is_initialized = c.is_initialized /\ tables'.short = c.short
    BY <1>3, <2>5, TablesWith
  <2>7. TablesInv(c, link, radio.short)
    BY DEF c
  <2>8. TablesInv(tables', link', radio.short)
    BY <1>4, <1>5, <2>3, <2>4, <2>6, <2>7, TablesInits
  <2> QED BY <2>6, <2>8 DEF c
<1>6. CASE c.is_initialized /\ Data!HasUpdate(c.short)
  <2> DEFINE index == Data!FirstDirty(c.short)
             short == Data!StartUpdate(c.short, next_key)
  <2>1. polled = [tables |-> [c EXCEPT !.short = short],
                  action |-> Data!UpdateShort(Data!Update(c.short, next_key))]
    BY <1>2, <1>4, <1>6 DEF Data!PollTables, Data!PollUpdates
  <2>2. /\ polled.tables = [c EXCEPT !.short = short]
        /\ content = Data!UpdateShort(Data!Update(c.short, next_key))
    BY <2>1
  <2>3. /\ content.type = "UpdateShort" /\ content.index = index
        /\ content.value = c.short.table[index].value
    BY <2>2 DEF Data!UpdateShort, Data!Update
  <2> HIDE DEF content, polled
  <2>4. m.type = "Update" /\ m.key = next_key /\ m.content = content
    BY <2>3
  <2> HIDE DEF type
  <2>5. Appended(link', link, m)
    BY <1>1, ToRadioAppends
  <2> HIDE DEF m
  <2>6. IsShortUpdate(m)
    BY <2>3, <2>4 DEF IsShortUpdate
  <2>7. ShortInv(short)
    BY <1>3, <1>4, <1>6, ShortStart
  <2>8. tables' = [initializing |-> c.initializing, is_initialized |-> c.is_initialized,
                   none |-> c.none, short |-> short, extended |-> c.extended]
    <3> HIDE DEF short
    <3> QED BY <1>1, <1>2, <2>2
  <2> HIDE DEF c
  <2>9. /\ IsTables(tables') /\ tables'.initializing = c.initializing
        /\ tables'.is_initialized = c.is_initialized /\ tables'.short = short
    BY <1>3, <2>7, <2>8, TablesWith
  <2>10. TablesInv(c, link, radio.short)
    BY DEF c
  <2>11. /\ m.type # "Init" /\ m.key \in Nat
         /\ m.content.index = Data!FirstDirty(c.short)
         /\ m.content.value = c.short.table[Data!FirstDirty(c.short)].value
    BY <1>4, <2>3, <2>4
  <2>12. /\ tables'.is_initialized /\ tables'.short = Data!StartUpdate(c.short, m.key)
         /\ c.is_initialized /\ Data!HasUpdate(c.short)
    BY <1>6, <2>4, <2>9
  <2> HIDE DEF index, short
  <2>13. TablesInv(tables', link', radio.short) /\ tables'.short.values = c.short.values
    BY <2>5, <2>6, <2>9, <2>10, <2>11, <2>12, TablesStarts
  <2> QED BY <2>13 DEF c
<1>7. CASE c.is_initialized /\ ~Data!HasUpdate(c.short)
  <2> DEFINE extended == Data!StartUpdate(c.extended, next_key)
  <2>1. polled = Data!PollUpdates(c, next_key)
    BY <1>1, <1>4, <1>7 DEF Data!PollTables
  <2>2. Data!HasUpdate(c.extended)
    BY <1>1, <1>7, <2>1 DEF Data!PollUpdates
  <2>3. polled = [tables |-> [c EXCEPT !.extended = extended],
                  action |-> Data!UpdateExtended(Data!Update(c.extended, next_key))]
    BY <1>2, <1>7, <2>1, <2>2 DEF Data!PollUpdates
  <2>4. polled.tables = [c EXCEPT !.extended = extended] /\ content.type = "UpdateExtended"
    BY <2>3 DEF Data!UpdateExtended
  <2> HIDE DEF content, polled
  <2>5. m.type = "Update" /\ m.content = content
    BY <2>4
  <2> HIDE DEF type
  <2>6. Appended(link', link, m)
    BY <1>1, ToRadioAppends
  <2> HIDE DEF m, extended
  <2>7. ~IsShortUpdate(m)
    BY <2>4, <2>5 DEF IsShortUpdate
  <2>8. tables' = [initializing |-> c.initializing, is_initialized |-> c.is_initialized,
                   none |-> c.none, short |-> c.short, extended |-> extended]
    BY <1>1, <1>2, <2>4
  <2> HIDE DEF c
  <2>9. /\ IsTables(tables') /\ tables'.initializing = c.initializing
        /\ tables'.is_initialized = c.is_initialized /\ tables'.short = c.short
    BY <1>3, <2>8, TablesWith
  <2>10. TablesInv(c, link', radio.short)
    BY <2>5, <2>6, <2>7, TablesAppended DEF c
  <2>11. TablesInv(tables', link', radio.short)
    BY <2>9, <2>10, TablesAlike
  <2> QED BY <2>9, <2>11 DEF c
<1> QED BY <1>3, <1>5, <1>6, <1>7

-----------------------------------------------------------------------------
(* The tables, what the queues have reported and what a poll has left, step  *)
(* by step.                                                                 *)
ServiceInv ==
  /\ TablesInv(tables, link, radio.short)
  /\ MarkInv(tables, queues)
  /\ QuietInv(asleep, quiet, queues, radio_params, tables)

LEMMA MarkKept ==
  ASSUME NEW c, NEW qs, MarkInv(c, qs), NEW c2, c2.short.values = c.short.values, NEW qs2,
         DOMAIN qs2 = DOMAIN qs,
         \A d \in DOMAIN qs : qs2[d].last_pending_reported = qs[d].last_pending_reported
  PROVE  MarkInv(c2, qs2)
  BY DEF MarkInv, Reports

LEMMA Awake ==
  ASSUME NEW qs, NEW ps, NEW c
  PROVE  QuietInv(FALSE, {}, qs, ps, c)
  BY DEF QuietInv

\* An input that leaves the tables and what the queues have reported.
LEMMA ServiceKept ==
  ASSUME ServiceInv, UNCHANGED <<tables, link, radio>>, Data!Wake,
         DOMAIN queues' = DOMAIN queues,
         \A d \in DOMAIN queues :
           queues'[d].last_pending_reported = queues[d].last_pending_reported
  PROVE  ServiceInv'
<1>1. TablesInv(tables, link, radio.short) /\ MarkInv(tables, queues)
  BY DEF ServiceInv
<1>2. MarkInv(tables, queues')
  BY <1>1, MarkKept
<1>3. QuietInv(asleep', quiet', queues', radio_params', tables')
  BY Awake DEF Data!Wake
<1> QED BY <1>1, <1>2, <1>3 DEF ServiceInv

LEMMA ServiceMain ==
  ASSUME ServiceInv, Main \/ MainStops \/ MacHangs \/ UNCHANGED vars
  PROVE  ServiceInv'
<1>1. UNCHANGED <<tables, link, radio, queues, asleep, quiet, radio_params>>
  BY DEF vars, Main, MainStarts, MainTakesConfirm, MainSendsBeacon, MainAnswersAssociate,
         MainSendsData, MainTakes, MainRuns, airVars, MainStops, MacHangs, managementVars,
         linkVars, dataVars
<1> QED BY <1>1 DEF ServiceInv

\* What the management service sends; it has no parameter to send when the MAC sleeps.
LEMMA ServiceManagement ==
  ASSUME DataInv, ServiceInv, PollOutgoing \/ \E param \in Params : PollParam(param)
  PROVE  ServiceInv'
<1>1. /\ UNCHANGED <<tables, radio, queues, asleep, quiet>>
      /\ UNCHANGED radio_params \/ ~asleep
  BY DEF PollOutgoing, PollParam, airVars, dataVars, ServiceInv, QuietInv
<1>2. \E m : Appended(link', link, m) /\ m.type # "Init" /\ ~IsShortUpdate(m)
  <2>1. ASSUME NEW type, type # "Init", NEW content, content.type # "UpdateShort",
               link' = Data!ToRadio(type, next_key, content)
        PROVE  \E m : Appended(link', link, m) /\ m.type # "Init" /\ ~IsShortUpdate(m)
    <3> DEFINE m == [type |-> type, key |-> next_key, content |-> content]
    <3>1. Appended(link', link, m)
      BY <2>1, ToRadioAppends
    <3>2. m.type # "Init" /\ ~IsShortUpdate(m)
      BY <2>1 DEF IsShortUpdate
    <3> QED BY <3>1, <3>2
  <2>2. CASE PollOutgoing
    <3> DEFINE content == [type |-> "Beacon", beacon |-> Head(outgoing)]
    <3>1. link' = Data!ToRadio("SendPacket", next_key, content)
      BY <2>2 DEF PollOutgoing
    <3>2. content.type # "UpdateShort"
      OBVIOUS
    <3> HIDE DEF content
    <3> QED BY <2>1, <3>1, <3>2
  <2>3. ASSUME NEW param \in Params, PollParam(param)
        PROVE  \E m : Appended(link', link, m) /\ m.type # "Init" /\ ~IsShortUpdate(m)
    <3> DEFINE content == [type |-> "SetParam", param |-> param,
                           value |-> radio_params[param].requested_value]
    <3>1. link' = Data!ToRadio("SetParam", next_key, content)
      BY <2>3 DEF PollParam
    <3>2. content.type # "UpdateShort"
      OBVIOUS
    <3> HIDE DEF content
    <3> QED BY <2>1, <3>1, <3>2
  <2> QED BY <2>2, <2>3
<1>3. TablesInv(tables, link, radio.short) /\ MarkInv(tables, queues)
  BY DEF ServiceInv
<1>4. TablesInv(tables, link', radio.short)
  BY <1>2, <1>3, TablesAppended
<1>5. QuietInv(asleep, quiet, queues, radio_params', tables)
  BY <1>1 DEF ServiceInv, QuietInv
<1> QED BY <1>1, <1>3, <1>4, <1>5 DEF ServiceInv

\* A new queue has reported nothing, and Address is the only short address that
\* anything is sent to.
LEMMA ServiceNewRequest ==
  ASSUME DataInv, ServiceInv, NEW d, NEW indirect \in BOOLEAN, NEW outcome,
         d = Address \/ d.mode = "Extended", Data!NewRequest(d, indirect, TRUE, outcome),
         radio' = radio
  PROVE  ServiceInv'
<1> DEFINE entry == Data!Entry(Len(requests) + 1, indirect, TRUE, MaxFrameRetries)
           q == IF d \in DOMAIN queues THEN queues[d] ELSE Data!New
           new == Data!Insert(q, entry)
<1>1. /\ queues' = Data!With(queues, d, new) /\ UNCHANGED <<tables, link, radio>>
      /\ asleep' = FALSE /\ quiet' = {}
  BY DEF Data!NewRequest, Data!InsertEntry, Data!Input, Data!Wake
<1>2. entry \in EntryType
  <2>1. Len(requests) + 1 \in Nat
    BY DEF DataInv, RequestsInv, IsSequence
  <2> QED BY <2>1, CoordinatorAssumption DEF Data!Entry, EntryType
<1>3. IsQueue(q)
  BY SameQueues, NewQueue
<1>4. d \notin DOMAIN queues => q.last_pending_reported = {}
  BY NewQueue
<1> HIDE DEF entry
<1>5. new.last_pending_reported = q.last_pending_reported
  BY <1>2, <1>3, InsertShape
<1> HIDE DEF new
<1>6. queues' = [e \in DOMAIN queues \cup {d} |-> IF e = d THEN new ELSE queues[e]]
  BY <1>1 DEF Data!With
<1>7. /\ DOMAIN queues' = DOMAIN queues \cup {d} /\ queues'[d] = new
      /\ \A e \in DOMAIN queues : e # d => queues'[e] = queues[e]
  BY <1>6, Zenon
<1>8. TablesInv(tables, link, radio.short) /\ MarkInv(tables, queues)
  BY DEF ServiceInv
<1>9. Reports(queues') <=> Reports(queues)
  <2>1. CASE d # Address
    BY <1>7, <2>1 DEF Reports
  <2>2. CASE d = Address /\ d \in DOMAIN queues
    BY <1>5, <1>7, <2>2 DEF Reports
  <2>3. CASE d = Address /\ d \notin DOMAIN queues
    <3>1. queues'[d].last_pending_reported = {}
      BY <1>4, <1>5, <1>7, <2>3
    <3> QED BY <2>3, <3>1 DEF Reports
  <2> QED BY <2>1, <2>2, <2>3
<1>10. MarkInv(tables, queues')
  BY <1>7, <1>8, <1>9 DEF MarkInv
<1>11. QuietInv(asleep', quiet', queues', radio_params', tables')
  BY <1>1, Awake
<1> QED BY <1>1, <1>8, <1>10, <1>11 DEF ServiceInv

LEMMA ServiceNew ==
  ASSUME tables' = Data!NewTables(Size), queues' = <<>>, Data!Wake
  PROVE  ServiceInv'
<1>1. TablesInv(tables', link', radio'.short) /\ tables'.short.values = {}
  BY TablesNew
<1>2. DOMAIN queues' = {}
  OBVIOUS
<1>3. MarkInv(tables', queues')
  BY <1>1, <1>2 DEF MarkInv, Reports
<1>4. QuietInv(asleep', quiet', queues', radio_params', tables')
  BY Awake DEF Data!Wake
<1> QED BY <1>1, <1>3, <1>4 DEF ServiceInv

LEMMA ServiceRequests ==
  ASSUME DataInv, ServiceInv, ProcessMlme \/ ProcessMcps
  PROVE  ServiceInv'
<1>1. radio' = radio
  BY DEF ProcessMlme, ProcessReset, ProcessSet, ProcessStart, ProcessBeacon,
         ProcessAssociateResponse, TakeMlme, ProcessMcps, airVars
<1>2. CASE ProcessReset
  BY <1>2, ServiceNew DEF ProcessReset, Data!ProcessMlmeResetRequest, Data!Input
<1>3. CASE ProcessSet \/ ProcessStart \/ ProcessBeacon
  <2>1. UNCHANGED <<tables, link, queues>> /\ Data!Wake
    BY <1>3 DEF ProcessSet, ProcessStart, ProcessBeacon, Data!OtherInput, Data!serviceVars,
                Data!Input
  <2> QED BY <1>1, <2>1, ServiceKept
<1>4. CASE ProcessAssociateResponse
  <2> DEFINE d == ResponseAddress(pib, Head(mlme_in).device)
             indirect == ~Head(mlme_in).fast_association
  <2>1. d.mode = "Extended" /\ Data!NewRequest(d, indirect, TRUE, "none")
    BY <1>4 DEF ProcessAssociateResponse, Data!ProcessMlmeAssociateResponse
  <2>2. indirect \in BOOLEAN
    OBVIOUS
  <2> HIDE DEF d, indirect
  <2> QED BY <1>1, <2>1, <2>2, ServiceNewRequest
<1>5. CASE ProcessMcps
  <2>1. /\ mcps_in # <<>>
        /\ Data!ProcessMcpsDataRequest(Head(mcps_in).destination, Head(mcps_in).indirect,
                                       Head(mcps_in).ack)
    BY <1>5 DEF ProcessMcps
  <2>2. Head(mcps_in) = AssociateData
    BY <2>1 DEF DataInv, MainInv
  <2>3. /\ AssociateData.destination = Address /\ AssociateData.indirect = TRUE
        /\ AssociateData.ack = TRUE
    BY DEF AssociateData, Address
  <2>4. Data!NewRequest(Address, TRUE, TRUE, "open")
    BY <2>1, <2>2, <2>3 DEF Data!ProcessMcpsDataRequest
  <2> QED BY <1>1, <2>4, ServiceNewRequest
<1> QED BY <1>2, <1>3, <1>4, <1>5 DEF ProcessMlme

LEMMA ServiceAnswers ==
  ASSUME DataInv, RadioInv(radio), ServiceInv, Answers
  PROVE  ServiceInv'
<1>1. PICK ok, done \in BOOLEAN :
        AnswersParam(ok, done) \/ \E heard \in BOOLEAN : AnswersData(ok, done, heard)
  BY DEF Answers
<1>2. Data!Wake
  BY <1>1 DEF AnswersParam, AnswersData, Data!RadioAnswers, Data!Input
<1>3. /\ TablesInv(tables', link', radio'.short)
      /\ tables'.short.values = tables.short.values
  BY TablesAnswer DEF ServiceInv
<1>4. /\ DOMAIN queues' = DOMAIN queues
      /\ \A d \in DOMAIN queues :
           queues'[d].last_pending_reported = queues[d].last_pending_reported
  <2>1. CASE queues' = queues
    BY <2>1
  <2>2. CASE queues' = [d \in DOMAIN queues |->
                          Data!ProcessSendResult(queues[d], Head(link).key, ok)]
    <3>1. /\ DOMAIN queues' = DOMAIN queues
          /\ \A d \in DOMAIN queues :
               queues'[d] = Data!ProcessSendResult(queues[d], Head(link).key, ok)
      BY <2>2, Zenon
    <3> QED BY <3>1, SameQueues, SendResultSame DEF Same
  <2> QED BY <1>1, <2>1, <2>2 DEF AnswersParam, AnswersData, Data!RadioAnswers
<1>5. MarkInv(tables', queues')
  <2>1. MarkInv(tables, queues)
    BY DEF ServiceInv
  <2> QED BY <1>3, <1>4, <2>1, MarkKept
<1>6. QuietInv(asleep', quiet', queues', radio_params', tables')
  BY <1>2, Awake DEF Data!Wake
<1> QED BY <1>3, <1>5, <1>6 DEF ServiceInv

\* What is received, and the timers.
LEMMA ServiceReceives ==
  ASSUME DataInv, ServiceInv,
         \/ ReceiveBeaconRequest \/ ReceiveDataRequest \/ ReceiveAck \/ ReceiveUndecodable
         \/ \E fast_association \in BOOLEAN : ReceiveAssociationRequest(fast_association)
         \/ \E other \in OtherDevices : ReceiveOtherAssociation(other)
         \/ AckTimeout \/ TransactionTimeout
  PROVE  ServiceInv'
<1>1. CASE ReceiveUndecodable
  BY <1>1, ServiceNew DEF ReceiveUndecodable
<1>2. ASSUME NEW d \in DOMAIN queues, NEW q, queues' = [queues EXCEPT ![d] = q],
             q.last_pending_reported = queues[d].last_pending_reported,
             UNCHANGED <<tables, link, radio>>, Data!Wake
      PROVE  ServiceInv'
  <2>1. /\ queues' = [e \in DOMAIN queues |-> queues'[e]]
        /\ queues'[d] = q /\ \A e \in DOMAIN queues : e # d => queues'[e] = queues[e]
    BY <1>2, QueuesExcept
  <2>2. DOMAIN queues' = DOMAIN queues
    BY <2>1
  <2> QED BY <1>2, <2>1, <2>2, ServiceKept
<1>3. ASSUME Data!OtherInput, radio' = radio PROVE ServiceInv'
  <2>1. UNCHANGED <<tables, link, queues>> /\ Data!Wake
    BY <1>3 DEF Data!OtherInput, Data!serviceVars, Data!Input
  <2> QED BY <1>3, <2>1, ServiceKept
<1>4. CASE \/ ReceiveBeaconRequest
           \/ \E fast \in BOOLEAN : ReceiveAssociationRequest(fast)
           \/ \E other \in OtherDevices : ReceiveOtherAssociation(other)
  <2>1. Data!OtherInput /\ radio' = radio
    BY <1>4 DEF ReceiveBeaconRequest, ReceiveAssociationRequest, ReceiveOtherAssociation,
                Receive
  <2> QED BY <1>3, <2>1
<1>5. CASE ReceiveDataRequest
  <2> DEFINE source == OwnAddress
  <2>1. radio' = radio /\ (Data!OtherInput \/ Data!ProcessFrameDataRequest(source))
    BY <1>5 DEF ReceiveDataRequest, Receive
  <2> HIDE DEF source
  <2>2. CASE Data!ProcessFrameDataRequest(source)
    <3>1. UNCHANGED <<tables, link, radio>> /\ Data!Wake
      BY <2>1, <2>2 DEF Data!ProcessFrameDataRequest, Data!Input
    <3>2. CASE source \notin DOMAIN queues
      <4>1. queues' = queues
        BY <2>2, <3>2 DEF Data!ProcessFrameDataRequest
      <4> QED BY <3>1, <4>1, ServiceKept
    <3>3. CASE source \in DOMAIN queues
      <4> DEFINE q == queues[source]
                 new == Data!ProcessDataRequest(q)
      <4>1. queues' = [queues EXCEPT ![source] = new]
        BY <2>2, <3>3 DEF Data!ProcessFrameDataRequest
      <4>2. IsQueue(q)
        BY <3>3, SameQueues
      <4>3. new = q \/ \E state : new = [q EXCEPT !.state = state]
        BY DEF Data!ProcessDataRequest
      <4> HIDE DEF new, q
      <4>4. new.last_pending_reported = q.last_pending_reported
        <5>1. ASSUME NEW state, new = [q EXCEPT !.state = state]
              PROVE  new.last_pending_reported = q.last_pending_reported
          BY <4>2, <5>1, WithState
        <5> QED BY <4>3, <5>1
      <4> QED BY <1>2, <3>1, <3>3, <4>1, <4>4 DEF q
    <3> QED BY <3>2, <3>3
  <2> QED BY <1>3, <2>1, <2>2
<1>6. CASE ReceiveAck
  <2>1. /\ queues' = [d \in DOMAIN queues |->
                        Data!ProcessAcknowledge(queues[d], device.ack, NoPayload)]
        /\ UNCHANGED <<tables, link, radio>> /\ Data!Wake
    BY <1>6 DEF ReceiveAck, Receive, Data!ProcessFrameAck, Data!Input
  <2>2. /\ DOMAIN queues' = DOMAIN queues
        /\ \A d \in DOMAIN queues :
             queues'[d] = Data!ProcessAcknowledge(queues[d], device.ack, NoPayload)
    BY <2>1, Zenon
  <2>3. \A d \in DOMAIN queues :
          queues'[d].last_pending_reported = queues[d].last_pending_reported
    BY <2>2, SameQueues, AcknowledgeSame DEF Same
  <2> QED BY <2>1, <2>2, <2>3, ServiceKept
<1>7. CASE AckTimeout
  <2>1. PICK d \in DOMAIN queues : Data!AckTimeout(d)
    BY <1>7 DEF AckTimeout
  <2> DEFINE q == [queues[d] EXCEPT !.state.timeout = TRUE]
  <2>2. /\ queues' = [queues EXCEPT ![d] = q] /\ queues[d].state.tag = "WaitingForAck"
        /\ UNCHANGED <<tables, link, radio>> /\ Data!Wake
    BY <1>7, <2>1, SameQueues DEF Data!AckTimeout, AckTimeout, airVars
  <2>3. Same(q, queues[d])
    BY <2>2, SameQueues, AckTimerSame
  <2> HIDE DEF q
  <2> QED BY <1>2, <2>2, <2>3 DEF Same
<1>8. CASE TransactionTimeout
  <2>1. PICK d \in DOMAIN queues :
          \E i \in 1 .. Len(queues[d].entries) : Data!TransactionTimeout(d, i)
    BY <1>8 DEF TransactionTimeout
  <2>2. PICK i \in Indices(queues[d]) : Data!TransactionTimeout(d, i)
    BY <2>1 DEF Indices
  <2> DEFINE q == [queues[d] EXCEPT !.entries[i].timeout = TRUE]
  <2>3. /\ queues' = [queues EXCEPT ![d] = q] /\ UNCHANGED <<tables, link, radio>>
        /\ Data!Wake
    BY <1>8, <2>2, SameQueues DEF Data!TransactionTimeout, TransactionTimeout, airVars
  <2>4. Same(q, queues[d])
    BY SameQueues, TransactionTimerSame
  <2> HIDE DEF q
  <2> QED BY <1>2, <2>3, <2>4 DEF Same
<1> QED BY <1>1, <1>4, <1>5, <1>6, <1>7, <1>8

\* A poll of the tables that returns nothing has nothing left to write.
LEMMA NothingToUpdate ==
  ASSUME NEW c, NEW key, Data!PollTables(c, key).action = Data!NoUpdate
  PROVE  c.initializing # {} \/ (c.is_initialized /\ ~Data!HasUpdate(c.short))
<1>1. SUFFICES ASSUME c.initializing = {}
               PROVE  c.is_initialized /\ ~Data!HasUpdate(c.short)
  OBVIOUS
<1>2. ASSUME ~c.is_initialized PROVE FALSE
  BY <1>1, <1>2 DEF Data!PollTables, Data!StartInit, Data!InitTables, Data!NoUpdate
<1>3. ASSUME Data!HasUpdate(c.short) PROVE FALSE
  <2>1. Data!PollTables(c, key) = Data!PollUpdates(c, key)
    BY <1>1, <1>2 DEF Data!PollTables
  <2>2. Data!PollUpdates(c, key).action = Data!UpdateShort(Data!Update(c.short, key))
    BY <1>3 DEF Data!PollUpdates
  <2>3. Data!UpdateShort(Data!Update(c.short, key)).type = "UpdateShort"
    BY DEF Data!UpdateShort
  <2>4. Data!NoUpdate.type = "NoUpdate"
    BY DEF Data!NoUpdate
  <2> QED BY <2>1, <2>2, <2>3, <2>4
<1> QED BY <1>2, <1>3

LEMMA ServicePollTables ==
  ASSUME DataInv, ServiceInv, Data!PollPendingTable, radio' = radio
  PROVE  ServiceInv'
<1>1. UNCHANGED <<queues, asleep>> /\ quiet' = {} /\ asleep = FALSE
  BY DEF Data!PollPendingTable, ServiceInv, QuietInv
<1>2. TablesInv(tables', link', radio.short) /\ tables'.short.values = tables.short.values
  BY TablesPoll DEF ServiceInv
<1>3. MarkInv(tables', queues)
  <2>1. MarkInv(tables, queues)
    BY DEF ServiceInv
  <2> QED BY <1>2, <2>1, MarkKept
<1>4. QuietInv(asleep', quiet', queues', radio_params', tables')
  BY <1>1, Awake
<1> QED BY <1>1, <1>2, <1>3, <1>4 DEF ServiceInv

LEMMA ServiceSleeps ==
  ASSUME ServiceInv, Data!PollPending, ParamsSent, UNCHANGED <<radio, radio_params>>
  PROVE  ServiceInv'
<1>1. /\ UNCHANGED <<tables, queues, link, quiet>> /\ asleep' = TRUE
      /\ quiet = DOMAIN queues /\ Data!PollTables(tables, next_key).action = Data!NoUpdate
  BY DEF Data!PollPending, Data!serviceVars
<1>2. tables.initializing # {} \/ (tables.is_initialized /\ ~Data!HasUpdate(tables.short))
  BY <1>1, NothingToUpdate
<1>3. QuietInv(TRUE, quiet, queues, radio_params, tables)
  BY <1>1, <1>2 DEF ServiceInv, QuietInv, ParamsSent
<1> QED BY <1>1, <1>3 DEF ServiceInv

\* The queue of d says what it has to, and the tables note it.
LEMMA ServicePollQueue ==
  ASSUME DataInv, ServiceInv, NEW d \in DOMAIN queues, Data!PollQueue(d), radio' = radio
  PROVE  ServiceInv'
<1> DEFINE q == queues[d]
           polled == Data!PollNextAction(q, next_key, pib.mac_dsn)
           new == polled.queue
           action == polled.action
           m == [type |-> "SendPacket", key |-> next_key, content |-> action]
<1>1. /\ queues' = IF action = Data!Empty THEN Data!Without(queues, d)
                   ELSE Data!With(queues, d, new)
      /\ quiet' = IF action = Data!Pending THEN quiet \cup {d} ELSE {}
      /\ tables' = IF action.type = "SetPending"
                   THEN Data!SetAddress(tables, d, action.pending) ELSE tables
      /\ IF action.type = "SendFrame"
         THEN link' = Data!ToRadio("SendPacket", next_key, action)
         ELSE link' = link
      /\ ~asleep /\ asleep' = asleep
  BY DEF Data!PollQueue, Data!AfterPoll
<1>2. IsQueue(q)
  BY SameQueues
<1>3. Polled(new, action, q)
  BY <1>2, PollShape
<1>4. /\ TablesInv(tables, link, radio.short) /\ MarkInv(tables, queues)
      /\ QuietInv(asleep, quiet, queues, radio_params, tables)
      /\ QueuesInv(queues, requests, device.status)
  BY DEF ServiceInv, DataInv
<1>5. /\ Data!Empty.type = "Empty" /\ Data!Pending.type = "Pending" /\ asleep = FALSE
      /\ d = Address \/ d.mode = "Extended"
  BY <1>1, <1>4 DEF Data!Empty, Data!Pending, QuietInv, MarkInv
<1> HIDE DEF polled, new, action
<1>6. action = Data!Empty =>
        /\ DOMAIN queues' = DOMAIN queues \ {d}
        /\ \A e \in DOMAIN queues : e # d => queues'[e] = queues[e]
  <2>1. ASSUME action = Data!Empty
        PROVE  queues' = [e \in DOMAIN queues \ {d} |-> queues[e]]
    BY <1>1, <2>1 DEF Data!Without
  <2> QED BY <2>1, Zenon
<1>7. action # Data!Empty =>
        /\ DOMAIN queues' = DOMAIN queues /\ queues'[d] = new
        /\ \A e \in DOMAIN queues : e # d => queues'[e] = queues[e]
  <2>1. ASSUME action # Data!Empty
        PROVE  queues' = [e \in DOMAIN queues \cup {d} |-> IF e = d THEN new ELSE queues[e]]
    BY <1>1, <2>1 DEF Data!With
  <2>2. DOMAIN queues \cup {d} = DOMAIN queues
    OBVIOUS
  <2> QED BY <2>1, <2>2, Zenon
<1>8. QuietInv(asleep', quiet', queues', radio_params', tables')
  <2>1. CASE action # Data!Pending
    BY <1>1, <1>5, <2>1, Awake
  <2>2. CASE action = Data!Pending
    <3>1. action # Data!Empty /\ UpToDate(new)
      BY <1>3, <1>5, <2>2 DEF Polled
    <3>2. \A e \in quiet \cup {d} : e \in DOMAIN queues /\ UpToDate(queues'[e])
      BY <1>4, <1>7, <3>1 DEF QuietInv
    <3> QED BY <1>1, <1>5, <1>7, <2>2, <3>1, <3>2 DEF QuietInv
  <2> QED BY <2>1, <2>2
<1>9. CASE action.type = "SetPending"
  <2> DEFINE c == Data!SetAddress(tables, d, action.pending)
  <2>1. /\ action.pending \in BOOLEAN /\ new.last_pending_reported = {action.pending}
        /\ action # Data!Empty /\ tables' = c /\ link' = link
    BY <1>1, <1>3, <1>5, <1>9 DEF Polled
  <2>2. /\ c = [initializing |-> tables.initializing,
                is_initialized |-> tables.is_initialized, none |-> tables.none,
                short |-> c.short, extended |-> c.extended]
        /\ Dirtied(c.short, tables.short)
        /\ d # Address => c.short.values = tables.short.values
        /\ d = Address => (Value \in c.short.values <=> action.pending)
    BY <1>4, <1>5, <2>1, TablesSet
  <2> HIDE DEF c
  <2>3. IsTables(tables) /\ ShortInv(c.short)
    BY <1>4, <2>2 DEF TablesInv, Dirtied
  <2>4. /\ IsTables(c) /\ c.initializing = tables.initializing
        /\ c.is_initialized = tables.is_initialized
    BY <2>2, <2>3, TablesWith
  <2>5. TablesInv(c, link, radio.short)
    BY <1>4, <2>2, <2>4, TablesDirtied
  <2>6. Value \in c.short.values <=> Reports(queues')
    <3>1. CASE d # Address
      BY <1>4, <1>7, <2>1, <2>2, <3>1 DEF MarkInv, Reports
    <3>2. CASE d = Address
      <4>1. Reports(queues') <=> {action.pending} = {TRUE}
        BY <1>7, <2>1, <3>2 DEF Reports
      <4>2. {action.pending} = {TRUE} <=> action.pending
        BY <2>1
      <4> QED BY <2>2, <3>2, <4>1, <4>2
    <3> QED BY <3>1, <3>2
  <2>7. MarkInv(c, queues')
    BY <1>4, <1>7, <2>1, <2>6 DEF MarkInv
  <2> QED BY <1>8, <2>1, <2>5, <2>7 DEF ServiceInv
<1>10. CASE action.type # "SetPending"
  <2>1. tables' = tables
    BY <1>1, <1>10
  <2>2. MarkInv(tables, queues')
    <3>1. CASE action = Data!Empty
      <4>1. q.last_pending_reported = {FALSE}
        BY <1>3, <1>5, <3>1 DEF Polled
      <4>2. {FALSE} # {TRUE}
        OBVIOUS
      <4>3. Reports(queues') <=> Reports(queues)
        BY <1>6, <3>1, <4>1, <4>2 DEF Reports
      <4> QED BY <1>4, <1>6, <3>1, <4>3 DEF MarkInv
    <3>2. CASE action # Data!Empty
      <4>1. new.last_pending_reported = q.last_pending_reported
        BY <1>3, <1>10, <3>2 DEF Polled
      <4>2. \A e \in DOMAIN queues :
              queues'[e].last_pending_reported = queues[e].last_pending_reported
        BY <1>7, <3>2, <4>1
      <4> QED BY <1>4, <1>7, <3>2, <4>2, MarkKept
    <3> QED BY <3>1, <3>2
  <2>3. TablesInv(tables, link', radio.short)
    <3>1. CASE action.type # "SendFrame"
      BY <1>1, <1>4, <3>1
    <3>2. CASE action.type = "SendFrame"
      <4>1. m.type # "Init" /\ ~IsShortUpdate(m)
        BY <3>2 DEF IsShortUpdate
      <4>2. Appended(link', link, m)
        BY <1>1, <3>2, ToRadioAppends
      <4> HIDE DEF m
      <4> QED BY <1>4, <4>1, <4>2, TablesAppended
    <3> QED BY <3>1, <3>2
  <2> QED BY <1>8, <2>1, <2>2, <2>3 DEF ServiceInv
<1> QED BY <1>9, <1>10

LEMMA ServiceStep ==
  ASSUME DataInv, RadioInv(radio), ServiceInv, [Next]_vars
  PROVE  ServiceInv'
<1>1. CASE PollData
  <2>1. UNCHANGED <<radio, radio_params>> /\ Data!Poll /\ ParamsSent
    BY <1>1 DEF PollData, airVars
  <2> QED BY <2>1, ServicePollTables, ServiceSleeps, ServicePollQueue DEF Data!Poll
<1> QED BY <1>1, ServiceMain, ServiceManagement, ServiceRequests, ServiceAnswers,
           ServiceReceives DEF Next, MacPolls

-----------------------------------------------------------------------------
(* The MAC at rest.                                                         *)
RestInv ==
  /\ DataInv
  /\ RadioInv(radio)
  /\ ParamsInv(radio_params, pib, link, radio.params)
  /\ ServiceInv

LEMMA RestInit ==
  ASSUME Init
  PROVE  RestInv
<1>1. DataInv
  BY DataInit
<1>2. radio \in [params : [Params -> {Unknown}],
                  short : [Slots -> OldShort], extended : [Slots -> OldExtended]]
  BY DEF Init
<1>3. radio.params \in [Params -> {Unknown}] /\ radio.short \in [Slots -> OldShort]
  BY <1>2
<1>4. radio = [params |-> radio.params, short |-> radio.short, extended |-> radio.extended]
  BY <1>2
<1>5. radio.params = [param \in Params |-> radio.params[param]]
  BY <1>3
<1>6. radio.short = [i \in Slots |-> radio.short[i]]
  BY <1>3
<1>7. RadioInv(radio)
  BY <1>4, <1>5, <1>6 DEF RadioInv
<1>8. /\ \E channel, bsn, dsn : pib = NewPib(ExtendedAddr, channel, "power", bsn, dsn)
      /\ radio_params = NewParams(pib)
  BY DEF Init
<1>9. ParamsInv(radio_params, pib, link, radio.params)
  <2>1. IsPib(pib)
    BY <1>8, NewPibIs
  <2> QED BY <1>8, <2>1, ParamsNew
<1>10. tables = Data!NewTables(Size) /\ queues = <<>> /\ asleep = FALSE /\ quiet = {}
  BY DEF Init, Data!Init
<1>11. TablesInv(tables, link, radio.short) /\ tables.short.values = {}
  BY <1>10, TablesNew
<1>12. DOMAIN queues = {}
  BY <1>10
<1>13. MarkInv(tables, queues)
  BY <1>11, <1>12 DEF MarkInv, Reports
<1>14. QuietInv(asleep, quiet, queues, radio_params, tables)
  BY <1>10, Awake
<1> QED BY <1>1, <1>7, <1>9, <1>11, <1>13, <1>14 DEF RestInv, ServiceInv

LEMMA RestStep ==
  ASSUME RestInv, [Next]_vars
  PROVE  RestInv'
  BY DataStep, RadioStep, ParamsStep, ServiceStep DEF RestInv

\* The tables have nothing to write and no answer to wait for.
LEMMA TablesAtRest ==
  ASSUME NEW c, NEW l, NEW slots, TablesInv(c, l, slots), 1 .. Len(l) = {},
         c.initializing # {} \/ (c.is_initialized /\ ~Data!HasUpdate(c.short))
  PROVE  Value \in c.short.values <=> \E i \in Slots : slots[i] = {Value}
<1>1. ~Clears(l, c.initializing) /\ ~Updates(c.short, l)
  BY DEF Clears, Updates
<1>2. Running(c, l, slots)
  BY <1>1 DEF TablesInv
<1>3. ShortInv(c.short) /\ c.short.updating = {} /\ Synced(c.short, slots)
  BY <1>1, <1>2 DEF Running, TablesInv, IsTables
<1>4. ~Data!HasUpdate(c.short)
  BY <1>2 DEF Running
<1>5. DOMAIN c.short.table = Slots
  BY <1>3, ShortParts
<1>6. \A i \in Slots : ~c.short.table[i].dirty
  BY <1>3, <1>4, <1>5 DEF Data!HasUpdate, Data!DirtySlots
<1>7. \A i \in Slots : slots[i] = c.short.table[i].value
  BY <1>3, <1>6 DEF Synced
<1> QED BY <1>3, <1>7 DEF ShortInv

LEMMA InStep ==
  ASSUME RestInv
  PROVE  RestMeansInStep
<1>1. SUFFICES ASSUME asleep, link = <<>>
               PROVE  /\ \A param \in Params : radio.params[param] = ParamValue(pib, param)
                      /\ MarkedInRadio(Address) <=> Data!Awaited(Address)
  BY DEF RestMeansInStep, Address
<1>2. 1 .. Len(link) = {}
  BY <1>1, EmptySequence
<1>3. /\ quiet = DOMAIN queues /\ \A d \in quiet : UpToDate(queues[d])
      /\ \A param \in Params : ~ToSend(radio_params[param])
      /\ \/ tables.initializing # {}
         \/ tables.is_initialized /\ ~Data!HasUpdate(tables.short)
  BY <1>1 DEF RestInv, ServiceInv, QuietInv
<1>4. ASSUME NEW param \in Params PROVE radio.params[param] = ParamValue(pib, param)
  <2>1. /\ Tracked(radio_params[param], link, radio.params[param], param)
        /\ radio_params[param].requested_value = ParamValue(pib, param)
    BY DEF RestInv, ParamsInv
  <2>2. ~ToSend(radio_params[param])
    BY <1>3
  <2> QED BY <1>2, <2>1, <2>2 DEF Tracked, ToSend
<1>5. MarkedInRadio(Address) <=> \E i \in Slots : radio.short[i] = {Value}
  BY DEF MarkedInRadio, Address, Data!Short, Value
<1>6. Value \in tables.short.values <=> \E i \in Slots : radio.short[i] = {Value}
  <2>1. TablesInv(tables, link, radio.short)
    BY DEF RestInv, ServiceInv
  <2> QED BY <1>2, <1>3, <2>1, TablesAtRest
<1>7. Value \in tables.short.values <=> Reports(queues)
  BY DEF RestInv, ServiceInv, MarkInv
<1>8. Reports(queues) <=> Data!Awaited(Address)
  <2>1. CASE Address \notin DOMAIN queues
    BY <2>1 DEF Reports, Data!Awaited
  <2>2. CASE Address \in DOMAIN queues
    <3>1. queues[Address].last_pending_reported = {Data!ShouldBePending(queues[Address])}
      BY <1>3, <2>2 DEF UpToDate
    <3>2. Data!ShouldBePending(queues[Address]) \in BOOLEAN
      BY DEF Data!ShouldBePending
    <3>3. {Data!ShouldBePending(queues[Address])} = {TRUE} <=>
            Data!ShouldBePending(queues[Address])
      BY <3>2
    <3> QED BY <2>2, <3>1, <3>3 DEF Reports, Data!Awaited
  <2> QED BY <2>1, <2>2
<1> QED BY <1>4, <1>5, <1>6, <1>7, <1>8

\* Whatever the services, the link and the radio went through, requests that failed
\* after they were done, resets and new queues among it: when the MAC sleeps and the
\* radio has answered everything, the radio has the PIB's parameters and marks the
\* device's short address exactly if a frame waits for it.
THEOREM RestIsInStep == Spec => []RestMeansInStep
<1>1. Spec => []RestInv
  BY RestInit, RestStep, PTL DEF Spec
<1> QED BY <1>1, InStep, PTL
=============================================================================
