------------------------- MODULE DeviceQueue_proofs -------------------------
(***************************************************************************)
(* Proofs about DeviceQueue for any number of requests, retries, sequence  *)
(* numbers and payloads.                                                   *)
(***************************************************************************)
EXTENDS DeviceQueue, WellFoundedInduction, SequenceTheorems, TLAPS

\* A nonempty set of natural numbers has a least element.
LEMMA LeastElementExists ==
  ASSUME NEW S \in SUBSET Nat, S # {}
  PROVE  \E x \in S : \A y \in S : x <= y
<1>1. \E x \in S : \A y \in S : ~(<<y, x>> \in OpToRel(<, Nat))
  BY NatLessThanWellFounded, WFMin
<1>2. \A x, y \in S : y < x => <<y, x>> \in OpToRel(<, Nat)
  BY DEF OpToRel
<1>3. \E x \in S : \A y \in S : ~(y < x)
  BY <1>1, <1>2, Zenon
<1> QED BY <1>3

QueueType ==
  [state : States, last_pending_reported : SUBSET BOOLEAN, entries : Seq(Entries)]
LogType == [Keys -> Records]

Indices(qq) == 1 .. Len(qq.entries)

-----------------------------------------------------------------------------
(* The parts of the inductive invariant, for a queue qq and a history lg.   *)

\* The requests in the queue are those that are queued, each once.
Queued(qq, lg) ==
  /\ \A k \in Keys :
       lg[k].status = "queued" <=> \E i \in Indices(qq) : qq.entries[i].key = k
  /\ \A i, j \in Indices(qq) : qq.entries[i].key = qq.entries[j].key => i = j

\* An entry is what its request asked for.
Matches(qq, lg) ==
  \A i \in Indices(qq) :
    /\ qq.entries[i].indirect = lg[qq.entries[i].key].indirect
    /\ qq.entries[i].acknowledge_request = lg[qq.entries[i].key].ack

\* The payload p is what a successful request with history h may report.
Earned(p, h) == IF h.ack THEN p \in h.acks ELSE p = NoPayload

\* The result r may be reported for a request with history h.
Justified(r, h) ==
  /\ r.ok => h.sent /\ Earned(r.value, h)
  /\ ~r.ok /\ r.value \in {"SendFailure", "NoAck"} =>
       ~h.indirect /\ h.sends = MaxFrameRetries + 1

\* The exchange is the latest transmission, with history h, of the front entry;
\* a Sending state whose ack_requested is gone has the payload it will report.
Exchange(state, h) ==
  /\ state.tag = "Sending" =>
       /\ h.send_key = {state.send_key}
       /\ state.ack_requested \in {{}, h.seq}
       /\ state.ack_requested # {} => h.ack
       /\ state.ack_requested = {} => Earned(state.ack_payload, h)
  /\ state.tag = "WaitingForAck" => h.sent /\ h.ack /\ state.ack_requested = h.seq
  /\ state.tag = "HaveResult" => Justified(state.result, h)

Owned(qq, lg) ==
  qq.state.tag # "Idle" =>
    qq.entries # <<>> /\ Exchange(qq.state, lg[qq.entries[1].key])

Budget(qq, lg) ==
  \A i \in Indices(qq) : ~qq.entries[i].indirect =>
    lg[qq.entries[i].key].sends + qq.entries[i].retries_left =
      MaxFrameRetries + (IF i = 1 /\ qq.state.tag # "Idle" THEN 1 ELSE 0)

QueueInv(qq, lg) ==
  Queued(qq, lg) /\ Matches(qq, lg) /\ Owned(qq, lg) /\ Budget(qq, lg)

\* What was never queued was never sent, what was not reported has no result,
\* and every result that was reported was justified.
History(lg) ==
  \A k \in Keys :
    /\ lg[k].status = "new" => lg[k].sends = 0
    /\ lg[k].status # "reported" => lg[k].result = {}
    /\ \A r \in lg[k].result : Justified(r, lg[k])

IndInv == TypeOK /\ QueueInv(q, log) /\ History(log) /\ SleepMissesOnlyRetries

-----------------------------------------------------------------------------
(* What the operations on a queue do to its fields.                         *)

LEMMA StatesOf ==
  /\ \A b \in BOOLEAN : Idle(b) \in States /\ Idle(b).tag = "Idle" /\ Idle(b).datarequest = b
  /\ \A key \in Nat, a \in SUBSET Seqs, p \in Payloads :
       /\ Sending(key, a, p) \in States
       /\ Sending(key, a, p).tag = "Sending" /\ Sending(key, a, p).send_key = key
       /\ Sending(key, a, p).ack_requested = a /\ Sending(key, a, p).ack_payload = p
  /\ \A a \in SUBSET Seqs, b \in BOOLEAN :
       /\ WaitingForAck(a, b) \in States /\ WaitingForAck(a, b).tag = "WaitingForAck"
       /\ WaitingForAck(a, b).ack_requested = a /\ WaitingForAck(a, b).timeout = b
  /\ \A r \in Results : /\ HaveResult(r) \in States /\ HaveResult(r).tag = "HaveResult"
                        /\ HaveResult(r).result = r
<1>1. \A b \in BOOLEAN : Idle(b) \in States /\ Idle(b).tag = "Idle" /\ Idle(b).datarequest = b
  BY DEF Idle, States
<1>2. \A key \in Nat, a \in SUBSET Seqs, p \in Payloads :
       /\ Sending(key, a, p) \in States
       /\ Sending(key, a, p).tag = "Sending" /\ Sending(key, a, p).send_key = key
       /\ Sending(key, a, p).ack_requested = a /\ Sending(key, a, p).ack_payload = p
  BY DEF Sending, States
<1>3. \A a \in SUBSET Seqs, b \in BOOLEAN :
       /\ WaitingForAck(a, b) \in States /\ WaitingForAck(a, b).tag = "WaitingForAck"
       /\ WaitingForAck(a, b).ack_requested = a /\ WaitingForAck(a, b).timeout = b
  BY DEF WaitingForAck, States
<1>4. \A r \in Results : /\ HaveResult(r) \in States /\ HaveResult(r).tag = "HaveResult"
                        /\ HaveResult(r).result = r
  BY DEF HaveResult, States
<1> QED BY <1>1, <1>2, <1>3, <1>4

\* The fields a state of each kind has.
LEMMA StateFields ==
  ASSUME NEW state \in States
  PROVE  /\ state.tag \in {"Idle", "Sending", "WaitingForAck", "HaveResult"}
         /\ state.tag = "Idle" => state.datarequest \in BOOLEAN
         /\ state.tag = "Sending" =>
              /\ state.send_key \in Nat /\ state.ack_requested \in SUBSET Seqs
              /\ state.ack_payload \in Payloads
         /\ state.tag = "WaitingForAck" =>
              state.ack_requested \in SUBSET Seqs /\ state.timeout \in BOOLEAN
         /\ state.tag = "HaveResult" => state.result \in Results
  BY DEF States

LEMMA EntriesOf ==
  ASSUME NEW qq \in QueueType
  PROVE  /\ qq.entries \in Seq(Entries) /\ Len(qq.entries) \in Nat
         /\ qq.state \in States
         /\ qq.entries # <<>> <=> 1 \in Indices(qq)
         /\ \A i \in Indices(qq) :
              /\ qq.entries[i] \in Entries
              /\ qq.entries[i].key \in Keys /\ qq.entries[i].retries_left \in Nat
              /\ qq.entries[i].indirect \in BOOLEAN
              /\ qq.entries[i].acknowledge_request \in BOOLEAN
<1>1. qq.entries \in Seq(Entries) /\ qq.state \in States
  BY DEF QueueType
<1>2. Len(qq.entries) \in Nat /\ (qq.entries # <<>> <=> 1 \in Indices(qq))
  BY <1>1, EmptySeq DEF Indices
<1>3. \A i \in Indices(qq) : qq.entries[i] \in Entries
  BY <1>1, ElementOfSeq DEF Indices
<1>4. \A e \in Entries : /\ e.key \in Keys /\ e.retries_left \in Nat
                         /\ e.indirect \in BOOLEAN /\ e.acknowledge_request \in BOOLEAN
  BY DeviceQueueAssumption DEF Entries
<1> QED BY <1>1, <1>2, <1>3, <1>4

\* Entry i is gone, those behind it have moved up.
LEMMA DropShape ==
  ASSUME NEW qq \in QueueType, NEW i \in Indices(qq)
  PROVE  /\ Drop(qq, i) \in QueueType
         /\ Drop(qq, i).state = IF i = 1 THEN Idle(FALSE) ELSE qq.state
         /\ Drop(qq, i).last_pending_reported = qq.last_pending_reported
         /\ Len(Drop(qq, i).entries) = Len(qq.entries) - 1
         /\ \A j \in 1 .. Len(qq.entries) - 1 :
              Drop(qq, i).entries[j] = IF j < i THEN qq.entries[j] ELSE qq.entries[j + 1]
<1> DEFINE n == Len(qq.entries) - 1
           entries == [j \in 1 .. n |-> IF j < i THEN qq.entries[j] ELSE qq.entries[j + 1]]
           state == IF i = 1 THEN Idle(FALSE) ELSE qq.state
<1>1. qq.entries \in Seq(Entries) /\ n \in Nat /\ qq.state \in States
  BY DEF QueueType, Indices
<1>2. entries \in Seq(Entries) /\ Len(entries) = n
  <2>1. entries \in [1 .. n -> Entries]
    BY <1>1 DEF Indices
  <2> QED BY <2>1, <1>1
<1>3. state \in States
  BY <1>1, StatesOf
<1>4. Drop(qq, i) = [qq EXCEPT !.state = state, !.entries = entries]
  BY DEF Drop, StateWithout
<1> HIDE DEF entries, state, n
<1>5. /\ Drop(qq, i) \in QueueType /\ Drop(qq, i).state = state
      /\ Drop(qq, i).entries = entries
      /\ Drop(qq, i).last_pending_reported = qq.last_pending_reported
  BY <1>2, <1>3, <1>4 DEF QueueType
<1> QED BY <1>2, <1>5 DEF entries, n, state

\* The front entry loses a retry, unless it is indirect, and the exchange ends.
LEMMA BackToIdleShape ==
  ASSUME NEW qq \in QueueType, qq.entries # <<>>, CanRetry(qq)
  PROVE  /\ BackToIdle(qq) \in QueueType
         /\ BackToIdle(qq).state = Idle(FALSE)
         /\ BackToIdle(qq).last_pending_reported = qq.last_pending_reported
         /\ Len(BackToIdle(qq).entries) = Len(qq.entries)
         /\ \A j \in Indices(qq) : j # 1 => BackToIdle(qq).entries[j] = qq.entries[j]
         /\ BackToIdle(qq).entries[1] = UseRetry(qq.entries[1])
<1> DEFINE entry == UseRetry(qq.entries[1])
           entries == [qq.entries EXCEPT ![1] = entry]
<1>1. qq.entries \in Seq(Entries) /\ 1 \in Indices(qq) /\ qq.entries[1] \in Entries
  BY EntriesOf
<1>2. entry \in Entries
  <2>1. CASE qq.entries[1].indirect
    BY <1>1, <2>1 DEF UseRetry
  <2>2. CASE ~qq.entries[1].indirect
    <3>1. qq.entries[1].retries_left - 1 \in 0 .. MaxFrameRetries
      BY <1>1, <2>2, DeviceQueueAssumption DEF CanRetry, Entries
    <3> QED BY <1>1, <2>2, <3>1 DEF UseRetry, Entries
  <2> QED BY <2>1, <2>2
<1> HIDE DEF entry
<1>3. /\ entries \in Seq(Entries) /\ Len(entries) = Len(qq.entries)
      /\ \A j \in Indices(qq) : entries[j] = IF j = 1 THEN entry ELSE qq.entries[j]
  BY <1>1, <1>2, ExceptSeq DEF Indices
<1>4. BackToIdle(qq) = [qq EXCEPT !.state = Idle(FALSE), !.entries = entries]
  BY DEF BackToIdle, entry, QueueType
<1> HIDE DEF entries
<1>5. Idle(FALSE) \in States
  BY StatesOf
<1>6. /\ BackToIdle(qq) \in QueueType /\ BackToIdle(qq).state = Idle(FALSE)
      /\ BackToIdle(qq).entries = entries
      /\ BackToIdle(qq).last_pending_reported = qq.last_pending_reported
  BY <1>3, <1>4, <1>5 DEF QueueType
<1> QED BY <1>1, <1>3, <1>6 DEF entry

-----------------------------------------------------------------------------
(* The invariant of the queue under each kind of change.                    *)

\* An entry that is the same but for its timer.
SameEntry(e, f) ==
  /\ e.key = f.key /\ e.indirect = f.indirect
  /\ e.acknowledge_request = f.acknowledge_request /\ e.retries_left = f.retries_left

\* A history that is the same but for what came back from the radio.
SameRequest(g, h) ==
  /\ g.status = h.status /\ g.indirect = h.indirect /\ g.ack = h.ack /\ g.sends = h.sends

\* The exchange moves on, or a timer elapses; no entry comes or goes.
LEMMA ExchangeStep ==
  ASSUME NEW qq \in QueueType, NEW lg, QueueInv(qq, lg),
         NEW new \in QueueType, NEW lg2,
         Len(new.entries) = Len(qq.entries),
         \A i \in Indices(qq) : SameEntry(new.entries[i], qq.entries[i]),
         \A k \in Keys : SameRequest(lg2[k], lg[k]),
         new.state.tag = "Idle" <=> qq.state.tag = "Idle",
         Owned(new, lg2)
  PROVE  QueueInv(new, lg2)
<1>1. \A i \in Indices(qq) : qq.entries[i].key \in Keys
  BY EntriesOf
<1>2. Queued(new, lg2)
  BY DEF QueueInv, Queued, SameEntry, SameRequest, Indices
<1>3. Matches(new, lg2)
  BY <1>1 DEF QueueInv, Matches, SameEntry, SameRequest, Indices
<1>4. Budget(new, lg2)
  BY <1>1 DEF QueueInv, Budget, SameEntry, SameRequest, Indices
<1> QED BY <1>2, <1>3, <1>4 DEF QueueInv

\* A failed attempt that can be repeated.
LEMMA RetryStep ==
  ASSUME NEW qq \in QueueType, NEW lg \in LogType, QueueInv(qq, lg),
         qq.state.tag # "Idle", CanRetry(qq)
  PROVE  QueueInv(BackToIdle(qq), lg)
<1> DEFINE new == BackToIdle(qq)
<1>1. qq.entries # <<>>
  BY DEF QueueInv, Owned
<1>2. /\ new \in QueueType /\ new.state.tag = "Idle"
      /\ Len(new.entries) = Len(qq.entries)
      /\ \A j \in Indices(qq) : j # 1 => new.entries[j] = qq.entries[j]
      /\ new.entries[1] = UseRetry(qq.entries[1])
  BY <1>1, BackToIdleShape, StatesOf, ZenonT(60)
<1>3. /\ 1 \in Indices(qq)
      /\ \A i \in Indices(qq) : qq.entries[i] \in Entries
  BY <1>1, EntriesOf
<1> DEFINE entry == UseRetry(qq.entries[1])
<1>4. /\ entry.key = qq.entries[1].key /\ entry.indirect = qq.entries[1].indirect
      /\ entry.acknowledge_request = qq.entries[1].acknowledge_request
      /\ ~entry.indirect => entry.retries_left = qq.entries[1].retries_left - 1
  BY <1>3 DEF UseRetry, Entries
<1> HIDE DEF new, entry
<1>5. \A i \in Indices(qq) :
        /\ new.entries[i].key = qq.entries[i].key
        /\ new.entries[i].indirect = qq.entries[i].indirect
        /\ new.entries[i].acknowledge_request = qq.entries[i].acknowledge_request
  BY <1>2, <1>4 DEF entry
<1>6. Indices(new) = Indices(qq)
  BY <1>2 DEF Indices
<1>7. Queued(new, lg) /\ Matches(new, lg)
  BY <1>5, <1>6 DEF QueueInv, Queued, Matches
<1>8. Budget(new, lg)
  <2> SUFFICES ASSUME NEW i \in Indices(qq), ~new.entries[i].indirect
               PROVE  lg[new.entries[i].key].sends + new.entries[i].retries_left
                        = MaxFrameRetries
    BY <1>2, <1>6, DeviceQueueAssumption DEF Budget
  <2>1. qq.entries[i].key \in Keys /\ lg[qq.entries[i].key].sends \in Nat
        /\ qq.entries[i].retries_left \in Int
    BY <1>3 DEF LogType, Records, Entries
  <2>2. lg[qq.entries[i].key].sends + qq.entries[i].retries_left =
          MaxFrameRetries + (IF i = 1 THEN 1 ELSE 0)
    BY <1>5 DEF QueueInv, Budget
  <2>3. new.entries[i].retries_left = qq.entries[i].retries_left - (IF i = 1 THEN 1 ELSE 0)
    BY <1>2, <1>4, <1>5, <2>1 DEF entry
  <2>4. new.entries[i].key = qq.entries[i].key
    BY <1>5
  <2> QED BY <2>1, <2>2, <2>3, <2>4, DeviceQueueAssumption
<1> QED BY <1>2, <1>7, <1>8 DEF QueueInv, Owned, new

\* Entry i leaves the queue, and its request is no longer queued.
LEMMA DropStep ==
  ASSUME NEW qq \in QueueType, NEW lg \in LogType, QueueInv(qq, lg),
         NEW i \in Indices(qq), NEW lg2 \in LogType,
         lg2[qq.entries[i].key].status # "queued",
         \A k \in Keys : k # qq.entries[i].key => lg2[k] = lg[k]
  PROVE  QueueInv(Drop(qq, i), lg2)
<1> DEFINE new == Drop(qq, i)
           from(j) == IF j < i THEN j ELSE j + 1
<1>1. /\ new \in QueueType
      /\ new.state = IF i = 1 THEN Idle(FALSE) ELSE qq.state
      /\ Len(new.entries) = Len(qq.entries) - 1
      /\ \A j \in 1 .. Len(qq.entries) - 1 :
           new.entries[j] = IF j < i THEN qq.entries[j] ELSE qq.entries[j + 1]
  BY DropShape
<1>2. \A j \in Indices(qq) : qq.entries[j] \in Entries /\ qq.entries[j].key \in Keys
  BY EntriesOf
<1>3. Len(qq.entries) \in Nat
  BY EntriesOf
<1> HIDE DEF new
<1>4. \A j \in Indices(new) :
        from(j) \in Indices(qq) /\ from(j) # i /\ new.entries[j] = qq.entries[from(j)]
  BY <1>1, <1>3 DEF Indices
<1>5. \A j \in Indices(qq) : j # i => \E m \in Indices(new) : from(m) = j
  <2> SUFFICES ASSUME NEW j \in Indices(qq), j # i
               PROVE  \E m \in Indices(new) : from(m) = j
    OBVIOUS
  <2>1. CASE j < i
    <3>1. j \in Indices(new) /\ from(j) = j
      BY <2>1, <1>1, <1>3 DEF Indices
    <3> QED BY <3>1
  <2>2. CASE j > i
    <3>1. j - 1 \in Indices(new) /\ from(j - 1) = j
      BY <2>2, <1>1, <1>3 DEF Indices
    <3> QED BY <3>1
  <2> QED BY <2>1, <2>2, <1>3 DEF Indices
<1>6. \A j, m \in Indices(new) : from(j) = from(m) => j = m
  BY <1>1, <1>3 DEF Indices
<1>7. \A j \in Indices(qq) : j # i =>
        qq.entries[j].key # qq.entries[i].key /\ lg2[qq.entries[j].key] = lg[qq.entries[j].key]
  BY <1>2 DEF QueueInv, Queued
<1> HIDE DEF from
<1>8. Queued(new, lg2)
  <2>1. ASSUME NEW k \in Keys
        PROVE  lg2[k].status = "queued" <=> \E j \in Indices(new) : new.entries[j].key = k
    <3>1. CASE k = qq.entries[i].key
      BY <3>1, <1>4, <1>7
    <3>2. CASE k # qq.entries[i].key
      <4>1. lg2[k] = lg[k]
        BY <3>2
      <4>2. lg[k].status = "queued" <=> \E j \in Indices(qq) : qq.entries[j].key = k
        BY DEF QueueInv, Queued
      <4>3. (\E j \in Indices(qq) : qq.entries[j].key = k)
              <=> \E j \in Indices(new) : new.entries[j].key = k
        BY <3>2, <1>4, <1>5
      <4> QED BY <4>1, <4>2, <4>3
    <3> QED BY <3>1, <3>2
  <2>2. \A j, m \in Indices(new) : new.entries[j].key = new.entries[m].key => j = m
    BY <1>4, <1>6 DEF QueueInv, Queued
  <2> QED BY <2>1, <2>2 DEF Queued
<1>9. Matches(new, lg2)
  BY <1>4, <1>7 DEF QueueInv, Matches
<1>10. new.state.tag # "Idle" => i # 1 /\ new.state = qq.state
  BY <1>1, StatesOf, ZenonT(60)
<1>11. Owned(new, lg2)
  <2> SUFFICES ASSUME new.state.tag # "Idle"
               PROVE  new.entries # <<>> /\ Exchange(new.state, lg2[new.entries[1].key])
    BY DEF Owned
  <2>1. i # 1 /\ 1 \in Indices(new) /\ new.state = qq.state /\ from(1) = 1
    BY <1>1, <1>3, <1>10 DEF Indices, from
  <2>2. new.entries[1] = qq.entries[1] /\ lg2[new.entries[1].key] = lg[qq.entries[1].key]
    BY <2>1, <1>4, <1>7
  <2>3. new.entries # <<>>
    BY <2>1, <1>1, <1>3, EmptySeq DEF Indices, QueueType
  <2> QED BY <2>1, <2>2, <2>3 DEF QueueInv, Owned
<1>12. Budget(new, lg2)
  <2> SUFFICES ASSUME NEW j \in Indices(new), ~new.entries[j].indirect
               PROVE  lg2[new.entries[j].key].sends + new.entries[j].retries_left =
                        MaxFrameRetries
                          + (IF j = 1 /\ new.state.tag # "Idle" THEN 1 ELSE 0)
    BY DEF Budget
  <2> DEFINE m == from(j)
  <2>1. /\ m \in Indices(qq) /\ new.entries[j] = qq.entries[m]
        /\ lg2[new.entries[j].key] = lg[qq.entries[m].key]
    BY <1>4, <1>7
  <2>2. (j = 1 /\ new.state.tag # "Idle") <=> (m = 1 /\ qq.state.tag # "Idle")
    <3>1. j \in Nat /\ j >= 1 /\ i \in Nat /\ i >= 1
      BY <1>3 DEF Indices
    <3>2. CASE i = 1
      BY <3>1, <3>2, <1>10 DEF from
    <3>3. CASE i # 1
      BY <3>1, <3>3, <1>1 DEF from
    <3> QED BY <3>2, <3>3
  <2>3. lg[qq.entries[m].key].sends + qq.entries[m].retries_left =
          MaxFrameRetries + (IF m = 1 /\ qq.state.tag # "Idle" THEN 1 ELSE 0)
    BY <2>1 DEF QueueInv, Budget
  <2> HIDE DEF m
  <2> QED BY <2>1, <2>2, <2>3
<1> QED BY <1>8, <1>9, <1>11, <1>12 DEF QueueInv, new

\* A new request is put at the end of the queue.
LEMMA InsertStep ==
  ASSUME NEW qq \in QueueType, NEW lg \in LogType, QueueInv(qq, lg),
         NEW k \in Keys, lg[k].status = "new", lg[k].sends = 0,
         NEW indirect \in BOOLEAN, NEW ack \in BOOLEAN, NEW lg2 \in LogType,
         /\ lg2[k].status = "queued" /\ lg2[k].indirect = indirect /\ lg2[k].ack = ack
         /\ lg2[k].sends = 0,
         \A j \in Keys : j # k => lg2[j] = lg[j]
  PROVE  LET new == Insert(qq, Entry(k, indirect, ack, MaxFrameRetries))
         IN  new \in QueueType /\ QueueInv(new, lg2)
<1> DEFINE entry == Entry(k, indirect, ack, MaxFrameRetries)
           new == Insert(qq, entry)
           n == Len(qq.entries)
<1>1. /\ entry \in Entries /\ entry.key = k /\ entry.indirect = indirect
      /\ entry.acknowledge_request = ack /\ entry.retries_left = MaxFrameRetries
  BY DeviceQueueAssumption DEF Entry, Entries
<1> HIDE DEF entry
<1>2. \A i \in Indices(qq) : qq.entries[i].key # k
  BY DEF QueueInv, Queued
<1>3. new = [qq EXCEPT !.entries = Append(qq.entries, entry)]
  BY <1>1, <1>2 DEF Insert, Contains, Positions, Indices
<1>4. qq.entries \in Seq(Entries) /\ n \in Nat
  BY EntriesOf
<1>5. /\ Append(qq.entries, entry) \in Seq(Entries)
      /\ Len(Append(qq.entries, entry)) = n + 1
      /\ \A i \in Indices(qq) : Append(qq.entries, entry)[i] = qq.entries[i]
      /\ Append(qq.entries, entry)[n + 1] = entry
  BY <1>1, <1>4, AppendProperties DEF Indices
<1>6. /\ new \in QueueType /\ new.state = qq.state
      /\ new.entries = Append(qq.entries, entry)
  BY <1>3, <1>5 DEF QueueType
<1>7. /\ Len(new.entries) = n + 1
      /\ \A i \in Indices(qq) : new.entries[i] = qq.entries[i]
      /\ new.entries[n + 1] = entry
  BY <1>5, <1>6
<1>8. /\ Indices(new) = Indices(qq) \cup {n + 1}
      /\ n + 1 \notin Indices(qq)
  BY <1>4, <1>7 DEF Indices
<1> HIDE DEF new, n
<1>9. \A i \in Indices(qq) :
        /\ qq.entries[i].key \in Keys
        /\ lg2[qq.entries[i].key] = lg[qq.entries[i].key]
  BY <1>2, EntriesOf
<1>10. Queued(new, lg2)
  <2>1. ASSUME NEW j \in Keys
        PROVE  lg2[j].status = "queued" <=> \E i \in Indices(new) : new.entries[i].key = j
    <3>1. CASE j = k
      BY <3>1, <1>1, <1>7, <1>8
    <3>2. CASE j # k
      <4>1. lg[j].status = "queued" <=> \E i \in Indices(qq) : qq.entries[i].key = j
        BY DEF QueueInv, Queued
      <4> QED BY <3>2, <4>1, <1>1, <1>7, <1>8
    <3> QED BY <3>1, <3>2
  <2>2. \A i, j \in Indices(new) : new.entries[i].key = new.entries[j].key => i = j
    BY <1>1, <1>2, <1>7, <1>8 DEF QueueInv, Queued
  <2> QED BY <2>1, <2>2 DEF Queued
<1>11. Matches(new, lg2)
  BY <1>1, <1>7, <1>8, <1>9 DEF QueueInv, Matches
<1>12. Owned(new, lg2)
  <2> SUFFICES ASSUME new.state.tag # "Idle"
               PROVE  new.entries # <<>> /\ Exchange(new.state, lg2[new.entries[1].key])
    BY DEF Owned
  <2>1. qq.entries # <<>> /\ Exchange(qq.state, lg[qq.entries[1].key])
    BY <1>6 DEF QueueInv, Owned
  <2>2. 1 \in Indices(qq) /\ 1 \in Indices(new)
    BY <2>1, <1>8, EntriesOf
  <2>3. new.entries # <<>>
    BY <2>2, <1>6, EntriesOf
  <2> QED BY <2>1, <2>2, <2>3, <1>6, <1>7, <1>9
<1>13. Budget(new, lg2)
  <2> SUFFICES ASSUME NEW i \in Indices(new), ~new.entries[i].indirect
               PROVE  lg2[new.entries[i].key].sends + new.entries[i].retries_left =
                        MaxFrameRetries
                          + (IF i = 1 /\ new.state.tag # "Idle" THEN 1 ELSE 0)
    BY DEF Budget
  <2>1. CASE i \in Indices(qq)
    <3>1. lg[qq.entries[i].key].sends + qq.entries[i].retries_left =
            MaxFrameRetries + (IF i = 1 /\ qq.state.tag # "Idle" THEN 1 ELSE 0)
      BY <2>1, <1>7 DEF QueueInv, Budget
    <3> QED BY <2>1, <3>1, <1>6, <1>7, <1>9
  <2>2. CASE i = n + 1
    <3>1. lg2[new.entries[i].key].sends = 0 /\ new.entries[i].retries_left = MaxFrameRetries
      BY <2>2, <1>1, <1>7
    <3>2. ~(i = 1 /\ new.state.tag # "Idle")
      <4>1. qq.state.tag # "Idle" => 1 \in Indices(qq)
        BY EntriesOf DEF QueueInv, Owned
      <4> QED BY <2>2, <4>1, <1>6, <1>8
    <3> QED BY <3>1, <3>2, DeviceQueueAssumption
  <2> QED BY <2>1, <2>2, <1>8
<1> QED BY <1>6, <1>10, <1>11, <1>12, <1>13 DEF QueueInv, new, entry

\* The history of a request whose frame is handed to the radio.
Transmitted(h, send_key, seq) ==
  [h EXCEPT !.sends = @ + 1, !.send_key = {send_key}, !.seq = {seq},
            !.sent = FALSE, !.acks = {}]

LEMMA TransmittedShape ==
  ASSUME NEW h \in Records, NEW send_key \in Nat, NEW seq \in Seqs
  PROVE  LET g == Transmitted(h, send_key, seq)
         IN  /\ g \in Records /\ g.status = h.status /\ g.indirect = h.indirect
             /\ g.ack = h.ack /\ g.result = h.result /\ g.sends = h.sends + 1
             /\ g.send_key = {send_key} /\ g.seq = {seq}
<1> DEFINE n == h.sends + 1
           keys == {send_key}
           seqs == {seq}
<1>1. n \in Nat /\ keys \in SUBSET Nat /\ seqs \in SUBSET Seqs
  BY DEF Records
<1>2. Transmitted(h, send_key, seq) =
        [h EXCEPT !.sends = n, !.send_key = keys, !.seq = seqs, !.sent = FALSE, !.acks = {}]
  BY DEF Transmitted, Records
<1> HIDE DEF n, keys, seqs
<1>3. Transmitted(h, send_key, seq) =
        [status |-> h.status, indirect |-> h.indirect, ack |-> h.ack, result |-> h.result,
         sends |-> n, send_key |-> keys, seq |-> seqs, sent |-> FALSE, acks |-> {}]
  BY <1>2 DEF Records
<1>4. Transmitted(h, send_key, seq) \in Records
  BY <1>1, <1>3 DEF Records
<1> QED BY <1>3, <1>4 DEF n, keys, seqs

\* The front entry's frame is handed to the radio.
LEMMA SendStep ==
  ASSUME NEW qq \in QueueType, NEW lg \in LogType, QueueInv(qq, lg),
         qq.entries # <<>>, ShouldSend(qq), NEW send_key \in Nat, NEW seq \in Seqs,
         NEW asked, asked = IF qq.entries[1].acknowledge_request THEN {seq} ELSE {},
         NEW lg2, lg2 = [lg EXCEPT ![qq.entries[1].key] = Transmitted(@, send_key, seq)]
  PROVE  LET new == [qq EXCEPT !.state = Sending(send_key, asked, NoPayload)]
         IN  new \in QueueType /\ QueueInv(new, lg2) /\ lg2 \in LogType
<1> DEFINE new == [qq EXCEPT !.state = Sending(send_key, asked, NoPayload)]
           front == qq.entries[1].key
           state == Sending(send_key, asked, NoPayload)
           g == Transmitted(lg[front], send_key, seq)
<1>1. /\ 1 \in Indices(qq)
      /\ \A i \in Indices(qq) : qq.entries[i].key \in Keys /\ qq.entries[i].retries_left \in Nat
      /\ qq.entries[1].acknowledge_request \in BOOLEAN
  BY EntriesOf
<1>2. /\ state \in States /\ state.tag = "Sending" /\ state.send_key = send_key
      /\ state.ack_requested = asked /\ state.ack_payload = NoPayload
  <2>1. asked \in SUBSET Seqs
    OBVIOUS
  <2> QED BY <2>1, StatesOf, DeviceQueueAssumption
<1>3. lg[front] \in Records
  BY <1>1 DEF LogType
<1>4. /\ g \in Records /\ g.status = lg[front].status /\ g.indirect = lg[front].indirect
      /\ g.ack = lg[front].ack /\ g.sends = lg[front].sends + 1
      /\ g.send_key = {send_key} /\ g.seq = {seq}
  BY <1>3, TransmittedShape
<1> HIDE DEF state, g
<1>5. /\ new \in QueueType /\ new.state = state /\ new.entries = qq.entries
  BY <1>2 DEF QueueType, state
<1>6. /\ lg2 \in LogType /\ lg2[front] = g
      /\ \A k \in Keys : k # front => lg2[k] = lg[k]
  BY <1>1, <1>4 DEF LogType, g
<1> HIDE DEF new
<1>7. Indices(new) = Indices(qq)
  BY <1>5 DEF Indices
<1>8. \A i \in Indices(qq) : i # 1 => lg2[qq.entries[i].key] = lg[qq.entries[i].key]
  BY <1>1, <1>6 DEF QueueInv, Queued
<1>9. Queued(new, lg2)
  <2>1. \A k \in Keys : lg2[k].status = lg[k].status
    BY <1>4, <1>6
  <2> QED BY <2>1, <1>5, <1>7 DEF QueueInv, Queued
<1>10. Matches(new, lg2)
  <2> SUFFICES ASSUME NEW i \in Indices(qq)
               PROVE  /\ qq.entries[i].indirect = lg2[qq.entries[i].key].indirect
                      /\ qq.entries[i].acknowledge_request = lg2[qq.entries[i].key].ack
    BY <1>5, <1>7 DEF Matches
  <2>1. /\ qq.entries[i].indirect = lg[qq.entries[i].key].indirect
        /\ qq.entries[i].acknowledge_request = lg[qq.entries[i].key].ack
    BY DEF QueueInv, Matches
  <2>2. CASE i = 1
    BY <1>4, <1>6, <2>1, <2>2
  <2>3. CASE i # 1
    BY <1>8, <2>1, <2>3
  <2> QED BY <2>2, <2>3
<1>11. Exchange(state, g)
  <2>1. qq.entries[1].acknowledge_request = g.ack
    BY <1>1, <1>4 DEF QueueInv, Matches
  <2>2. CASE g.ack
    <3>1. asked = {seq}
      BY <2>1, <2>2
    <3> QED BY <2>2, <3>1, <1>2, <1>4 DEF Exchange
  <2>3. CASE ~g.ack
    <3>1. asked = {}
      BY <2>1, <2>3
    <3> QED BY <2>3, <3>1, <1>2, <1>4 DEF Exchange, Earned
  <2> QED BY <2>2, <2>3
<1>12. Owned(new, lg2)
  BY <1>5, <1>6, <1>11 DEF Owned
<1>13. Budget(new, lg2)
  <2> SUFFICES ASSUME NEW i \in Indices(qq), ~qq.entries[i].indirect
               PROVE  lg2[qq.entries[i].key].sends + qq.entries[i].retries_left =
                        MaxFrameRetries + (IF i = 1 THEN 1 ELSE 0)
    BY <1>2, <1>5, <1>7 DEF Budget
  <2>1. lg[qq.entries[i].key].sends + qq.entries[i].retries_left = MaxFrameRetries + 0
    BY DEF QueueInv, Budget, ShouldSend
  <2>2. lg[qq.entries[i].key].sends \in Nat /\ qq.entries[i].retries_left \in Nat
    BY <1>1 DEF LogType, Records
  <2>3. CASE i = 1
    BY <2>1, <2>2, <2>3, <1>4, <1>6, DeviceQueueAssumption
  <2>4. CASE i # 1
    BY <2>1, <2>2, <2>4, <1>8, DeviceQueueAssumption
  <2> QED BY <2>3, <2>4
<1> QED BY <1>5, <1>6, <1>9, <1>10, <1>12, <1>13 DEF QueueInv, new, state

-----------------------------------------------------------------------------
(* What comes back from the radio only adds to a history.                   *)
Grown(g, h) ==
  /\ SameRequest(g, h) /\ g.result = h.result
  /\ g.send_key = h.send_key /\ g.seq = h.seq
  /\ h.sent => g.sent
  /\ h.acks \subseteq g.acks

LEMMA GrownJustified ==
  ASSUME NEW g, NEW h, Grown(g, h), NEW r, Justified(r, h)
  PROVE  Justified(r, g)
  BY DEF Grown, SameRequest, Justified, Earned

LEMMA GrownExchange ==
  ASSUME NEW g, NEW h, Grown(g, h), NEW state, Exchange(state, h)
  PROVE  Exchange(state, g)
  BY GrownJustified DEF Grown, SameRequest, Exchange, Earned

LEMMA GrownHistory ==
  ASSUME NEW lg, NEW lg2, History(lg), \A k \in Keys : Grown(lg2[k], lg[k])
  PROVE  History(lg2)
<1>1. \A k \in Keys : \A r \in lg2[k].result : Justified(r, lg2[k])
  BY GrownJustified DEF History, Grown
<1> QED BY <1>1 DEF History, Grown, SameRequest

\* The exchange is untouched while the history grows.
LEMMA GrownStep ==
  ASSUME NEW qq \in QueueType, NEW lg, QueueInv(qq, lg), NEW lg2,
         \A k \in Keys : Grown(lg2[k], lg[k])
  PROVE  QueueInv(qq, lg2)
<1>1. Owned(qq, lg2)
  <2> SUFFICES ASSUME qq.state.tag # "Idle"
               PROVE  qq.entries # <<>> /\ Exchange(qq.state, lg2[qq.entries[1].key])
    BY DEF Owned
  <2>1. qq.entries # <<>> /\ Exchange(qq.state, lg[qq.entries[1].key])
    BY DEF QueueInv, Owned
  <2>2. qq.entries[1].key \in Keys
    BY <2>1, EntriesOf
  <2> QED BY <2>1, <2>2, GrownExchange
<1>2. \A k \in Keys : SameRequest(lg2[k], lg[k])
  BY DEF Grown
<1>3. \A i \in Indices(qq) : SameEntry(qq.entries[i], qq.entries[i])
  BY DEF SameEntry
<1> QED BY <1>1, <1>2, <1>3, ExchangeStep

-----------------------------------------------------------------------------
(* The steps of the specification.                                          *)

LEMMA Types ==
  ASSUME TypeOK
  PROVE  /\ q \in QueueType /\ log \in LogType /\ mac_dsn \in Seqs /\ next_key \in Nat
         /\ in_flight \in SUBSET Nat /\ datarequests \in Nat
         /\ \A k \in Keys : log[k] \in Records
  BY DEF TypeOK, QueueType, LogType

\* After an input or a timer the task is awake.
LEMMA AwakeKeepsInv ==
  ASSUME q' \in QueueType, log' \in LogType, mac_dsn' \in Seqs, next_key' \in Nat,
         in_flight' \in SUBSET Nat, datarequests' \in Nat, asleep' = FALSE,
         QueueInv(q', log'), History(log')
  PROVE  IndInv'
<1>1. TypeOK'
  BY DEF TypeOK, QueueType, LogType
<1>2. SleepMissesOnlyRetries'
  BY DEF SleepMissesOnlyRetries
<1> QED BY <1>1, <1>2 DEF IndInv

LEMMA InitInv == Init => IndInv
<1> SUFFICES ASSUME Init PROVE IndInv
  OBVIOUS
<1>1. /\ New \in QueueType /\ New.state.tag = "Idle" /\ New.entries = <<>>
  <2>1. Idle(FALSE) \in States /\ Idle(FALSE).tag = "Idle"
    BY StatesOf
  <2>2. <<>> \in Seq(Entries)
    OBVIOUS
  <2> QED BY <2>1, <2>2 DEF New, QueueType
<1>2. /\ Fresh \in Records /\ Fresh.status = "new" /\ Fresh.result = {} /\ Fresh.sends = 0
  BY DEF Fresh, Records
<1>3. log = [k \in Keys |-> Fresh] /\ q = New
  BY DEF Init
<1>4. log \in LogType /\ \A k \in Keys : log[k] = Fresh
  BY <1>2, <1>3 DEF LogType
<1>5. TypeOK
  BY <1>1, <1>3, <1>4, DeviceQueueAssumption DEF Init, TypeOK, QueueType, LogType
<1>6. Indices(q) = {} /\ q.state.tag = "Idle" /\ q.entries = <<>>
  BY <1>1, <1>3 DEF Indices
<1>7. QueueInv(q, log)
  BY <1>2, <1>4, <1>6 DEF QueueInv, Queued, Matches, Owned, Budget
<1>8. History(log)
  BY <1>2, <1>4 DEF History
<1>9. SleepMissesOnlyRetries
  BY <1>6 DEF SleepMissesOnlyRetries
<1> QED BY <1>5, <1>7, <1>8, <1>9 DEF IndInv

LEMMA InsertKeepsInv ==
  ASSUME IndInv, NEW k \in Keys, NEW indirect \in BOOLEAN, NEW ack \in BOOLEAN,
         InsertRequest(k, indirect, ack)
  PROVE  IndInv'
<1> DEFINE entry == Entry(k, indirect, ack, MaxFrameRetries)
<1>1. /\ q \in QueueType /\ log \in LogType /\ QueueInv(q, log) /\ History(log)
      /\ mac_dsn' \in Seqs /\ next_key' \in Nat /\ in_flight' \in SUBSET Nat
      /\ datarequests' \in Nat /\ asleep' = FALSE /\ log[k] \in Records
      /\ q' = Insert(q, entry)
  BY Types DEF IndInv, InsertRequest, Input
<1>2. CASE log[k].status = "queued"
  <2>1. Contains(q, entry.key)
    BY <1>1, <1>2 DEF QueueInv, Queued, Contains, Positions, Entry, Indices
  <2>2. q' = q /\ log' = log
    BY <1>1, <1>2, <2>1 DEF Insert, InsertRequest
  <2> QED BY <1>1, <2>2, AwakeKeepsInv
<1>3. CASE log[k].status = "new"
  <2> DEFINE h == [log[k] EXCEPT !.status = "queued", !.indirect = indirect, !.ack = ack]
  <2>1. log[k].sends = 0 /\ log[k].result = {}
    BY <1>1, <1>3 DEF History
  <2>2. /\ h \in Records /\ h.status = "queued" /\ h.indirect = indirect /\ h.ack = ack
        /\ h.sends = 0 /\ h.result = {}
    BY <1>1, <2>1 DEF Records
  <2>3. log' = [log EXCEPT ![k] = h]
    BY <1>1, <1>3 DEF InsertRequest, LogType, Records
  <2> HIDE DEF h
  <2>4. log' \in LogType /\ log'[k] = h /\ \A j \in Keys : j # k => log'[j] = log[j]
    BY <1>1, <2>2, <2>3 DEF LogType
  <2>5. q' \in QueueType /\ QueueInv(q', log')
    BY <1>1, <1>3, <2>1, <2>2, <2>4, InsertStep
  <2>6. History(log')
    BY <1>1, <2>2, <2>4 DEF History
  <2> QED BY <1>1, <2>4, <2>5, <2>6, AwakeKeepsInv
<1> QED BY <1>2, <1>3 DEF InsertRequest

LEMMA RemoveKeepsInv ==
  ASSUME IndInv, NEW k \in Keys, RemoveRequest(k)
  PROVE  IndInv'
<1>1. /\ q \in QueueType /\ log \in LogType /\ QueueInv(q, log) /\ History(log)
      /\ mac_dsn' \in Seqs /\ next_key' \in Nat /\ in_flight' \in SUBSET Nat
      /\ datarequests' \in Nat /\ asleep' = FALSE /\ log[k] \in Records
      /\ q' = Remove(q, k)
  BY Types DEF IndInv, RemoveRequest, Input
<1>2. CASE log[k].status # "queued"
  <2>1. ~Contains(q, k)
    BY <1>1, <1>2 DEF QueueInv, Queued, Contains, Positions, Indices
  <2>2. q' = q /\ log' = log
    BY <1>1, <1>2, <2>1 DEF Remove, RemoveRequest
  <2> QED BY <1>1, <2>2, AwakeKeepsInv
<1>3. CASE log[k].status = "queued"
  <2> DEFINE i == CHOOSE i \in Positions(q, k) : TRUE
             h == [log[k] EXCEPT !.status = "removed"]
  <2>1. Positions(q, k) # {}
    BY <1>1, <1>3 DEF QueueInv, Queued, Positions, Indices
  <2>2. i \in Indices(q) /\ q.entries[i].key = k
    BY <2>1 DEF Positions, Indices
  <2>3. q' = Drop(q, i)
    BY <1>1, <2>1 DEF Remove, Contains
  <2> HIDE DEF i
  <2>4. log[k].result = {}
    BY <1>1, <1>3 DEF History
  <2>5. h \in Records /\ h.status = "removed" /\ h.result = {}
    BY <1>1, <2>4 DEF Records
  <2>6. log' = [log EXCEPT ![k] = h]
    BY <1>1, <1>3 DEF RemoveRequest, LogType
  <2> HIDE DEF h
  <2>7. log' \in LogType /\ log'[k] = h /\ \A j \in Keys : j # k => log'[j] = log[j]
    BY <1>1, <2>5, <2>6 DEF LogType
  <2>8. q' \in QueueType
    BY <1>1, <2>2, <2>3, DropShape
  <2>9. QueueInv(q', log')
    BY <1>1, <2>2, <2>3, <2>5, <2>7, DropStep
  <2>10. History(log')
    BY <1>1, <2>5, <2>7 DEF History
  <2> QED BY <1>1, <2>7, <2>8, <2>9, <2>10, AwakeKeepsInv
<1> QED BY <1>2, <1>3

\* A queue that differs from q in its state only.
LEMMA WithState ==
  ASSUME NEW qq \in QueueType, NEW state \in States
  PROVE  LET new == [qq EXCEPT !.state = state]
         IN  /\ new \in QueueType /\ new.state = state /\ new.entries = qq.entries
             /\ new.last_pending_reported = qq.last_pending_reported
  BY DEF QueueType

\* A step of the exchange: the state moves on and the history grows.
LEMMA StateStep ==
  ASSUME NEW qq \in QueueType, NEW lg, QueueInv(qq, lg), NEW state \in States, NEW lg2,
         \A k \in Keys : Grown(lg2[k], lg[k]),
         state.tag = "Idle" <=> qq.state.tag = "Idle",
         state.tag # "Idle" => Exchange(state, lg2[qq.entries[1].key])
  PROVE  QueueInv([qq EXCEPT !.state = state], lg2)
<1> DEFINE new == [qq EXCEPT !.state = state]
<1>1. new \in QueueType /\ new.state = state /\ new.entries = qq.entries
  BY WithState
<1> HIDE DEF new
<1>2. Owned(new, lg2)
  BY <1>1 DEF QueueInv, Owned
<1>3. \A i \in Indices(qq) : SameEntry(new.entries[i], qq.entries[i])
  BY <1>1 DEF SameEntry
<1>4. \A k \in Keys : SameRequest(lg2[k], lg[k])
  BY DEF Grown
<1>5. QueueInv(new, lg2)
  BY <1>1, <1>2, <1>3, <1>4, ExchangeStep
<1> QED BY <1>5 DEF new

LEMMA GrownReflexive == \A h : Grown(h, h)
  BY DEF Grown, SameRequest

LEMMA DataRequestKeepsInv ==
  ASSUME IndInv, ReceiveDataRequest
  PROVE  IndInv'
<1>1. /\ q \in QueueType /\ log \in LogType /\ QueueInv(q, log) /\ History(log)
      /\ mac_dsn' \in Seqs /\ next_key' \in Nat /\ in_flight' \in SUBSET Nat
      /\ datarequests' \in Nat /\ asleep' = FALSE /\ log' = log
  BY Types DEF IndInv, ReceiveDataRequest, Input
<1>2. CASE q' = q
  BY <1>1, <1>2, AwakeKeepsInv
<1>3. CASE q.state.tag = "Idle" /\ q' = [q EXCEPT !.state = Idle(TRUE)]
  <2>1. Idle(TRUE) \in States /\ Idle(TRUE).tag = "Idle"
    BY StatesOf
  <2>2. q' \in QueueType
    BY <1>1, <1>3, <2>1, WithState
  <2>3. QueueInv(q', log')
    BY <1>1, <1>3, <2>1, StateStep, GrownReflexive
  <2> QED BY <1>1, <2>2, <2>3, AwakeKeepsInv
<1> QED BY <1>2, <1>3 DEF ReceiveDataRequest, ProcessDataRequest

\* A direct request without retries left, in an exchange, has used them all.
LEMMA Exhausted ==
  ASSUME NEW qq \in QueueType, NEW lg \in LogType, QueueInv(qq, lg),
         qq.state.tag # "Idle", ~CanRetry(qq)
  PROVE  /\ ~lg[qq.entries[1].key].indirect
         /\ lg[qq.entries[1].key].sends = MaxFrameRetries + 1
<1>1. 1 \in Indices(qq)
  BY EntriesOf DEF QueueInv, Owned
<1>2. /\ qq.entries[1].retries_left \in Nat /\ qq.entries[1].key \in Keys
  BY <1>1, EntriesOf
<1>3. ~qq.entries[1].indirect /\ qq.entries[1].retries_left = 0
  BY <1>2 DEF CanRetry
<1>4. lg[qq.entries[1].key].sends \in Nat
  BY <1>2 DEF LogType, Records
<1>5. lg[qq.entries[1].key].sends + qq.entries[1].retries_left = MaxFrameRetries + 1
  BY <1>1, <1>3 DEF QueueInv, Budget
<1>6. ~lg[qq.entries[1].key].indirect
  BY <1>1, <1>3 DEF QueueInv, Matches
<1> QED BY <1>3, <1>4, <1>5, <1>6, DeviceQueueAssumption

LEMMA ErrorResults ==
  \A e \in DeviceQueueError :
    /\ Err(e) \in Results /\ Err(e).ok = FALSE /\ Err(e).value = e
  BY DEF Err, Results

LEMMA OkResults ==
  \A p \in Payloads : /\ Ok(p) \in Results /\ Ok(p).ok = TRUE /\ Ok(p).value = p
  BY DEF Ok, Results

LEMMA SendResultKeepsInv ==
  ASSUME IndInv, NEW send_key \in in_flight, NEW success \in BOOLEAN,
         SendResult(send_key, success)
  PROVE  IndInv'
<1> DEFINE front == q.entries[1].key
<1>1. /\ q \in QueueType /\ log \in LogType /\ QueueInv(q, log) /\ History(log)
      /\ mac_dsn' \in Seqs /\ next_key' \in Nat /\ in_flight' \in SUBSET Nat
      /\ datarequests' \in Nat /\ asleep' = FALSE
      /\ \A k \in Keys : log[k] \in Records
      /\ q' = ProcessSendResult(q, send_key, success)
  BY Types DEF IndInv, SendResult, Input
<1>2. /\ log' \in LogType
      /\ \A k \in Keys : log'[k] = IF log[k].send_key = {send_key} /\ success
                                   THEN [log[k] EXCEPT !.sent = TRUE] ELSE log[k]
  <2>1. \A h \in Records : [h EXCEPT !.sent = TRUE] \in Records
    BY DEF Records
  <2> QED BY <1>1, <2>1 DEF SendResult, LogType
<1>3. \A k \in Keys : Grown(log'[k], log[k])
  BY <1>1, <1>2, ZenonT(60) DEF Grown, SameRequest, Records
<1>4. History(log')
  BY <1>1, <1>3, GrownHistory
<1>5. CASE ~ResultIsOurs(q, send_key)
  <2>1. q' = q
    BY <1>1, <1>5 DEF ProcessSendResult
  <2>2. QueueInv(q', log')
    BY <2>1, <1>1, <1>3, GrownStep
  <2> QED BY <2>1, <2>2, <1>1, <1>2, <1>4, AwakeKeepsInv
<1>6. ASSUME ResultIsOurs(q, send_key)
      PROVE  /\ q.state.tag = "Sending" /\ q.entries # <<>> /\ front \in Keys
             /\ q.state \in States
             /\ q.state.ack_requested \in SUBSET Seqs /\ q.state.ack_payload \in Payloads
             /\ log[front].send_key = {send_key}
             /\ q.state.ack_requested \in {{}, log[front].seq}
             /\ q.state.ack_requested # {} => log[front].ack
             /\ q.state.ack_requested = {} => Earned(q.state.ack_payload, log[front])
  <2>1. q.state.tag = "Sending" /\ q.state.send_key = send_key
    BY <1>6 DEF ResultIsOurs
  <2>2. q.entries # <<>> /\ Exchange(q.state, log[front])
    BY <2>1, <1>1 DEF QueueInv, Owned
  <2>3. front \in Keys /\ q.state \in States
    BY <2>2, <1>1, EntriesOf
  <2> QED BY <2>1, <2>2, <2>3, StateFields DEF Exchange
<1>7. CASE ResultIsOurs(q, send_key) /\ success
  <2> DEFINE state == AfterSend(q.state)
  <2>1. q' = [q EXCEPT !.state = state]
    BY <1>1, <1>7 DEF ProcessSendResult, QueueType
  <2>2. /\ log'[front].sent /\ log'[front].ack = log[front].ack
        /\ log'[front].seq = log[front].seq /\ log'[front].acks = log[front].acks
    BY <1>1, <1>2, <1>6, <1>7, ZenonT(60) DEF Records
  <2>3. state \in States /\ state.tag # "Idle" /\ Exchange(state, log'[front])
    <3>1. CASE q.state.ack_requested # {}
      <4>1. state = WaitingForAck(q.state.ack_requested, FALSE)
        BY <3>1 DEF AfterSend
      <4> HIDE DEF state
      <4>2. /\ state \in States /\ state.tag = "WaitingForAck"
            /\ state.ack_requested = q.state.ack_requested
        <5>1. q.state.ack_requested \in SUBSET Seqs
          BY <1>6, <1>7
        <5> QED BY <4>1, <5>1, StatesOf
      <4>3. q.state.ack_requested = log[front].seq /\ log[front].ack
        BY <3>1, <1>6, <1>7
      <4> QED BY <4>2, <4>3, <2>2 DEF Exchange
    <3>2. CASE q.state.ack_requested = {}
      <4> DEFINE payload == q.state.ack_payload
      <4>1. state = HaveResult(Ok(payload)) /\ payload \in Payloads
        BY <3>2, <1>6, <1>7 DEF AfterSend
      <4>2. Ok(payload) \in Results /\ Ok(payload).ok = TRUE /\ Ok(payload).value = payload
        BY <4>1, OkResults
      <4>3. state \in States /\ state.tag = "HaveResult" /\ state.result = Ok(payload)
        BY <4>1, <4>2, StatesOf
      <4>4. Earned(payload, log'[front])
        BY <3>2, <1>6, <1>7, <2>2 DEF Earned
      <4>5. Justified(Ok(payload), log'[front])
        BY <4>2, <4>4, <2>2 DEF Justified
      <4> QED BY <4>3, <4>5 DEF Exchange
    <3> QED BY <3>1, <3>2
  <2> HIDE DEF state
  <2>4. q' \in QueueType
    BY <1>1, <2>1, <2>3, WithState
  <2>5. QueueInv(q', log')
    <3>1. state.tag = "Idle" <=> q.state.tag = "Idle"
      BY <1>6, <1>7, <2>3
    <3> QED BY <1>1, <1>3, <2>1, <2>3, <3>1, StateStep
  <2> QED BY <2>4, <2>5, <1>1, <1>2, <1>4, AwakeKeepsInv
<1>8. CASE ResultIsOurs(q, send_key) /\ ~success
  <2>1. log' = log
    BY <1>1, <1>2, <1>8 DEF LogType
  <2>2. CASE CanRetry(q)
    <3>1. q' = BackToIdle(q)
      BY <1>1, <1>6, <1>8, <2>2 DEF ProcessSendResult
    <3>2. q' \in QueueType
      BY <3>1, <1>1, <1>6, <1>8, <2>2, BackToIdleShape
    <3>3. QueueInv(q', log')
      BY <3>1, <2>1, <1>1, <1>6, <1>8, <2>2, RetryStep
    <3> QED BY <3>2, <3>3, <1>1, <1>2, <1>4, AwakeKeepsInv
  <2>3. CASE ~CanRetry(q)
    <3> DEFINE error == Err("SendFailure")
    <3>1. q' = [q EXCEPT !.state = HaveResult(error)]
      BY <1>1, <1>6, <1>8, <2>3 DEF ProcessSendResult
    <3>2. error \in Results /\ error.ok = FALSE /\ error.value = "SendFailure"
      BY ErrorResults DEF DeviceQueueError
    <3> HIDE DEF error
    <3>3. /\ HaveResult(error) \in States /\ HaveResult(error).tag = "HaveResult"
          /\ HaveResult(error).result = error
      BY <3>2, StatesOf
    <3>4. Justified(error, log[front])
      BY <3>2, <1>1, <1>6, <1>8, <2>3, Exhausted DEF Justified
    <3>5. Exchange(HaveResult(error), log[front])
      BY <3>3, <3>4 DEF Exchange
    <3>6. q' \in QueueType
      BY <1>1, <3>1, <3>3, WithState
    <3>7. QueueInv(q', log')
      BY <1>1, <1>6, <1>8, <2>1, <3>1, <3>3, <3>5, StateStep, GrownReflexive
    <3> QED BY <3>6, <3>7, <1>1, <1>2, <1>4, AwakeKeepsInv
  <2> QED BY <2>2, <2>3
<1> QED BY <1>5, <1>7, <1>8

LEMMA AckKeepsInv ==
  ASSUME IndInv, NEW seq_nr, NEW payload \in Payloads, ReceiveAck(seq_nr, payload)
  PROVE  IndInv'
<1> DEFINE front == q.entries[1].key
<1>1. /\ q \in QueueType /\ log \in LogType /\ QueueInv(q, log) /\ History(log)
      /\ mac_dsn' \in Seqs /\ next_key' \in Nat /\ in_flight' \in SUBSET Nat
      /\ datarequests' \in Nat /\ asleep' = FALSE
      /\ \A k \in Keys : log[k] \in Records
      /\ q' = ProcessAcknowledge(q, seq_nr, payload)
  BY Types DEF IndInv, ReceiveAck, Input
<1>2. /\ log' \in LogType
      /\ \A k \in Keys : log'[k] = IF log[k].seq # {} /\ log[k].seq = seq_nr
                                   THEN [log[k] EXCEPT !.acks = @ \cup {payload}]
                                   ELSE log[k]
  <2>1. \A h \in Records : [h EXCEPT !.acks = @ \cup {payload}] \in Records
    BY DEF Records
  <2> QED BY <1>1, <2>1 DEF ReceiveAck, LogType
<1>3. \A k \in Keys : Grown(log'[k], log[k])
  BY <1>1, <1>2, ZenonT(60) DEF Grown, SameRequest, Records
<1>4. History(log')
  BY <1>1, <1>3, GrownHistory
<1>5. CASE ~AckIsOurs(q.state, seq_nr)
  <2>1. q' = q
    BY <1>1, <1>5 DEF ProcessAcknowledge
  <2>2. QueueInv(q', log')
    BY <2>1, <1>1, <1>3, GrownStep
  <2> QED BY <2>1, <2>2, <1>1, <1>2, <1>4, AwakeKeepsInv
<1>6. CASE AckIsOurs(q.state, seq_nr)
  <2> DEFINE state == IF q.state.tag = "WaitingForAck" THEN HaveResult(Ok(payload))
                      ELSE Sending(q.state.send_key, {}, payload)
  <2>1. q' = [q EXCEPT !.state = state]
    BY <1>1, <1>6 DEF ProcessAcknowledge, QueueType
  <2>2. /\ q.state.tag \in {"Sending", "WaitingForAck"}
        /\ q.state.ack_requested # {} /\ q.state.ack_requested = seq_nr
    BY <1>6 DEF AckIsOurs
  <2>3. q.entries # <<>> /\ Exchange(q.state, log[front])
    BY <2>2, <1>1 DEF QueueInv, Owned
  <2>4. front \in Keys /\ q.state \in States
    BY <2>3, <1>1, EntriesOf
  <2>5. log[front].seq = seq_nr /\ log[front].seq # {} /\ log[front].ack
    BY <2>2, <2>3 DEF Exchange
  <2>6. /\ log'[front].ack /\ log'[front].seq = log[front].seq
        /\ log'[front].send_key = log[front].send_key
        /\ log'[front].sent = log[front].sent /\ payload \in log'[front].acks
    <3>1. log[front] \in Records
      BY <1>1, <2>4
    <3>2. log'[front] = [log[front] EXCEPT !.acks = @ \cup {payload}]
      BY <1>2, <2>4, <2>5
    <3> QED BY <3>1, <3>2, <2>5 DEF Records
  <2>7. Earned(payload, log'[front])
    BY <2>6 DEF Earned
  <2>8. state \in States /\ state.tag # "Idle" /\ Exchange(state, log'[front])
    <3>1. CASE q.state.tag = "WaitingForAck"
      <4>1. state = HaveResult(Ok(payload))
        BY <3>1
      <4> HIDE DEF state
      <4>2. Ok(payload) \in Results /\ Ok(payload).ok = TRUE /\ Ok(payload).value = payload
        BY OkResults
      <4>3. state \in States /\ state.tag = "HaveResult" /\ state.result = Ok(payload)
        BY <4>1, <4>2, StatesOf
      <4>4. Justified(Ok(payload), log'[front])
        BY <4>2, <3>1, <2>3, <2>6, <2>7 DEF Justified, Exchange
      <4> QED BY <4>3, <4>4 DEF Exchange
    <3>2. CASE q.state.tag = "Sending"
      <4>1. state = Sending(q.state.send_key, {}, payload) /\ q.state.send_key \in Nat
        BY <3>2, <2>4, StateFields
      <4> HIDE DEF state
      <4>2. /\ state \in States /\ state.tag = "Sending" /\ state.ack_requested = {}
            /\ state.send_key = q.state.send_key /\ state.ack_payload = payload
        BY <4>1, StatesOf
      <4>3. log'[front].send_key = {state.send_key}
        BY <4>2, <3>2, <2>3, <2>6 DEF Exchange
      <4> QED BY <4>2, <4>3, <2>7 DEF Exchange
    <3> QED BY <3>1, <3>2, <2>2
  <2> HIDE DEF state
  <2>9. q' \in QueueType
    BY <1>1, <2>1, <2>8, WithState
  <2>10. QueueInv(q', log')
    <3>1. state.tag = "Idle" <=> q.state.tag = "Idle"
      BY <2>2, <2>8
    <3> QED BY <1>1, <1>3, <2>1, <2>8, <3>1, StateStep
  <2> QED BY <2>9, <2>10, <1>1, <1>2, <1>4, AwakeKeepsInv
<1> QED BY <1>5, <1>6

LEMMA AckTimeoutKeepsInv ==
  ASSUME IndInv, AckTimeout
  PROVE  IndInv'
<1>1. /\ q \in QueueType /\ log \in LogType /\ QueueInv(q, log) /\ History(log)
      /\ mac_dsn' \in Seqs /\ next_key' \in Nat /\ in_flight' \in SUBSET Nat
      /\ datarequests' \in Nat /\ asleep' = FALSE /\ log' = log
      /\ q.state \in States /\ q.state.tag = "WaitingForAck"
  BY Types, EntriesOf DEF IndInv, AckTimeout
<1> DEFINE state == [q.state EXCEPT !.timeout = TRUE]
<1>2. q' = [q EXCEPT !.state = state]
  BY <1>1 DEF AckTimeout, QueueType
<1>3. q.state \in [tag : {"WaitingForAck"}, ack_requested : SUBSET Seqs, timeout : BOOLEAN]
  BY <1>1 DEF States
<1>4. /\ state \in [tag : {"WaitingForAck"}, ack_requested : SUBSET Seqs, timeout : BOOLEAN]
      /\ state.tag = "WaitingForAck" /\ state.ack_requested = q.state.ack_requested
  BY <1>3
<1>5. state \in States
  BY <1>4 DEF States
<1> HIDE DEF state
<1>6. Exchange(state, log[q.entries[1].key])
  BY <1>1, <1>4 DEF QueueInv, Owned, Exchange
<1>7. q' \in QueueType
  BY <1>1, <1>2, <1>5, WithState
<1>8. QueueInv(q', log')
  BY <1>1, <1>2, <1>4, <1>5, <1>6, StateStep, GrownReflexive
<1> QED BY <1>1, <1>7, <1>8, AwakeKeepsInv

LEMMA TransactionTimeoutKeepsInv ==
  ASSUME IndInv, NEW i \in Indices(q), TransactionTimeout(i)
  PROVE  IndInv'
<1>1. /\ q \in QueueType /\ log \in LogType /\ QueueInv(q, log) /\ History(log)
      /\ mac_dsn' \in Seqs /\ next_key' \in Nat /\ in_flight' \in SUBSET Nat
      /\ datarequests' \in Nat /\ asleep' = FALSE /\ log' = log
      /\ q.entries \in Seq(Entries) /\ q.entries[i] \in Entries
  BY Types, EntriesOf DEF IndInv, TransactionTimeout
<1> DEFINE entry == [q.entries[i] EXCEPT !.timeout = TRUE]
           entries == [q.entries EXCEPT ![i] = entry]
<1>2. entry \in Entries /\ SameEntry(entry, q.entries[i])
  BY <1>1 DEF Entries, SameEntry
<1>3. q' = [q EXCEPT !.entries = entries]
  BY <1>1 DEF TransactionTimeout, QueueType
<1> HIDE DEF entry
<1>4. /\ entries \in Seq(Entries) /\ Len(entries) = Len(q.entries)
      /\ \A j \in Indices(q) : entries[j] = IF j = i THEN entry ELSE q.entries[j]
  BY <1>1, <1>2, ExceptSeq DEF Indices
<1> HIDE DEF entries
<1>5. q' \in QueueType /\ q'.state = q.state /\ q'.entries = entries
  BY <1>1, <1>3, <1>4 DEF QueueType
<1>6. \A j \in Indices(q) : SameEntry(q'.entries[j], q.entries[j])
  BY <1>2, <1>4, <1>5 DEF SameEntry
<1>7. Owned(q', log)
  <2> SUFFICES ASSUME q.state.tag # "Idle"
               PROVE  q'.entries # <<>> /\ Exchange(q.state, log[q'.entries[1].key])
    BY <1>5 DEF Owned
  <2>1. 1 \in Indices(q) /\ Exchange(q.state, log[q.entries[1].key])
    BY <1>1, EntriesOf DEF QueueInv, Owned
  <2>2. q'.entries # <<>>
    BY <2>1, <1>4, <1>5, EntriesOf DEF Indices
  <2>3. q'.entries[1].key = q.entries[1].key
    BY <2>1, <1>6 DEF SameEntry
  <2> QED BY <2>1, <2>2, <2>3
<1>8. QueueInv(q', log')
  <2>1. \A k \in Keys : SameRequest(log[k], log[k])
    BY DEF SameRequest
  <2> QED BY <1>1, <1>4, <1>5, <1>6, <1>7, <2>1, ExchangeStep
<1> QED BY <1>1, <1>5, <1>8, AwakeKeepsInv

-----------------------------------------------------------------------------
(* poll_next_action.                                                        *)

\* What the match on the state leaves behind when it does not return: nothing to
\* act on but, for a direct frame at the front, the retry.
LEMMA SettleStep ==
  ASSUME NEW qq \in QueueType, NEW lg \in LogType, QueueInv(qq, lg), qq.entries # <<>>,
         ~ShouldSend(qq), qq.state.tag # "HaveResult", AckTimedOut(qq) => CanRetry(qq)
  PROVE  LET new == Settle(qq)
         IN  /\ new \in QueueType /\ QueueInv(new, lg)
             /\ new.last_pending_reported = qq.last_pending_reported
             /\ Len(new.entries) = Len(qq.entries)
             /\ \A i \in Indices(qq) : /\ new.entries[i].key = qq.entries[i].key
                                       /\ new.entries[i].indirect = qq.entries[i].indirect
             /\ new.state.tag # "HaveResult"
             /\ new.state.tag = "WaitingForAck" => ~new.state.timeout
             /\ new.state.tag = "Idle" =>
                  /\ ~new.state.datarequest
                  /\ ~new.entries[1].indirect =>
                       lg[new.entries[1].key].sends \in 1 .. MaxFrameRetries
<1> DEFINE new == Settle(qq)
<1>0. Idle(FALSE) \in States /\ Idle(FALSE).tag = "Idle" /\ Idle(FALSE).datarequest = FALSE
  BY StatesOf
<1>1. /\ 1 \in Indices(qq) /\ qq.entries[1] \in Entries /\ qq.entries[1].key \in Keys
      /\ qq.entries[1].retries_left \in Nat /\ qq.entries[1].indirect \in BOOLEAN
  BY EntriesOf
<1>2. CASE AckTimedOut(qq)
  <2>1. new = BackToIdle(qq)
    BY <1>2 DEF Settle, AckTimedOut
  <2>2. qq.state.tag # "Idle" /\ CanRetry(qq)
    BY <1>2 DEF AckTimedOut
  <2>3. /\ new \in QueueType /\ new.state = Idle(FALSE)
        /\ new.last_pending_reported = qq.last_pending_reported
        /\ Len(new.entries) = Len(qq.entries)
        /\ \A j \in Indices(qq) : j # 1 => new.entries[j] = qq.entries[j]
        /\ new.entries[1] = UseRetry(qq.entries[1])
    BY <2>1, <2>2, BackToIdleShape
  <2>4. QueueInv(new, lg)
    BY <2>1, <2>2, RetryStep
  <2>5. /\ UseRetry(qq.entries[1]).key = qq.entries[1].key
        /\ UseRetry(qq.entries[1]).indirect = qq.entries[1].indirect
    BY <1>1 DEF UseRetry, Entries
  <2> HIDE DEF new
  <2>6. ~new.entries[1].indirect => lg[new.entries[1].key].sends \in 1 .. MaxFrameRetries
    <3> SUFFICES ASSUME ~new.entries[1].indirect
                 PROVE  lg[qq.entries[1].key].sends \in 1 .. MaxFrameRetries
      BY <2>3, <2>5
    <3>1. ~qq.entries[1].indirect /\ qq.entries[1].retries_left > 0
      BY <2>2, <2>3, <2>5 DEF CanRetry
    <3>2. lg[qq.entries[1].key].sends \in Nat
      BY <1>1 DEF LogType, Records
    <3>3. lg[qq.entries[1].key].sends + qq.entries[1].retries_left = MaxFrameRetries + 1
      BY <1>1, <2>2, <3>1 DEF QueueInv, Budget
    <3>4. qq.entries[1].retries_left \in 0 .. MaxFrameRetries
      BY <1>1 DEF Entries
    <3> QED BY <3>1, <3>2, <3>3, <3>4, DeviceQueueAssumption, SMTT(30)
  <2>7. \A i \in Indices(qq) : /\ new.entries[i].key = qq.entries[i].key
                               /\ new.entries[i].indirect = qq.entries[i].indirect
    BY <2>3, <2>5
  <2> QED BY <1>0, <2>3, <2>4, <2>6, <2>7 DEF new
<1>3. CASE ~AckTimedOut(qq) /\ qq.state.tag = "Idle"
  <2>1. new = [qq EXCEPT !.state = Idle(FALSE)]
    BY <1>3 DEF Settle
  <2>2. /\ new \in QueueType /\ new.state = Idle(FALSE) /\ new.entries = qq.entries
        /\ new.last_pending_reported = qq.last_pending_reported
    BY <2>1, <1>0, WithState, ZenonT(60)
  <2>3. QueueInv(new, lg)
    BY <2>1, <1>0, <1>3, StateStep, GrownReflexive
  <2>4. qq.entries[1].indirect
    BY <1>3 DEF ShouldSend
  <2> HIDE DEF new
  <2> QED BY <1>0, <2>2, <2>3, <2>4 DEF new
<1>4. CASE ~AckTimedOut(qq) /\ qq.state.tag # "Idle"
  <2>1. new = qq
    BY <1>4 DEF Settle
  <2> HIDE DEF new
  <2> QED BY <1>4, <2>1 DEF new, AckTimedOut
<1> QED BY <1>2, <1>3, <1>4

\* A justified result is reported for entry i, which leaves the queue.
LEMMA ReportStep ==
  ASSUME NEW qq \in QueueType, NEW lg \in LogType, QueueInv(qq, lg), History(lg),
         NEW i \in Indices(qq), NEW r \in Results, Justified(r, lg[qq.entries[i].key]),
         NEW lg2, lg2 = [lg EXCEPT ![qq.entries[i].key].status = "reported",
                                   ![qq.entries[i].key].result = {r}]
  PROVE  /\ Drop(qq, i) \in QueueType /\ QueueInv(Drop(qq, i), lg2)
         /\ lg2 \in LogType /\ History(lg2)
<1> DEFINE k == qq.entries[i].key
           g == [lg[k] EXCEPT !.status = "reported", !.result = {r}]
<1>1. k \in Keys /\ lg[k] \in Records
  BY EntriesOf DEF LogType
<1>2. /\ g \in Records /\ g.status = "reported" /\ g.result = {r}
      /\ g.indirect = lg[k].indirect /\ g.ack = lg[k].ack /\ g.sends = lg[k].sends
      /\ g.sent = lg[k].sent /\ g.acks = lg[k].acks
  <2> DEFINE rs == {r}
  <2>1. rs \in SUBSET Results
    OBVIOUS
  <2>0. g = [lg[k] EXCEPT !.status = "reported", !.result = rs]
    OBVIOUS
  <2> HIDE DEF rs, g
  <2>2. g = [status |-> "reported", indirect |-> lg[k].indirect, ack |-> lg[k].ack,
             result |-> rs, sends |-> lg[k].sends, send_key |-> lg[k].send_key,
             seq |-> lg[k].seq, sent |-> lg[k].sent, acks |-> lg[k].acks]
    BY <1>1, <2>0 DEF Records
  <2>3. g \in Records
    BY <1>1, <2>1, <2>2 DEF Records
  <2> QED BY <2>2, <2>3 DEF rs
<1>3. lg2 = [lg EXCEPT ![k] = g]
  BY <1>1 DEF LogType
<1>4. lg2 \in LogType /\ lg2[k] = g /\ \A j \in Keys : j # k => lg2[j] = lg[j]
  <2>1. g \in Records /\ k \in Keys
    BY <1>1, <1>2
  <2> HIDE DEF g, k
  <2> QED BY <1>3, <2>1 DEF LogType
<1> HIDE DEF g
<1>5. Justified(r, g)
  BY <1>2 DEF Justified, Earned
<1>6. History(lg2)
  BY <1>2, <1>4, <1>5, ZenonT(60) DEF History
<1>7. Drop(qq, i) \in QueueType
  BY DropShape
<1>8. lg2[k].status # "queued"
  BY <1>2, <1>4
<1>9. QueueInv(Drop(qq, i), lg2)
  BY <1>4, <1>8, DropStep, ZenonT(60)
<1> QED BY <1>4, <1>6, <1>7, <1>9

LEMMA PollKeepsInv ==
  ASSUME IndInv, Poll
  PROVE  IndInv'
<1> DEFINE polled == PollNextAction(q, next_key, mac_dsn)
           action == polled.action
           front == q.entries[1].key
<1>1. /\ q \in QueueType /\ log \in LogType /\ QueueInv(q, log) /\ History(log)
      /\ mac_dsn \in Seqs /\ next_key \in Nat /\ in_flight \in SUBSET Nat
      /\ datarequests' \in Nat /\ q.state \in States
  BY Types, EntriesOf DEF IndInv, Poll
<1>2. /\ q' = IF action.type = "Empty" THEN New ELSE polled.queue
      /\ mac_dsn' = IF action.type = "SendFrame" THEN NextSequenceNr(mac_dsn) ELSE mac_dsn
      /\ next_key' = IF action.type = "SendFrame" THEN next_key + 1 ELSE next_key
      /\ in_flight' = IF action.type = "SendFrame" THEN in_flight \cup {next_key}
                      ELSE in_flight
      /\ log' = Logged(action)
  BY DEF Poll
<1>a. asleep' = IF action.type \in {"Pending", "Empty"} THEN TRUE ELSE FALSE
  <2>1. asleep' = (action.type \in {"Pending", "Empty"})
    BY DEF Poll
  <2> HIDE DEF action
  <2>2. CASE action.type \in {"Pending", "Empty"}
    BY <2>1, <2>2, Zenon
  <2>3. CASE action.type \notin {"Pending", "Empty"}
    <3>1. ~asleep'
      BY <2>1, <2>3, Zenon
    <3>2. asleep' \in BOOLEAN
      BY <2>1
    <3>3. asleep' = FALSE
      BY <3>1, <3>2, Zenon
    <3> QED BY <2>3, <3>3
  <2> QED BY <2>2, <2>3
<1> HIDE DEF polled, action
<1>3. mac_dsn' \in Seqs /\ next_key' \in Nat /\ in_flight' \in SUBSET Nat
  <2>1. NextSequenceNr(mac_dsn) \in Seqs
    BY <1>1, DeviceQueueAssumption DEF NextSequenceNr, Seqs
  <2> QED BY <1>1, <1>2, <2>1
<1>4. CASE q.last_pending_reported # {ShouldBePending(q)}
  <2>1. polled = PollSetPending(q)
    BY <1>4 DEF polled, PollNextAction
  <2>2. polled.queue = RememberReported(q) /\ action.type = "SetPending"
    BY <2>1 DEF PollSetPending, SetPending, action
  <2>3. q' = RememberReported(q) /\ log' = log /\ asleep' = FALSE
    BY <2>2, <1>2, <1>a DEF Logged
  <2>4. ShouldBePending(q) \in BOOLEAN
    BY <1>1, EntriesOf DEF ShouldBePending
  <2> DEFINE reported == {ShouldBePending(q)}
  <2>5. reported \in SUBSET BOOLEAN
    BY <2>4
  <2>6. q' = [q EXCEPT !.last_pending_reported = reported]
    BY <2>3 DEF RememberReported
  <2> HIDE DEF reported
  <2>7. q' \in QueueType /\ q'.state = q.state /\ q'.entries = q.entries
    BY <1>1, <2>5, <2>6 DEF QueueType
  <2>8. QueueInv(q', log')
    BY <1>1, <2>3, <2>7 DEF QueueInv, Queued, Matches, Owned, Budget, Indices
  <2> QED BY <1>1, <1>3, <2>3, <2>7, <2>8, AwakeKeepsInv
<1>5. CASE q.last_pending_reported = {ShouldBePending(q)} /\ q.entries = <<>>
  <2>1. polled = PollEmpty(q)
    BY <1>5 DEF polled, PollNextAction
  <2>2. action.type = "Empty"
    BY <2>1 DEF PollEmpty, Empty, action
  <2>3. q' = New /\ log' = log /\ asleep' = TRUE
    BY <2>2, <1>2, <1>a DEF Logged
  <2>4. /\ New \in QueueType /\ New.state.tag = "Idle" /\ New.entries = <<>>
    <3>1. Idle(FALSE) \in States /\ Idle(FALSE).tag = "Idle"
      BY StatesOf
    <3>2. <<>> \in Seq(Entries)
      OBVIOUS
    <3> QED BY <3>1, <3>2 DEF New, QueueType
  <2>5. Indices(New) = Indices(q) /\ Indices(q) = {}
    BY <2>4, <1>5 DEF Indices
  <2>6. QueueInv(q', log')
    BY <1>1, <2>3, <2>4, <2>5 DEF QueueInv, Queued, Matches, Owned, Budget
  <2>7. TypeOK'
    BY <1>1, <1>3, <2>3, <2>4 DEF TypeOK, QueueType, LogType
  <2>8. SleepMissesOnlyRetries'
    BY <2>3, <2>4 DEF SleepMissesOnlyRetries
  <2> QED BY <1>1, <2>3, <2>6, <2>7, <2>8 DEF IndInv
<1>6. ASSUME q.last_pending_reported = {ShouldBePending(q)}, q.entries # <<>>
      PROVE  IndInv'
  <2>1. polled = PollEntries(q, next_key, mac_dsn)
    BY <1>6 DEF polled, PollNextAction
  <2>2. 1 \in Indices(q) /\ front \in Keys
    BY <1>1, <1>6, EntriesOf
  <2>3. CASE ShouldSend(q)
    <3> DEFINE asked == IF q.entries[1].acknowledge_request THEN {mac_dsn} ELSE {}
               new == [q EXCEPT !.state = Sending(next_key, asked, NoPayload)]
    <3>1. polled = [queue |-> new,
                    action |-> SendFrame(next_key, front, mac_dsn, MorePending(q))]
      BY <2>1, <2>3 DEF PollEntries, ShouldSend, AckTimedOut
    <3>2. /\ polled.queue = new /\ action.type = "SendFrame" /\ action.key = front
          /\ action.send_key = next_key /\ action.seq = mac_dsn
      BY <3>1 DEF SendFrame, action
    <3>3. q' = new /\ asleep' = FALSE
      BY <3>2, <1>2, <1>a
    <3>4. log' = [log EXCEPT ![front] = Transmitted(@, next_key, mac_dsn)]
      BY <3>2, <1>1, <1>2, <2>2 DEF Logged, Transmitted, LogType
    <3>5. q' \in QueueType /\ QueueInv(q', log') /\ log' \in LogType
      BY <1>1, <1>6, <2>3, <3>3, <3>4, SendStep
    <3>6. History(log')
      <4> DEFINE h == log[front]
                 g == Transmitted(h, next_key, mac_dsn)
      <4>1. log[front] \in Records /\ log[front].status = "queued"
        BY <1>1, <2>2 DEF QueueInv, Queued, LogType
      <4>2. log[front].result = {}
        BY <1>1, <2>2, <4>1 DEF History
      <4>3. g.status = "queued" /\ g.result = {}
        BY <4>1, <4>2, <1>1, TransmittedShape, SMTT(30)
      <4>4. log'[front] = g /\ \A k \in Keys : k # front => log'[k] = log[k]
        BY <3>4, <1>1, <2>2 DEF LogType
      <4> HIDE DEF g
      <4> QED BY <1>1, <4>3, <4>4 DEF History
    <3> QED BY <1>1, <1>3, <3>3, <3>5, <3>6, AwakeKeepsInv
  <2>4. CASE q.state.tag = "HaveResult"
    <3> DEFINE r == q.state.result
    <3>1. polled = [queue |-> Drop(q, 1), action |-> ReportResult(front, r)]
      BY <2>1, <2>4 DEF PollEntries, ShouldSend, AckTimedOut
    <3>2. /\ polled.queue = Drop(q, 1) /\ action.type = "ReportResult"
          /\ action.key = front /\ action.result = r
      BY <3>1 DEF ReportResult, action
    <3>3. q' = Drop(q, 1) /\ asleep' = FALSE
      BY <3>2, <1>2, <1>a
    <3>4. log' = [log EXCEPT ![front].status = "reported", ![front].result = {r}]
      BY <3>2, <1>2 DEF Logged
    <3>5. r \in Results /\ Justified(r, log[front])
      BY <1>1, <2>4, StateFields DEF QueueInv, Owned, Exchange
    <3>6. q' \in QueueType /\ QueueInv(q', log') /\ log' \in LogType /\ History(log')
      BY <1>1, <2>2, <3>3, <3>4, <3>5, ReportStep
    <3> QED BY <1>1, <1>3, <3>3, <3>6, AwakeKeepsInv
  <2>5. CASE AckTimedOut(q) /\ ~CanRetry(q)
    <3> DEFINE r == Err("NoAck")
    <3>1. polled = [queue |-> Drop(q, 1), action |-> ReportResult(front, r)]
      BY <2>1, <2>5 DEF PollEntries, ShouldSend, AckTimedOut
    <3>2. /\ polled.queue = Drop(q, 1) /\ action.type = "ReportResult"
          /\ action.key = front /\ action.result = r
      BY <3>1 DEF ReportResult, action
    <3>3. q' = Drop(q, 1) /\ asleep' = FALSE
      BY <3>2, <1>2, <1>a
    <3>4. log' = [log EXCEPT ![front].status = "reported", ![front].result = {r}]
      BY <3>2, <1>2 DEF Logged
    <3>5. r \in Results /\ r.ok = FALSE /\ r.value = "NoAck"
      BY ErrorResults DEF DeviceQueueError
    <3> HIDE DEF r
    <3>6. Justified(r, log[front])
      BY <1>1, <2>5, <3>5, Exhausted DEF Justified, AckTimedOut
    <3>7. q' \in QueueType /\ QueueInv(q', log') /\ log' \in LogType /\ History(log')
      BY <1>1, <2>2, <3>3, <3>4, <3>5, <3>6, ReportStep
    <3> QED BY <1>1, <1>3, <3>3, <3>7, AwakeKeepsInv
  <2>6. CASE ~ShouldSend(q) /\ q.state.tag # "HaveResult" /\ (AckTimedOut(q) => CanRetry(q))
    <3> DEFINE settled == Settle(q)
    <3>1. polled = ExpireOrWait(settled)
      BY <2>1, <2>6 DEF PollEntries
    <3>2. /\ settled \in QueueType /\ QueueInv(settled, log)
          /\ settled.last_pending_reported = q.last_pending_reported
          /\ Len(settled.entries) = Len(q.entries)
          /\ \A i \in Indices(q) : settled.entries[i].indirect = q.entries[i].indirect
          /\ settled.state.tag # "HaveResult"
          /\ settled.state.tag = "WaitingForAck" => ~settled.state.timeout
          /\ settled.state.tag = "Idle" =>
               /\ ~settled.state.datarequest
               /\ ~settled.entries[1].indirect =>
                    log[settled.entries[1].key].sends \in 1 .. MaxFrameRetries
      BY <1>1, <1>6, <2>6, SettleStep
    <3> HIDE DEF settled
    <3>3. CASE Expired(settled) # {}
      <4> DEFINE i == FirstExpired(settled)
                 r == Err("TransactionExpired")
                 k == settled.entries[i].key
      <4>1. i \in Indices(settled)
        <5>1. Expired(settled) \in SUBSET Nat /\ Expired(settled) \subseteq Indices(settled)
          BY <3>2, EntriesOf DEF Expired, Indices
        <5>2. \E x \in Expired(settled) : \A y \in Expired(settled) : x <= y
          BY <5>1, <3>3, LeastElementExists
        <5> QED BY <5>1, <5>2 DEF FirstExpired
      <4>2. polled = [queue |-> Drop(settled, i), action |-> ReportResult(k, r)]
        BY <3>1, <3>3 DEF ExpireOrWait
      <4> HIDE DEF i
      <4>3. /\ polled.queue = Drop(settled, i) /\ action.type = "ReportResult"
            /\ action.key = k /\ action.result = r
        BY <4>2 DEF ReportResult, action
      <4>4. q' = Drop(settled, i) /\ asleep' = FALSE
        BY <4>3, <1>2, <1>a
      <4>5. log' = [log EXCEPT ![k].status = "reported", ![k].result = {r}]
        BY <4>3, <1>2 DEF Logged
      <4>6. r \in Results /\ r.ok = FALSE /\ r.value = "TransactionExpired"
        BY ErrorResults DEF DeviceQueueError
      <4> HIDE DEF r
      <4>7. Justified(r, log[k])
        BY <4>6 DEF Justified
      <4>8. q' \in QueueType /\ QueueInv(q', log') /\ log' \in LogType /\ History(log')
        BY <1>1, <3>2, <4>1, <4>4, <4>5, <4>6, <4>7, ReportStep
      <4> QED BY <1>1, <1>3, <4>4, <4>8, AwakeKeepsInv
    <3>4. CASE Expired(settled) = {}
      <4>1. polled = [queue |-> settled, action |-> Pending]
        BY <3>1, <3>4 DEF ExpireOrWait
      <4>2. polled.queue = settled /\ action.type = "Pending"
        BY <4>1 DEF Pending, action
      <4>3. q' = settled /\ log' = log /\ asleep' = TRUE
        BY <4>2, <1>2, <1>a DEF Logged
      <4>4. TypeOK'
        BY <1>1, <1>3, <3>2, <4>3 DEF TypeOK, QueueType, LogType
      <4>5. settled.last_pending_reported = {settled.entries[1].indirect}
        <5>1. ShouldBePending(q) = q.entries[1].indirect
          BY <1>1, <1>6, <2>2, EntriesOf DEF ShouldBePending
        <5>2. settled.entries[1].indirect = q.entries[1].indirect
          BY <2>2, <3>2
        <5> QED BY <1>6, <3>2, <5>1, <5>2
      <4>6. \A i \in Indices(settled) : ~settled.entries[i].timeout
        BY <3>4 DEF Expired, Indices
      <4>7. SleepMissesOnlyRetries'
        BY <3>2, <4>3, <4>5, <4>6 DEF SleepMissesOnlyRetries, Indices
      <4> QED BY <1>1, <3>2, <4>3, <4>4, <4>7 DEF IndInv
    <3> QED BY <3>3, <3>4
  <2> QED BY <2>3, <2>4, <2>5, <2>6
<1> QED BY <1>4, <1>5, <1>6

LEMMA NextInv == IndInv /\ [Next]_vars => IndInv'
<1> SUFFICES ASSUME IndInv, [Next]_vars PROVE IndInv'
  OBVIOUS
<1>1. ASSUME NEW k \in Keys, NEW indirect \in BOOLEAN, NEW ack \in BOOLEAN,
             InsertRequest(k, indirect, ack)
      PROVE  IndInv'
  BY <1>1, InsertKeepsInv
<1>2. ASSUME NEW k \in Keys, RemoveRequest(k) PROVE IndInv'
  BY <1>2, RemoveKeepsInv
<1>3. CASE ReceiveDataRequest
  BY <1>3, DataRequestKeepsInv
<1>4. ASSUME NEW send_key \in in_flight, NEW success \in BOOLEAN, SendResult(send_key, success)
      PROVE  IndInv'
  BY <1>4, SendResultKeepsInv
<1>5. ASSUME NEW seq_nr, NEW payload \in Payloads, ReceiveAck(seq_nr, payload) PROVE IndInv'
  BY <1>5, AckKeepsInv
<1>6. ASSUME NEW dsn \in Seqs, OtherInput(dsn) PROVE IndInv'
  <2>1. /\ q' \in QueueType /\ log' \in LogType /\ mac_dsn' \in Seqs /\ next_key' \in Nat
        /\ in_flight' \in SUBSET Nat /\ datarequests' \in Nat /\ asleep' = FALSE
        /\ QueueInv(q', log') /\ History(log')
    BY <1>6, Types DEF IndInv, OtherInput, Input
  <2> QED BY <2>1, AwakeKeepsInv
<1>7. CASE AckTimeout
  BY <1>7, AckTimeoutKeepsInv
<1>8. ASSUME NEW i \in 1 .. Len(q.entries), TransactionTimeout(i) PROVE IndInv'
  BY <1>8, TransactionTimeoutKeepsInv DEF Indices
<1>9. CASE Poll
  BY <1>9, PollKeepsInv
<1>10. CASE UNCHANGED vars
  BY <1>10 DEF vars, IndInv, TypeOK, SleepMissesOnlyRetries
<1> QED BY <1>1, <1>2, <1>3, <1>4, <1>5, <1>6, <1>7, <1>8, <1>9, <1>10 DEF Next

LEMMA IndInvHolds == Spec => []IndInv
  BY InitInv, NextInv, PTL DEF Spec

-----------------------------------------------------------------------------
\* retries_left never goes below zero, and the other fields keep their types.
THEOREM TypeCorrect == Spec => []TypeOK
  BY IndInvHolds, PTL DEF IndInv

\* No request is lost from the queue, or in it twice.
THEOREM NoneLostOrDoubled == Spec => []EachQueuedOnce
<1>1. IndInv => EachQueuedOnce
  BY DEF IndInv, QueueInv, Queued, Indices, EachQueuedOnce
<1> QED BY <1>1, IndInvHolds, PTL

\* The exchange the state describes is the front entry's latest transmission.
THEOREM FrontIsOwned == Spec => []ExchangeOwnsFront
<1>1. IndInv => ExchangeOwnsFront
  BY DEF IndInv, QueueInv, Owned, Exchange, ExchangeOwnsFront
<1> QED BY <1>1, IndInvHolds, PTL

\* Success is reported only for a frame that was sent and acknowledged.
THEOREM NoFalseSuccess == Spec => []SuccessIsEarned
<1>1. IndInv => SuccessIsEarned
  BY DEF IndInv, History, Justified, Earned, SuccessIsEarned
<1> QED BY <1>1, IndInvHolds, PTL

\* A failure is reported only after the last retry.
THEOREM NoEarlyFailure == Spec => []FailureIsExhausted
<1>1. IndInv => FailureIsExhausted
  BY DEF IndInv, History, Justified, FailureIsExhausted
<1> QED BY <1>1, IndInvHolds, PTL

\* Every attempt uses one retry and no retry is used without an attempt.
THEOREM RetriesAreCounted == Spec => []AttemptBudget
<1>1. IndInv => AttemptBudget
  BY DEF IndInv, QueueInv, Budget, Indices, AttemptBudget
<1> QED BY <1>1, IndInvHolds, PTL

\* A sleeping task has nothing to act on but the retry of a direct frame.
THEOREM SleepIsSafe == Spec => []SleepMissesOnlyRetries
  BY IndInvHolds, PTL DEF IndInv

-----------------------------------------------------------------------------
(* The history of a request that is over.                                   *)
Over(h) == h.status \in {"removed", "reported"}
SameOutcome(g, h) == g.status = h.status /\ g.result = h.result /\ g.sends = h.sends

\* What a poll sends or reports is in the queue.
LEMMA PollsQueued ==
  ASSUME IndInv, NEW action, action = PollNextAction(q, next_key, mac_dsn).action,
         action.type \in {"SendFrame", "ReportResult"}
  PROVE  action.key \in Keys /\ log[action.key].status = "queued"
<1>1. q \in QueueType /\ log \in LogType /\ QueueInv(q, log)
  BY Types DEF IndInv
<1>2. \A i \in Indices(q) : q.entries[i].key \in Keys /\ log[q.entries[i].key].status = "queued"
  BY <1>1, EntriesOf DEF QueueInv, Queued
<1>3. q.last_pending_reported = {ShouldBePending(q)} /\ q.entries # <<>>
  BY DEF PollNextAction, PollSetPending, SetPending, PollEmpty, Empty
<1>4. 1 \in Indices(q)
  BY <1>1, <1>3, EntriesOf
<1>5. action = PollEntries(q, next_key, mac_dsn).action
  BY <1>3 DEF PollNextAction
<1>6. CASE ShouldSend(q)
  <2>1. action.key = q.entries[1].key
    BY <1>5, <1>6 DEF PollEntries, ShouldSend, AckTimedOut, SendFrame
  <2> QED BY <2>1, <1>2, <1>4
<1>7. CASE q.state.tag = "HaveResult"
  <2>1. action.key = q.entries[1].key
    BY <1>5, <1>7 DEF PollEntries, ShouldSend, AckTimedOut, ReportResult
  <2> QED BY <2>1, <1>2, <1>4
<1>8. CASE AckTimedOut(q) /\ ~CanRetry(q)
  <2>1. action.key = q.entries[1].key
    BY <1>5, <1>8 DEF PollEntries, ShouldSend, AckTimedOut, ReportResult
  <2> QED BY <2>1, <1>2, <1>4
<1>9. CASE ~ShouldSend(q) /\ q.state.tag # "HaveResult" /\ (AckTimedOut(q) => CanRetry(q))
  <2> DEFINE settled == Settle(q)
             i == FirstExpired(settled)
  <2>1. action = ExpireOrWait(settled).action
    BY <1>5, <1>9 DEF PollEntries
  <2>2. /\ settled \in QueueType /\ Len(settled.entries) = Len(q.entries)
        /\ \A j \in Indices(q) : settled.entries[j].key = q.entries[j].key
    BY <1>1, <1>3, <1>9, SettleStep
  <2> HIDE DEF settled
  <2>3. Expired(settled) # {} /\ action.key = settled.entries[i].key
    BY <2>1 DEF ExpireOrWait, Pending, ReportResult
  <2>4. i \in Indices(q)
    <3>1. Expired(settled) \in SUBSET Nat /\ Expired(settled) \subseteq Indices(q)
      BY <2>2, EntriesOf DEF Expired, Indices
    <3>2. \E x \in Expired(settled) : \A y \in Expired(settled) : x <= y
      BY <3>1, <2>3, LeastElementExists
    <3> QED BY <3>1, <3>2 DEF FirstExpired
  <2> HIDE DEF i
  <2> QED BY <2>2, <2>3, <2>4, <1>2
<1> QED BY <1>6, <1>7, <1>8, <1>9

LEMMA OverIsFinal ==
  ASSUME IndInv, Next, NEW k \in Keys, Over(log[k])
  PROVE  SameOutcome(log'[k], log[k])
<1>1. /\ log \in LogType /\ log[k] \in Records
      /\ log[k].status # "queued" /\ log[k].status # "new"
  BY Types DEF IndInv, Over
<1>2. ASSUME NEW j \in Keys, NEW indirect \in BOOLEAN, NEW ack \in BOOLEAN,
             InsertRequest(j, indirect, ack)
      PROVE  log'[k] = log[k]
  BY <1>1, <1>2 DEF InsertRequest, LogType
<1>3. ASSUME NEW j \in Keys, RemoveRequest(j) PROVE log'[k] = log[k]
  BY <1>1, <1>3 DEF RemoveRequest, LogType
<1>4. ASSUME NEW send_key \in in_flight, NEW success \in BOOLEAN, SendResult(send_key, success)
      PROVE  SameOutcome(log'[k], log[k])
  BY <1>1, <1>4 DEF SendResult, SameOutcome, Records
<1>5. ASSUME NEW seq_nr, NEW payload \in Payloads, ReceiveAck(seq_nr, payload)
      PROVE  SameOutcome(log'[k], log[k])
  BY <1>1, <1>5 DEF ReceiveAck, SameOutcome, Records
<1>6. CASE Poll
  <2> DEFINE action == PollNextAction(q, next_key, mac_dsn).action
  <2>1. log' = Logged(action)
    BY <1>6 DEF Poll
  <2>2. action.type \in {"SendFrame", "ReportResult"} => action.key \in Keys /\ action.key # k
    BY <1>1, PollsQueued
  <2> HIDE DEF action
  <2>3. log'[k] = log[k]
    <3>1. CASE action.type = "SendFrame"
      BY <2>1, <2>2, <3>1, <1>1 DEF Logged, LogType
    <3>2. CASE action.type = "ReportResult"
      BY <2>1, <2>2, <3>2, <1>1 DEF Logged, LogType
    <3>3. CASE action.type \notin {"SendFrame", "ReportResult"}
      BY <2>1, <3>3 DEF Logged
    <3> QED BY <3>1, <3>2, <3>3
  <2> QED BY <2>3 DEF SameOutcome
<1>7. CASE UNCHANGED log
  BY <1>7 DEF SameOutcome
<1> QED BY <1>2, <1>3, <1>4, <1>5, <1>6, <1>7
        DEF Next, SameOutcome, ReceiveDataRequest, OtherInput, AckTimeout, TransactionTimeout

\* Late results, acknowledgements and timers leave a request alone that was
\* reported or removed: it is not queued, sent or reported again.
THEOREM OutcomesAreFinal == Spec => ResultIsFinal
<1> DEFINE Final == \A k \in Keys : log[k].status \in {"removed", "reported"} =>
                      /\ log'[k].status = log[k].status
                      /\ log'[k].result = log[k].result
                      /\ log'[k].sends = log[k].sends
<1>1. IndInv /\ [Next]_vars => [Final]_vars
  BY OverIsFinal DEF Over, SameOutcome
<1> QED BY <1>1, IndInvHolds, PTL DEF Spec, ResultIsFinal
=============================================================================
